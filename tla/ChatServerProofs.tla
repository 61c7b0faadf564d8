--------------------------- MODULE ChatServerProofs ---------------------------
(***************************************************************************)
(* Theorems about ChatServer, for all values of its constants: it is well  *)
(* typed, a transcript has every answer after its question, what is        *)
(* reported is kept, what a prompt holds is past, and it implements the    *)
(* safety of ChatTurns.  Every step of a handler is of one of three kinds  *)
(* (it stores nothing, the question or the answer); each action is shown   *)
(* to be of one of them (StepKinds), and each kind to keep the invariant.  *)
(***************************************************************************)
EXTENDS ChatServer, FiniteSetTheorems, TLAPS

-----------------------------------------------------------------------------
(* The invariant *)

Event == {"meta", "token", "done", "error"}
ChatState == {"absent", "untitled", "titled", "deleted"}

\* The steps at which a turn's question has been stored.
Asked == {"asked", "answered", "streaming", "drained", "reloaded", "stored", "replying"}

\* The question of t is in its session, older than the open transaction.
QuestionStored(t) ==
  \E q \in rows[turn[t].session] :
    q.turn = t /\ q.role = "user" /\ q.at < turn[t].began

\* What makes AnswerAfterQuestion inductive: no transaction began in the
\* future, and the question of a turn that is being answered is in its session,
\* unless that was deleted, with an older stamp than its answer will get.
OrderInv ==
  /\ TypeOK
  /\ \A t \in Turns : InFlight(t) => turn[t].session \in Sessions
  /\ \A t \in Turns : turn[t].began <= clock
  /\ \A t \in Turns : turn[t].pc \in Asked =>
       /\ chat[turn[t].session] # "absent"
       /\ Open(turn[t].session) => QuestionStored(t)
  /\ AnswerAfterQuestion

-----------------------------------------------------------------------------
(* The kinds of step *)

\* Time goes on, no session opens and only the handler of t changes.
Moved(t) ==
  /\ clock' \in Nat /\ clock <= clock'
  /\ chat' \in [Sessions -> ChatState]
  /\ \A s \in Sessions : chat'[s] = chat[s] \/ (Open(s) /\ chat'[s] = "titled")
  /\ sent' \in [Turns -> Seq(Event)]
  /\ turn' \in [Turns -> Handler]
  /\ \A u \in Turns \ {t} : turn'[u] = turn[u]
  /\ turn'[t].session = turn[t].session
  /\ turn'[t].began <= clock'

\* A step that stores nothing.
Quiet(t) ==
  /\ Moved(t)
  /\ rows' = rows
  /\ turn'[t].pc \in Asked => turn[t].pc \in Asked /\ turn[t].began <= turn'[t].began

\* The question is stored, and another transaction has begun.
Questions(t) ==
  /\ Moved(t)
  /\ Open(turn[t].session)
  /\ turn'[t].pc = "asked"
  /\ \E at \in Nat :
       /\ at < turn'[t].began
       /\ rows' = [rows EXCEPT ![turn[t].session] =
            @ \cup {[turn |-> t, role |-> "user", at |-> at]}]

\* The answer is stored under the stamp of the open transaction.
Answers(t) ==
  /\ Moved(t)
  /\ turn[t].pc \in Asked /\ Open(turn[t].session)
  /\ turn'[t].began = turn[t].began
  /\ rows' = [rows EXCEPT ![turn[t].session] =
       @ \cup {[turn |-> t, role |-> "assistant", at |-> turn[t].began]}]

-----------------------------------------------------------------------------
(* How handlers move *)

\* A handler that holds what a handler holds moves alone.
LEMMA HandlerMoves ==
  ASSUME OrderInv, NEW t \in Turns, NEW r \in Handler,
         turn' = [turn EXCEPT ![t] = r],
         r.session = turn[t].session, r.began <= clock',
         clock' \in Nat, clock <= clock',
         chat' = chat, sent' \in [Turns -> Seq(Event)]
  PROVE  Moved(t) /\ turn'[t] = r
  BY DEF OrderInv, TypeOK, Moved, ChatState, Open

\* Going on to another step changes nothing else of the handler.
LEMMA GotoMoves ==
  ASSUME OrderInv, NEW t \in Turns, NEW pc \in Steps, Goto(t, pc),
         clock' = clock, chat' = chat, sent' = sent
  PROVE  /\ Moved(t)
         /\ turn'[t].pc = pc /\ turn'[t].began = turn[t].began
  <1> DEFINE r == [turn[t] EXCEPT !.pc = pc]
  <1>1. turn[t] \in Handler /\ turn[t].began <= clock /\ clock \in Nat
    BY DEF OrderInv, TypeOK
  <1>2. r \in Handler /\ r.session = turn[t].session /\ r.began = turn[t].began
    BY <1>1 DEF Handler
  <1>3. r.pc = pc
    BY <1>1 DEF Handler
  <1>4. turn' = [turn EXCEPT ![t] = r]
    BY DEF Goto
  <1>5. sent' \in [Turns -> Seq(Event)] /\ clock' \in Nat /\ clock <= clock'
    BY <1>1 DEF OrderInv, TypeOK, Event
  <1>6. Moved(t) /\ turn'[t] = r
    BY <1>1, <1>2, <1>4, <1>5, HandlerMoves
  <1>7. QED
    BY <1>2, <1>3, <1>6

\* A handler that ends stores nothing.
LEMMA FinishIsQuiet ==
  ASSUME OrderInv, NEW t \in Turns, NEW pc \in Closed, Finish(t, pc),
         clock' \in Nat, clock <= clock',
         chat' = chat, rows' = rows, sent' \in [Turns -> Seq(Event)]
  PROVE  Quiet(t)
  <1> DEFINE r == [turn[t] EXCEPT !.pc = pc, !.began = NoTransaction,
                                  !.untitled = FALSE, !.history = {}]
  <1>1. turn[t] \in Handler
    BY DEF OrderInv, TypeOK
  <1>2. r \in Handler /\ r.session = turn[t].session /\ r.began = 0
    BY <1>1 DEF Handler, NoTransaction
  <1>3. r.pc = pc
    BY <1>1 DEF Handler
  <1>4. turn' = [turn EXCEPT ![t] = r]
    BY DEF Finish
  <1> HIDE DEF r
  <1>5. Moved(t) /\ turn'[t] = r
    <2>1. r.began <= clock'
      BY <1>2
    <2>2. QED
      BY <1>2, <1>4, <2>1, HandlerMoves
  <1>6. pc \notin Asked
    BY DEF Closed, Asked
  <1>7. QED
    BY <1>3, <1>5, <1>6 DEF Quiet

\* Sending an event keeps the event sequences well typed.
LEMMA YieldTypes ==
  ASSUME OrderInv, NEW t \in Turns, NEW e \in Event, Yield(t, e)
  PROVE  sent' \in [Turns -> Seq(Event)]
  <1>1. sent \in [Turns -> Seq(Event)]
    BY DEF OrderInv, TypeOK, Event
  <1>2. Append(sent[t], e) \in Seq(Event)
    BY <1>1
  <1>3. QED
    BY <1>1, <1>2 DEF Yield

-----------------------------------------------------------------------------
(* The kind of each action *)

\* Failing in the stream stores nothing.
LEMMA FailingIsQuiet ==
  ASSUME OrderInv, NEW t \in Turns, StreamFails(t), clock' \in {clock, Now}
  PROVE  Quiet(t)
  <1>1. clock' \in Nat /\ clock <= clock'
    BY DEF OrderInv, TypeOK, Now
  <1>2. sent' \in [Turns -> Seq(Event)]
    BY YieldTypes DEF StreamFails, Event
  <1>3. QED
    BY <1>1, <1>2, FinishIsQuiet DEF StreamFails, Closed

\* Inserting the answer stores it, or the session is gone and the turn ends.
LEMMA InsertingAnswers ==
  ASSUME OrderInv, NEW t \in Turns, NEW from \in Asked, NEW to \in Steps,
         NEW failed \in Closed, InsertAnswer(t, from, to, failed)
  PROVE  Quiet(t) \/ Answers(t)
  <1>1. clock \in Nat /\ clock' = clock /\ chat' = chat /\ sent' = sent
    BY DEF InsertAnswer, OrderInv, TypeOK
  <1>2. CASE Open(turn[t].session)
    <2>1. Goto(t, to)
      BY <1>2 DEF InsertAnswer
    <2>2. Moved(t) /\ turn'[t].began = turn[t].began
      BY <1>1, <2>1, GotoMoves
    <2>3. turn[t].pc \in Asked
      BY DEF InsertAnswer, At
    <2>4. QED
      BY <1>2, <2>2, <2>3 DEF InsertAnswer, Answers
  <1>3. CASE ~Open(turn[t].session)
    <2>1. Finish(t, failed) /\ rows' = rows
      BY <1>3 DEF InsertAnswer
    <2>2. sent' \in [Turns -> Seq(Event)] /\ clock' \in Nat /\ clock <= clock'
      BY <1>1 DEF OrderInv, TypeOK, Event
    <2>3. QED
      BY <1>1, <2>1, <2>2, FinishIsQuiet
  <1>4. QED
    BY <1>2, <1>3

\* Going on between two steps that both come after the question, or both
\* before it, stores nothing.
LEMMA GoingIsQuiet ==
  ASSUME OrderInv, NEW t \in Turns, NEW pc \in Steps, Goto(t, pc),
         pc \in Asked => turn[t].pc \in Asked,
         UNCHANGED <<chat, rows, sent, clock>>
  PROVE  Quiet(t)
  <1>1. /\ Moved(t)
        /\ turn'[t].pc = pc /\ turn'[t].began = turn[t].began
    BY GotoMoves
  <1>2. turn[t].began <= turn[t].began
    BY DEF OrderInv, TypeOK, Handler
  <1>3. QED
    BY <1>1, <1>2 DEF Quiet

\* Ending without an event stores nothing.
LEMMA EndingIsQuiet ==
  ASSUME OrderInv, NEW t \in Turns, NEW pc \in Closed, Finish(t, pc),
         UNCHANGED <<chat, rows, sent, clock>>
  PROVE  Quiet(t)
  <1>1. sent' \in [Turns -> Seq(Event)] /\ clock' \in Nat /\ clock <= clock'
    BY DEF OrderInv, TypeOK, Event
  <1>2. QED
    BY <1>1, FinishIsQuiet

\* Loading the session and the history, and naming the session.
LEMMA PreparingIsQuiet ==
  ASSUME OrderInv, NEW t \in Turns, LoadSession(t) \/ ReadHistory(t) \/ Rename(t)
  PROVE  Quiet(t)
  <1>1. /\ turn[t] \in Handler /\ turn[t].began <= clock /\ turn[t].began \in Nat
        /\ clock \in Nat /\ sent \in [Turns -> Seq(Event)]
        /\ {"loaded", "heard"} \subseteq Steps \ Asked
        /\ {"refused"} \subseteq Closed
    BY DEF OrderInv, TypeOK, Handler, Event, Steps, Asked, Closed
  <1>2. CASE LoadSession(t)
    <2>1. CASE Open(turn[t].session)
      <3> DEFINE r == [turn[t] EXCEPT !.pc = "loaded",
                         !.untitled = chat[turn[t].session] = "untitled"]
      <3>1. /\ r \in Handler /\ r.session = turn[t].session
            /\ r.began <= clock /\ r.pc \notin Asked
        BY <1>1 DEF Handler
      <3>2. turn' = [turn EXCEPT ![t] = r]
        BY <1>2, <2>1 DEF LoadSession
      <3> HIDE DEF r
      <3>3. chat' = chat /\ clock' = clock /\ clock <= clock /\ sent' = sent
        BY <1>1, <1>2 DEF LoadSession
      <3>4. Moved(t) /\ turn'[t] = r
        BY <1>1, <3>1, <3>2, <3>3, HandlerMoves
      <3>5. QED
        BY <1>2, <3>1, <3>4 DEF LoadSession, Quiet
    <2>2. CASE ~Open(turn[t].session)
      BY <1>1, <1>2, <2>2, EndingIsQuiet DEF LoadSession
    <2>3. QED
      BY <2>1, <2>2
  <1>3. CASE ReadHistory(t)
    <2> DEFINE seen == RecentHistory(turn[t].session)
               r == [turn[t] EXCEPT !.pc = "heard", !.history = seen,
                                    !.untitled = turn[t].untitled /\ seen = {}]
    <2>1. turn[t].session \in Sessions
      BY <1>3 DEF ReadHistory, At, InFlight, Steps, OrderInv
    <2>2. seen \in SUBSET Message
      BY <2>1 DEF RecentHistory, OrderInv, TypeOK
    <2>3. turn' = [turn EXCEPT ![t] = r]
      BY <1>3 DEF ReadHistory
    <2> HIDE DEF seen
    <2>4. /\ r \in Handler /\ r.session = turn[t].session
          /\ r.began <= clock /\ r.pc \notin Asked
      BY <1>1, <2>2 DEF Handler
    <2> HIDE DEF r
    <2>5. chat' = chat /\ clock' = clock /\ clock <= clock /\ sent' = sent
      BY <1>1, <1>3 DEF ReadHistory
    <2>6. Moved(t) /\ turn'[t] = r
      BY <1>1, <2>3, <2>4, <2>5, HandlerMoves
    <2>7. QED
      BY <1>3, <2>4, <2>6 DEF ReadHistory, Quiet
  <1>4. CASE Rename(t)
    <2>1. CASE Open(turn[t].session)
      <3> DEFINE r == [turn[t] EXCEPT !.untitled = FALSE, !.began = NoTransaction]
      <3>1. /\ r \in Handler /\ r.session = turn[t].session
            /\ r.began = 0 /\ r.pc = turn[t].pc
        BY <1>1 DEF Handler, NoTransaction
      <3>2. turn' = [turn EXCEPT ![t] = r]
        BY <1>4, <2>1 DEF Rename
      <3> HIDE DEF r
      <3>3. turn' \in [Turns -> Handler] /\ turn'[t] = r
        BY <3>1, <3>2 DEF OrderInv, TypeOK
      <3>4. \A u \in Turns \ {t} : turn'[u] = turn[u]
        BY <3>2 DEF OrderInv, TypeOK
      <3>5. /\ chat' \in [Sessions -> ChatState]
            /\ \A s \in Sessions : chat'[s] = chat[s] \/ (Open(s) /\ chat'[s] = "titled")
        BY <1>4, <2>1 DEF Rename, OrderInv, TypeOK, ChatState, Open
      <3>6. Moved(t)
        <4>1. clock' = clock /\ clock <= clock /\ 0 <= clock /\ sent' = sent
          BY <1>1, <1>4 DEF Rename
        <4>2. QED
          BY <1>1, <3>1, <3>3, <3>4, <3>5, <4>1 DEF Moved
      <3>7. turn[t].pc \notin Asked
        BY <1>1, <1>4 DEF Rename, At
      <3>8. QED
        BY <1>4, <3>1, <3>3, <3>6, <3>7 DEF Rename, Quiet
    <2>2. CASE ~Open(turn[t].session)
      BY <1>1, <1>4, <2>2, EndingIsQuiet DEF Rename
    <2>3. QED
      BY <2>1, <2>2
  <1>5. QED
    BY <1>2, <1>3, <1>4

\* Storing the question stores it, or the session is gone and the turn ends.
LEMMA QuestioningQuestions ==
  ASSUME OrderInv, NEW t \in Turns, StoreQuestion(t)
  PROVE  Quiet(t) \/ Questions(t)
  <1>1. /\ turn[t] \in Handler /\ turn[t].began <= clock /\ turn[t].began \in Nat
        /\ clock \in Nat /\ sent \in [Turns -> Seq(Event)]
        /\ "asked" \in Steps /\ "refused" \in Closed
    BY DEF OrderInv, TypeOK, Handler, Event, Steps, Closed
  <1>2. CASE Open(turn[t].session)
    <2> DEFINE next == clock + 2
               r == [turn[t] EXCEPT !.pc = "asked", !.began = next]
    <2>1. /\ r \in Handler /\ r.session = turn[t].session
          /\ r.pc = "asked" /\ r.began = clock + 2
      <3>1. next \in Nat
        BY <1>1
      <3> HIDE DEF next
      <3>2. r \in Handler /\ r.session = turn[t].session
        BY <1>1, <3>1 DEF Handler
      <3>3. r.pc = "asked" /\ r.began = next
        BY <1>1, <3>1 DEF Handler
      <3>4. QED
        BY <3>2, <3>3 DEF next
    <2>2. /\ turn' = [turn EXCEPT ![t] = r]
          /\ chat' = chat /\ sent' = sent /\ clock' = clock + 2
      BY <1>2 DEF StoreQuestion, InsertQuestion
    <2> HIDE DEF r
    <2>3. Moved(t) /\ turn'[t] = r
      <3>1. clock' \in Nat /\ clock <= clock' /\ r.began <= clock'
        BY <1>1, <2>1, <2>2
      <3>2. sent' \in [Turns -> Seq(Event)]
        BY <1>1, <2>2
      <3>3. QED
        BY <2>1, <2>2, <3>1, <3>2, HandlerMoves
    <2>4. Own(t) \in Nat /\ Own(t) < clock + 2
      BY <1>1 DEF Own
    <2>5. rows' = [rows EXCEPT ![turn[t].session] =
            @ \cup {[turn |-> t, role |-> "user", at |-> Own(t)]}]
      BY <1>2 DEF StoreQuestion, InsertQuestion
    <2>6. QED
      BY <1>2, <2>1, <2>3, <2>4, <2>5 DEF Questions
  <1>3. CASE ~Open(turn[t].session)
    BY <1>1, <1>3, EndingIsQuiet DEF StoreQuestion, InsertQuestion
  <1>4. QED
    BY <1>2, <1>3

\* The steps of a plain query.
LEMMA QueryKinds ==
  ASSUME OrderInv, NEW t \in Turns, Generate(t) \/ StoreReply(t) \/ Reply(t)
  PROVE  Quiet(t) \/ Answers(t)
  <1>1. {"asked", "answered", "replying"} \subseteq Asked \cap Steps
    BY DEF Asked, Steps
  <1>2. {"refused", "over"} \subseteq Closed
    BY DEF Closed
  <1>3. CASE Generate(t)
    <2>1. turn[t].pc \in Asked
      BY <1>1, <1>3 DEF Generate, At
    <2>2. CASE Goto(t, "answered")
      BY <1>1, <1>3, <2>1, <2>2, GoingIsQuiet DEF Generate
    <2>3. CASE Finish(t, "refused")
      BY <1>2, <1>3, <2>3, EndingIsQuiet DEF Generate
    <2>4. QED
      BY <1>3, <2>2, <2>3 DEF Generate
  <1>4. CASE StoreReply(t)
    BY <1>1, <1>2, <1>4, InsertingAnswers DEF StoreReply
  <1>5. CASE Reply(t)
    BY <1>2, <1>5, EndingIsQuiet DEF Reply
  <1>6. QED
    BY <1>3, <1>4, <1>5

\* Opening the stream begins a later transaction.
LEMMA OpeningIsQuiet ==
  ASSUME OrderInv, NEW t \in Turns, OpenStream(t)
  PROVE  Quiet(t)
  <1>1. CASE StreamFails(t)
    BY <1>1, FailingIsQuiet DEF OpenStream
  <1>2. CASE ~StreamFails(t)
    <2> DEFINE r == [turn[t] EXCEPT !.pc = "streaming", !.began = Now]
    <2>1. /\ turn[t] \in Handler /\ turn[t].began <= clock /\ turn[t].began \in Nat
          /\ clock \in Nat /\ "streaming" \in Steps /\ "asked" \in Asked
      BY DEF OrderInv, TypeOK, Handler, Steps, Asked
    <2>2. Now \in Nat /\ Now = clock + 1
      BY <2>1 DEF Now
    <2>3. /\ r \in Handler /\ r.session = turn[t].session
          /\ r.pc = "streaming" /\ r.began = clock + 1
      <3>1. r \in Handler /\ r.session = turn[t].session
        BY <2>1, <2>2 DEF Handler
      <3>2. r.pc = "streaming" /\ r.began = Now
        BY <2>1, <2>2 DEF Handler
      <3>3. QED
        BY <2>2, <3>1, <3>2
    <2>4. /\ turn' = [turn EXCEPT ![t] = r]
          /\ chat' = chat /\ rows' = rows /\ clock' = clock + 1
          /\ turn[t].pc \in Asked
      BY <1>2, <2>1 DEF OpenStream, Now, At
    <2>5. sent' \in [Turns -> Seq(Event)]
      BY <1>2, YieldTypes DEF OpenStream, Event
    <2> HIDE DEF r
    <2>6. /\ clock' \in Nat /\ clock <= clock'
          /\ r.began <= clock' /\ turn[t].began <= r.began
      BY <2>1, <2>3, <2>4
    <2>7. Moved(t) /\ turn'[t] = r
      BY <2>3, <2>4, <2>5, <2>6, HandlerMoves
    <2>8. QED
      BY <2>4, <2>6, <2>7 DEF Quiet
  <1>3. QED
    BY <1>1, <1>2

\* The steps of a stream after it was opened.
LEMMA StreamKinds ==
  ASSUME OrderInv, NEW t \in Turns,
         \/ NextPiece(t) \/ EndOfPieces(t)
         \/ ReloadSession(t) \/ StoreAnswer(t) \/ SendDone(t) \/ Disconnect(t)
  PROVE  Quiet(t) \/ Answers(t)
  <1>1. {"streaming", "drained", "reloaded", "stored"} \subseteq Asked \cap Steps
    BY DEF Asked, Steps
  <1>2. {"cut", "over"} \subseteq Closed
    BY DEF Closed
  <1>3. CASE NextPiece(t)
    <2>1. CASE StreamFails(t)
      BY <1>3, <2>1, FailingIsQuiet DEF NextPiece
    <2>2. CASE ~StreamFails(t)
      <3>1. /\ chat' = chat /\ rows' = rows /\ turn' = turn /\ clock' = clock
            /\ turn[t].pc \in Asked
        BY <1>1, <1>3, <2>2 DEF NextPiece, At
      <3>2. sent' \in [Turns -> Seq(Event)]
        BY <1>3, <2>2, YieldTypes DEF NextPiece, Event
      <3>3. /\ clock \in Nat /\ clock <= clock
            /\ turn[t].began <= clock /\ turn[t].began <= turn[t].began
        BY DEF OrderInv, TypeOK, Handler
      <3>4. Moved(t)
        BY <3>1, <3>2, <3>3 DEF Moved, OrderInv, TypeOK, ChatState, Open
      <3>5. QED
        BY <3>1, <3>3, <3>4 DEF Quiet
    <2>3. QED
      BY <2>1, <2>2
  <1>4. CASE EndOfPieces(t)
    <2>1. turn[t].pc \in Asked
      BY <1>1, <1>4 DEF EndOfPieces, At
    <2>2. QED
      BY <1>1, <1>4, <2>1, GoingIsQuiet DEF EndOfPieces
  <1>5. CASE ReloadSession(t)
    <2>1. turn[t].pc \in Asked
      BY <1>1, <1>5 DEF ReloadSession, At
    <2>2. CASE Open(turn[t].session)
      BY <1>1, <1>5, <2>1, <2>2, GoingIsQuiet DEF ReloadSession
    <2>3. CASE ~Open(turn[t].session)
      BY <1>2, <1>5, <2>3, EndingIsQuiet DEF ReloadSession
    <2>4. QED
      BY <2>2, <2>3
  <1>6. CASE StoreAnswer(t)
    BY <1>1, <1>2, <1>6, InsertingAnswers DEF StoreAnswer
  <1>7. CASE SendDone(t)
    <2>1. sent' \in [Turns -> Seq(Event)]
      BY <1>7, YieldTypes DEF SendDone, Event
    <2>2. clock' = clock /\ clock \in Nat /\ clock <= clock
      BY <1>7 DEF SendDone, OrderInv, TypeOK
    <2>3. QED
      BY <1>2, <1>7, <2>1, <2>2, FinishIsQuiet DEF SendDone
  <1>8. CASE Disconnect(t)
    BY <1>2, <1>8, EndingIsQuiet DEF Disconnect
  <1>9. QED
    BY <1>3, <1>4, <1>5, <1>6, <1>7, <1>8

\* Every step of a handler stores nothing, its question or its answer.
LEMMA StepKinds ==
  ASSUME OrderInv, NEW t \in Turns, TurnStep(t) \/ Disconnect(t)
  PROVE  Quiet(t) \/ Questions(t) \/ Answers(t)
  BY PreparingIsQuiet, QuestioningQuestions, QueryKinds, OpeningIsQuiet, StreamKinds
     DEF TurnStep

-----------------------------------------------------------------------------
(* The invariant is inductive *)

\* Nothing is stored and no handler runs at first.
LEMMA InitOrder == Init => OrderInv
  <1> SUFFICES ASSUME Init
               PROVE  OrderInv
    OBVIOUS
  <1>1. TypeOK
    BY DEF Init, TypeOK, Handler, Closed, Steps, NoTransaction
  <1>2. \A t \in Turns : turn[t].pc \notin Steps /\ turn[t].pc \notin Asked
    BY DEF Init, Steps, Asked
  <1>3. \A t \in Turns : turn[t].began <= clock
    BY DEF Init, NoTransaction
  <1>4. AnswerAfterQuestion
    BY DEF Init, AnswerAfterQuestion
  <1>5. QED
    BY <1>1, <1>2, <1>3, <1>4 DEF OrderInv, InFlight

\* A turn that is being answered is in a session.
LEMMA AskedSomewhere ==
  ASSUME OrderInv
  PROVE  \A t \in Turns : turn[t].pc \in Asked => turn[t].session \in Sessions
  BY DEF OrderInv, Asked, InFlight, Steps

\* A session request stores no message, and a new session has no turn yet.
LEMMA SessionSteps ==
  ASSUME OrderInv, NEW s \in Sessions, CreateSession(s) \/ DeleteSession(s)
  PROVE  OrderInv'
  <1>1. /\ turn' = turn /\ clock' = clock /\ sent' = sent
        /\ \A r \in Sessions \ {s} : chat'[r] = chat[r] /\ rows'[r] = rows[r]
    BY DEF CreateSession, DeleteSession, OrderInv, TypeOK
  <1>2. TypeOK'
    BY DEF CreateSession, DeleteSession, OrderInv, TypeOK
  <1>3. ASSUME NEW t \in Turns, turn[t].pc \in Asked
        PROVE  /\ chat'[turn[t].session] # "absent"
               /\ Open(turn[t].session)' => QuestionStored(t)'
    <2>1. /\ turn[t].session \in Sessions
          /\ chat[turn[t].session] # "absent"
          /\ Open(turn[t].session) => QuestionStored(t)
      BY <1>3, AskedSomewhere DEF OrderInv
    <2>2. CASE turn[t].session = s
      <3>1. chat'[s] = "deleted"
        BY <2>1, <2>2 DEF CreateSession, DeleteSession, OrderInv, TypeOK
      <3>2. QED
        BY <1>1, <2>2, <3>1 DEF Open
    <2>3. CASE turn[t].session # s
      BY <1>1, <2>1, <2>3 DEF Open, QuestionStored
    <2>4. QED
      BY <2>2, <2>3
  <1>4. AnswerAfterQuestion'
    <2>1. rows'[s] = rows[s] \/ rows'[s] = {}
      BY DEF CreateSession, DeleteSession, OrderInv, TypeOK
    <2>2. QED
      BY <1>1, <2>1 DEF OrderInv, AnswerAfterQuestion
  <1>5. QED
    BY <1>1, <1>2, <1>3, <1>4 DEF OrderInv, InFlight

\* A turn that arrives has asked nothing yet.
LEMMA ArriveStep ==
  ASSUME OrderInv, NEW t \in Turns, NEW s \in Sessions, NEW k \in {"query", "stream"},
         Arrive(t, s, k)
  PROVE  OrderInv'
  <1>1. turn[t] \in Handler /\ clock \in Nat
    BY DEF OrderInv, TypeOK
  <1>2. Now \in Nat /\ Now = clock + 1 /\ "arrived" \in Steps \ Asked
    BY <1>1 DEF Now, Steps, Asked
  <1> DEFINE r == [turn[t] EXCEPT !.pc = "arrived", !.session = s, !.kind = k, !.began = Now]
  <1>3. r \in Handler /\ r.session = s
    BY <1>1, <1>2 DEF Handler
  <1>4. r.pc = "arrived" /\ r.began = Now
    BY <1>1, <1>2 DEF Handler
  <1>5. turn' = [turn EXCEPT ![t] = r] /\ clock' = Now /\ UNCHANGED <<chat, rows, sent>>
    BY DEF Arrive
  <1> HIDE DEF r
  <1>6. /\ turn' \in [Turns -> Handler] /\ turn'[t] = r
        /\ \A u \in Turns \ {t} : turn'[u] = turn[u]
    BY <1>3, <1>5 DEF OrderInv, TypeOK
  <1>7. TypeOK'
    BY <1>2, <1>5, <1>6 DEF OrderInv, TypeOK
  <1>8. \A u \in Turns : turn'[u].pc \in Steps => turn'[u].session \in Sessions
    BY <1>3, <1>6 DEF OrderInv, InFlight
  <1>9. \A u \in Turns : turn'[u].began <= clock'
    <2>1. TAKE u \in Turns
    <2>2. turn[u].began \in Nat /\ turn[u].began <= clock
      BY DEF OrderInv, TypeOK, Handler
    <2>3. QED
      BY <1>1, <1>2, <1>4, <1>5, <1>6, <2>2
  <1>10. ASSUME NEW u \in Turns, turn'[u].pc \in Asked
         PROVE  /\ chat'[turn'[u].session] # "absent"
                /\ Open(turn[u].session)' => QuestionStored(u)'
    <2>1. turn'[u] = turn[u]
      BY <1>2, <1>4, <1>6, <1>10
    <2>2. QED
      BY <1>5, <1>10, <2>1 DEF OrderInv, Open, QuestionStored
  <1>11. AnswerAfterQuestion'
    BY <1>5 DEF OrderInv, AnswerAfterQuestion
  <1>12. QED
    BY <1>7, <1>8, <1>9, <1>10, <1>11 DEF OrderInv, InFlight

\* After a crash no handler runs.
LEMMA CrashStep ==
  ASSUME OrderInv, Crash
  PROVE  OrderInv'
  <1>1. UNCHANGED <<chat, rows, sent, clock>> /\ clock \in Nat
    BY DEF Crash, OrderInv, TypeOK
  <1>2. ASSUME NEW t \in Turns
        PROVE  turn'[t] \in Handler /\ turn'[t].began <= clock /\ turn'[t].pc \in Closed
    <2>1. /\ turn[t] \in Handler /\ turn[t].began \in Nat /\ turn[t].began <= clock
          /\ 0 <= clock /\ "cut" \in Closed
      BY <1>1 DEF OrderInv, TypeOK, Handler, Closed
    <2>2. CASE InFlight(t)
      <3> DEFINE r == [turn[t] EXCEPT !.pc = "cut", !.began = NoTransaction,
                                      !.untitled = FALSE, !.history = {}]
      <3>1. r \in Handler /\ r.began = 0
        BY <2>1 DEF Handler, NoTransaction
      <3>2. r.pc = "cut"
        BY <2>1 DEF Handler
      <3>3. turn'[t] = r
        BY <2>2 DEF Crash
      <3> HIDE DEF r
      <3>4. QED
        BY <2>1, <3>1, <3>2, <3>3
    <2>3. CASE ~InFlight(t)
      <3>1. turn'[t] = turn[t]
        BY <2>3 DEF Crash
      <3>2. turn[t].pc \in Closed
        BY <2>1, <2>3 DEF Handler, InFlight
      <3>3. QED
        BY <2>1, <3>1, <3>2
    <2>4. QED
      BY <2>2, <2>3
  <1>3. turn' \in [Turns -> Handler]
    <2>1. \E f : turn' = [t \in Turns |-> f[t]]
      <3> DEFINE f == [t \in Turns |-> IF InFlight(t)
            THEN [turn[t] EXCEPT !.pc = "cut", !.began = NoTransaction,
                                 !.untitled = FALSE, !.history = {}]
            ELSE turn[t]]
      <3>1. turn' = f /\ f = [t \in Turns |-> f[t]]
        BY DEF Crash
      <3>2. QED
        BY <3>1
    <2>2. QED
      BY <1>2, <2>1
  <1>4. Closed \cap Steps = {} /\ Closed \cap Asked = {}
    BY DEF Closed, Steps, Asked
  <1>5. TypeOK'
    BY <1>1, <1>3 DEF OrderInv, TypeOK
  <1>6. AnswerAfterQuestion'
    BY <1>1 DEF OrderInv, AnswerAfterQuestion
  <1>7. QED
    BY <1>1, <1>2, <1>4, <1>5, <1>6 DEF OrderInv, InFlight

\* Only a handler in flight takes a step.
LEMMA OnlyInFlight ==
  ASSUME NEW t \in Turns, TurnStep(t) \/ Disconnect(t)
  PROVE  InFlight(t)
  BY DEF TurnStep, Disconnect, InFlight, Steps, At, LoadSession, ReadHistory, Rename,
         StoreQuestion, InsertQuestion, Generate, StoreReply, StoreAnswer, InsertAnswer,
         Reply, OpenStream, NextPiece, EndOfPieces, ReloadSession, SendDone

\* Whatever a step of a handler stores, if it stores a message of the turn, or
\* none, and keeps the order of the transcript, the invariant holds after it.
LEMMA KindsKeep ==
  ASSUME OrderInv, NEW t \in Turns, InFlight(t), Moved(t),
         rows' \in [Sessions -> SUBSET Message],
         \A s \in Sessions : rows[s] \subseteq rows'[s],
         turn'[t].pc \in Asked /\ Open(turn[t].session) =>
           \E q \in rows'[turn[t].session] :
             q.turn = t /\ q.role = "user" /\ q.at < turn'[t].began,
         turn'[t].pc \in Asked => chat[turn[t].session] # "absent",
         AnswerAfterQuestion'
  PROVE  OrderInv'
  <1>1. TypeOK'
    BY DEF Moved, TypeOK, ChatState, Event
  <1>2. turn[t].session \in Sessions
    BY DEF OrderInv
  <1>3. \A u \in Turns : turn'[u].pc \in Steps => turn'[u].session \in Sessions
    BY <1>2 DEF Moved, OrderInv, InFlight
  <1>4. \A u \in Turns : turn'[u].began <= clock'
    <2>1. TAKE u \in Turns
    <2>2. /\ turn[u].began \in Nat /\ turn[u].began <= clock
          /\ clock \in Nat /\ clock' \in Nat /\ clock <= clock'
      BY DEF OrderInv, TypeOK, Handler, Moved
    <2>3. CASE u = t
      BY <2>3 DEF Moved
    <2>4. CASE u # t
      <3>1. turn'[u] = turn[u]
        BY <2>4 DEF Moved
      <3>2. QED
        BY <2>2, <3>1
    <2>5. QED
      BY <2>3, <2>4
  <1>5. ASSUME NEW u \in Turns, turn'[u].pc \in Asked
        PROVE  /\ chat'[turn'[u].session] # "absent"
               /\ Open(turn[u].session)' => QuestionStored(u)'
    <2>1. /\ turn[u].session \in Sessions /\ turn'[u].session = turn[u].session
          /\ chat[turn[u].session] # "absent"
      BY <1>2, <1>5, AskedSomewhere DEF Moved, OrderInv
    <2>2. /\ chat'[turn[u].session] # "absent"
          /\ chat'[turn[u].session] \in {"untitled", "titled"} => Open(turn[u].session)
      BY <2>1 DEF Moved, Open
    <2>3. ASSUME Open(turn[u].session)
          PROVE  QuestionStored(u)'
      <3>1. CASE u = t
        BY <1>5, <2>1, <2>3, <3>1 DEF QuestionStored
      <3>2. CASE u # t
        <4>1. turn'[u] = turn[u]
          BY <3>2 DEF Moved
        <4>2. QuestionStored(u)
          BY <1>5, <2>3, <4>1 DEF OrderInv
        <4>3. QED
          BY <2>1, <4>1, <4>2 DEF QuestionStored
      <3>3. QED
        BY <3>1, <3>2
    <2>4. QED
      BY <2>1, <2>2, <2>3 DEF Open
  <1>6. QED
    BY <1>1, <1>3, <1>4, <1>5 DEF OrderInv, InFlight

\* A step that stores nothing keeps the invariant.
LEMMA QuietKeeps ==
  ASSUME OrderInv, NEW t \in Turns, InFlight(t), Quiet(t)
  PROVE  OrderInv'
  <1>1. rows' = rows /\ rows \in [Sessions -> SUBSET Message] /\ Moved(t)
    BY DEF Quiet, OrderInv, TypeOK
  <1>2. AnswerAfterQuestion'
    BY <1>1 DEF OrderInv, AnswerAfterQuestion
  <1>3. ASSUME turn'[t].pc \in Asked
        PROVE  /\ chat[turn[t].session] # "absent"
               /\ Open(turn[t].session) =>
                    \E q \in rows'[turn[t].session] :
                      q.turn = t /\ q.role = "user" /\ q.at < turn'[t].began
    <2>1. turn[t].pc \in Asked /\ turn[t].began <= turn'[t].began
      BY <1>3 DEF Quiet
    <2>2. turn[t].began \in Nat /\ turn'[t].began \in Nat /\ turn[t].session \in Sessions
      BY <1>1 DEF OrderInv, TypeOK, Moved, Handler
    <2>3. /\ chat[turn[t].session] # "absent"
          /\ Open(turn[t].session) => QuestionStored(t)
      BY <2>1 DEF OrderInv
    <2>4. \A q \in rows[turn[t].session] : q.at \in Nat
      BY <1>1, <2>2 DEF Message
    <2>5. QED
      BY <1>1, <2>1, <2>2, <2>3, <2>4 DEF QuestionStored
  <1>4. QED
    BY <1>1, <1>2, <1>3, KindsKeep

\* Storing the question keeps the invariant: the answer's stamp will be later.
LEMMA QuestionsKeeps ==
  ASSUME OrderInv, NEW t \in Turns, InFlight(t), Questions(t)
  PROVE  OrderInv'
  <1> DEFINE s == turn[t].session
  <1>1. /\ s \in Sessions /\ rows \in [Sessions -> SUBSET Message] /\ Moved(t)
        /\ Open(s)
    BY DEF Questions, OrderInv, TypeOK
  <1>2. PICK at \in Nat :
          /\ at < turn'[t].began
          /\ rows' = [rows EXCEPT ![s] = @ \cup {[turn |-> t, role |-> "user", at |-> at]}]
    BY DEF Questions
  <1> DEFINE m == [turn |-> t, role |-> "user", at |-> at]
  <1>3. m \in Message /\ m.turn = t /\ m.role = "user" /\ m.at = at
    BY DEF Message
  <1> HIDE DEF m
  <1>4. rows' = [rows EXCEPT ![s] = @ \cup {m}]
    BY <1>2 DEF m
  <1> HIDE DEF s
  <1>5. /\ rows' \in [Sessions -> SUBSET Message]
        /\ rows'[s] = rows[s] \cup {m}
        /\ \A r \in Sessions \ {s} : rows'[r] = rows[r]
    BY <1>1, <1>3, <1>4
  <1>6. AnswerAfterQuestion'
    BY <1>3, <1>5 DEF OrderInv, AnswerAfterQuestion
  <1>7. \E q \in rows'[s] : q.turn = t /\ q.role = "user" /\ q.at < turn'[t].began
    BY <1>2, <1>3, <1>5
  <1>8. chat[s] # "absent"
    BY <1>1 DEF Open
  <1>9. \A r \in Sessions : rows[r] \subseteq rows'[r]
    BY <1>5
  <1>10. QED
    BY <1>1, <1>5, <1>6, <1>7, <1>8, <1>9, KindsKeep DEF s

\* Storing the answer keeps the invariant: the question is there and older.
LEMMA AnswersKeeps ==
  ASSUME OrderInv, NEW t \in Turns, InFlight(t), Answers(t)
  PROVE  OrderInv'
  <1> DEFINE s == turn[t].session
             m == [turn |-> t, role |-> "assistant", at |-> turn[t].began]
  <1>1. /\ s \in Sessions /\ rows \in [Sessions -> SUBSET Message] /\ Moved(t)
        /\ Open(s) /\ turn'[t].began = turn[t].began
        /\ rows' = [rows EXCEPT ![s] = @ \cup {m}]
    BY DEF Answers, OrderInv, TypeOK
  <1>2. m \in Message /\ m.turn = t /\ m.role = "assistant" /\ m.at = turn[t].began
    BY DEF Message, OrderInv, TypeOK, Handler
  <1>3. QuestionStored(t) /\ chat[s] # "absent"
    BY DEF Answers, OrderInv
  <1>4. \E q \in rows[s] : q.turn = t /\ q.role = "user" /\ q.at < turn[t].began
    BY <1>3 DEF QuestionStored
  <1> HIDE DEF m, s
  <1>5. /\ rows' \in [Sessions -> SUBSET Message]
        /\ rows'[s] = rows[s] \cup {m}
        /\ \A r \in Sessions \ {s} : rows'[r] = rows[r]
    BY <1>1, <1>2
  <1>6. AnswerAfterQuestion'
    <2>1. ASSUME NEW r \in Sessions, NEW a \in rows'[r], a.role = "assistant"
          PROVE  \E q \in rows'[r] : q.turn = a.turn /\ q.role = "user" /\ q.at < a.at
      <3>1. CASE a \in rows[r]
        BY <1>5, <2>1, <3>1 DEF OrderInv, AnswerAfterQuestion
      <3>2. CASE a \notin rows[r]
        BY <1>2, <1>4, <1>5, <2>1, <3>2
      <3>3. QED
        BY <3>1, <3>2
    <2>2. QED
      BY <2>1 DEF AnswerAfterQuestion
  <1>7. \A r \in Sessions : rows[r] \subseteq rows'[r]
    BY <1>5
  <1>8. \E q \in rows'[s] : q.turn = t /\ q.role = "user" /\ q.at < turn'[t].began
    BY <1>1, <1>4, <1>5
  <1>9. QED
    BY <1>1, <1>3, <1>5, <1>6, <1>7, <1>8, KindsKeep DEF s

\* OrderInv is inductive.
LEMMA OrderStep == OrderInv /\ [Next]_vars => OrderInv'
  <1> SUFFICES ASSUME OrderInv, [Next]_vars
               PROVE  OrderInv'
    OBVIOUS
  <1>1. ASSUME NEW s \in Sessions, CreateSession(s) \/ DeleteSession(s)
        PROVE  OrderInv'
    BY <1>1, SessionSteps
  <1>2. ASSUME NEW t \in Turns, NEW s \in Sessions, NEW k \in {"query", "stream"},
               Arrive(t, s, k)
        PROVE  OrderInv'
    BY <1>2, ArriveStep
  <1>3. ASSUME NEW t \in Turns, TurnStep(t) \/ Disconnect(t)
        PROVE  OrderInv'
    <2>1. InFlight(t)
      BY <1>3, OnlyInFlight
    <2>2. QED
      BY <1>3, <2>1, StepKinds, QuietKeeps, QuestionsKeeps, AnswersKeeps
  <1>4. CASE Crash
    BY <1>4, CrashStep
  <1>5. CASE UNCHANGED vars
    BY <1>5 DEF vars, OrderInv, TypeOK, InFlight, Open, QuestionStored, AnswerAfterQuestion
  <1>6. QED
    BY <1>1, <1>2, <1>3, <1>4, <1>5 DEF Next

-----------------------------------------------------------------------------
(* Theorems *)

\* The chat API's sessions, messages and handlers keep their types.
THEOREM TypeCorrect == Spec => []TypeOK
  <1>1. OrderInv => TypeOK
    BY DEF OrderInv
  <1>2. QED
    BY InitOrder, OrderStep, <1>1, PTL DEF Spec

\* A transcript read back puts every answer after its question, for any number
\* of concurrent turns and sessions, deletions, disconnections and crashes.
THEOREM AnswerAfterQuestionAlways == Spec => []AnswerAfterQuestion
  <1>1. OrderInv => AnswerAfterQuestion
    BY DEF OrderInv
  <1>2. QED
    BY InitOrder, OrderStep, <1>1, PTL DEF Spec

-------------------------------------------------------------------------------
(* ChatServer implements the safety of ChatTurns: the invariant *)

\* The steps of a turn before its question is stored, and before its answer is.
Early == {"arrived", "loaded", "heard"}
Unanswered ==
  {"idle", "asked", "answered", "streaming", "drained", "reloaded", "refused"} \cup Early

\* The steps at which events have gone out, and which end in an answer.
Streaming == {"streaming", "drained", "reloaded", "stored"}

\* The answer of a turn is stored; a turn has told its client that it is; or
\* that there is none.
Answered(t) == \E m \in rows[turn[t].session] : m.turn = t /\ m.role = "assistant"
Succeeded(t) ==
  \/ turn[t].pc \in {"stored", "replying"} \/ HasSent(t, "done")
  \/ turn[t].pc = "over" /\ turn[t].kind = "query"
Failed(t) == HasSent(t, "error")

\* Messages belong to a turn of the session they are in, which exists.
MessagesPlaced == \A s \in Sessions : \A m \in rows[s] :
  Open(s) /\ turn[m.turn].session = s

\* A turn that has not been asked is in no session.
TurnsPlaced == \A t \in Turns :
  IF turn[t].pc = "idle" THEN turn[t].session = NoSession ELSE turn[t].session \in Sessions

\* Messages are stored in their order, by the step that says so.
StoredInOrder == \A t \in Turns : \A s \in Sessions : \A m \in rows[s] : m.turn = t =>
  /\ turn[t].pc \notin Early \cup {"idle"}
  /\ turn[t].pc \in Unanswered \/ Failed(t) => m.role = "user"

\* What has succeeded is stored, for as long as its session is there.
SuccessKept == \A t \in Turns : Succeeded(t) =>
  /\ turn[t].session \in Sessions /\ chat[turn[t].session] # "absent"
  /\ Open(turn[t].session) => Answered(t)

\* The steps of a plain turn, and of a streamed one.
KindsFit == \A t \in Turns :
  /\ turn[t].pc \in {"answered", "replying"} => turn[t].kind = "query"
  /\ turn[t].pc \in Streaming => turn[t].kind = "stream"

\* What has been sent, by the step.
EventsFit == \A t \in Turns :
  /\ turn[t].pc \notin Streaming \cup {"over", "cut"} => sent[t] = <<>>
  /\ turn[t].kind = "query" => sent[t] = <<>>
  /\ turn[t].pc \in Streaming =>
       /\ sent[t] # <<>>
       /\ \A i \in 1..Len(sent[t]) : sent[t][i] = IF i = 1 THEN "meta" ELSE "token"
  /\ turn[t].pc \in Streaming \ {"streaming"} => Len(sent[t]) > 1
  /\ HasSent(t, "done") \/ Failed(t) => turn[t].pc = "over"

TurnInv ==
  /\ OrderInv
  /\ MessagesPlaced /\ TurnsPlaced /\ StoredInOrder /\ SuccessKept
  /\ KindsFit /\ EventsFit

-----------------------------------------------------------------------------
(* Stamps *)

\* The steps of a turn that may still store a message with its stamp.
Storing == Early \cup {"asked", "answered", "streaming", "drained", "reloaded"}
Stamped(t) == turn[t].pc \in Storing /\ turn[t].began # NoTransaction

\* No two messages have one stamp, no two open turns will give one, and none
\* that will be given has been.
StampsApart ==
  /\ \A s \in Sessions : \A m \in rows[s] : m.at <= clock
  /\ \A s \in Sessions : \A m, n \in rows[s] : m.at = n.at => m = n
  /\ \A t, u \in Turns : Stamped(t) /\ Stamped(u) /\ turn[t].began = turn[u].began => t = u
  /\ \A t \in Turns : Stamped(t) =>
       \A s \in Sessions : \A m \in rows[s] : m.at # turn[t].began
  /\ \A s \in Sessions : IsFiniteSet(rows[s])

HistoryInv == TurnInv /\ StampsApart /\ HistoryIsPast

-----------------------------------------------------------------------------
(* The kinds of step *)

\* A step of turn t: it goes on in its session, under the transaction that is
\* open, under none or under a new one, with the history it has just read, or
\* what it had of it.  The other turns stay, and no session opens or closes.
Acts(t) ==
  /\ InFlight(t) /\ turn[t].session \in Sessions
  /\ clock' \in Nat /\ clock <= clock'
  /\ \A s \in Sessions : chat'[s] = chat[s] \/ (Open(s) /\ chat'[s] = "titled")
  /\ \A u \in Turns \ {t} : turn'[u] = turn[u] /\ sent'[u] = sent[u]
  /\ turn'[t].session = turn[t].session /\ turn'[t].kind = turn[t].kind
  /\ \/ turn'[t].began \in {turn[t].began, NoTransaction}
     \/ turn'[t].began = clock' /\ clock < clock'
  /\ \/ turn'[t].history \in {turn[t].history, {}}
     \/ turn[t].pc = "loaded" /\ turn'[t].history = RecentHistory(turn[t].session)

\* From one step to another, with the messages and events as they are.
Goes(t, from, to) ==
  /\ turn[t].pc \in from /\ turn'[t].pc \in to
  /\ rows' = rows /\ sent' = sent

\* With a message stored in its session, or an event sent to its client.
Stores(t, role, at) ==
  /\ Open(turn[t].session)
  /\ rows' = [rows EXCEPT ![turn[t].session] = @ \cup {[turn |-> t, role |-> role, at |-> at]}]
  /\ sent' = sent
Sends(t, event) ==
  /\ rows' = rows
  /\ sent' = [sent EXCEPT ![t] = Append(@, event)]

\* What a step of a turn comes to: nothing is stored or sent yet; the question is
\* stored; the request is refused; the model or a read goes on; an event is sent;
\* an error is; the answer is stored; it is reported; the client has left.
Prepares(t) == Goes(t, Early, Early)
Asks(t) ==
  /\ turn[t].pc = "heard" /\ turn'[t].pc = "asked"
  /\ Stores(t, "user", Own(t))
  /\ turn'[t].began = clock + 2 /\ clock' = clock + 2
Refuses(t) == Goes(t, Early \cup {"asked", "answered"}, {"refused"})
Works(t) ==
  \/ Goes(t, {"asked"}, {"answered"}) /\ turn[t].kind = "query"
  \/ Goes(t, {"streaming"}, {"drained"}) /\ HasSent(t, "token")
  \/ Goes(t, {"drained"}, {"reloaded"})
Emits(t) ==
  /\ turn'[t].pc = "streaming"
  /\ \/ turn[t].pc = "asked" /\ turn[t].kind = "stream" /\ Sends(t, "meta")
     \/ turn[t].pc = "streaming" /\ Len(sent[t]) <= MaxPieces /\ Sends(t, "token")
Errs(t) ==
  /\ \/ turn[t].pc = "asked" /\ turn[t].kind = "stream"
     \/ turn[t].pc = "streaming"
  /\ turn'[t].pc = "over"
  /\ Sends(t, "error")
Keeps(t) ==
  /\ \/ turn[t].pc = "answered" /\ turn'[t].pc = "replying"
     \/ turn[t].pc = "reloaded" /\ turn'[t].pc = "stored"
  /\ Stores(t, "assistant", turn[t].began)
Reports(t) ==
  \/ Goes(t, {"replying"}, {"over"})
  \/ turn[t].pc = "stored" /\ turn'[t].pc = "over" /\ Sends(t, "done")
Breaks(t) == Goes(t, {"asked", "streaming", "drained", "reloaded", "stored"}, {"cut"})

StepOf(t) ==
  /\ Acts(t)
  /\ \/ Prepares(t) \/ Asks(t) \/ Refuses(t) \/ Works(t) \/ Emits(t) \/ Errs(t)
     \/ Keeps(t) \/ Reports(t) \/ Breaks(t)

\* A handler that moves from what it holds to r.
LEMMA HandlerActs ==
  ASSUME OrderInv, NEW t \in Turns, InFlight(t), NEW r \in Handler,
         turn' = [turn EXCEPT ![t] = r],
         r.session = turn[t].session, r.kind = turn[t].kind,
         \/ r.began \in {turn[t].began, NoTransaction}
         \/ r.began = clock' /\ clock < clock',
         \/ r.history \in {turn[t].history, {}}
         \/ turn[t].pc = "loaded" /\ r.history = RecentHistory(turn[t].session),
         clock' \in Nat, clock <= clock',
         \A s \in Sessions : chat'[s] = chat[s] \/ (Open(s) /\ chat'[s] = "titled"),
         \A u \in Turns \ {t} : sent'[u] = sent[u]
  PROVE  Acts(t) /\ turn'[t] = r
  BY DEF OrderInv, TypeOK, Acts

\* Going on to another step.
LEMMA GotoActs ==
  ASSUME OrderInv, NEW t \in Turns, InFlight(t), NEW pc \in Steps, Goto(t, pc),
         clock' = clock, chat' = chat, \A u \in Turns \ {t} : sent'[u] = sent[u]
  PROVE  Acts(t) /\ turn'[t].pc = pc
  <1> DEFINE r == [turn[t] EXCEPT !.pc = pc]
  <1>1. turn[t] \in Handler /\ clock \in Nat /\ clock <= clock
    BY DEF OrderInv, TypeOK
  <1>2. /\ r \in Handler /\ r.session = turn[t].session /\ r.kind = turn[t].kind
        /\ r.began = turn[t].began /\ r.history = turn[t].history
    BY <1>1 DEF Handler
  <1>20. r.pc = pc
    BY <1>1 DEF Handler
  <1>3. turn' = [turn EXCEPT ![t] = r]
    BY DEF Goto
  <1> HIDE DEF r
  <1>4. QED
    BY <1>1, <1>2, <1>20, <1>3, HandlerActs

\* The end of a handler.
LEMMA FinishActs ==
  ASSUME OrderInv, NEW t \in Turns, InFlight(t), NEW pc \in Closed, Finish(t, pc),
         clock' \in Nat, clock <= clock', chat' = chat,
         \A u \in Turns \ {t} : sent'[u] = sent[u]
  PROVE  Acts(t) /\ turn'[t].pc = pc
  <1> DEFINE r == [turn[t] EXCEPT !.pc = pc, !.began = NoTransaction,
                                  !.untitled = FALSE, !.history = {}]
  <1>1. turn[t] \in Handler
    BY DEF OrderInv, TypeOK
  <1>2. /\ r \in Handler /\ r.session = turn[t].session /\ r.kind = turn[t].kind
        /\ r.began = NoTransaction /\ r.history = {}
    BY <1>1 DEF Handler, NoTransaction
  <1>3. r.pc = pc
    BY <1>1 DEF Handler
  <1>4. turn' = [turn EXCEPT ![t] = r]
    BY DEF Finish
  <1> HIDE DEF r
  <1>5. QED
    BY <1>2, <1>3, <1>4, HandlerActs

\* The session is loaded, or the request refused.
LEMMA LoadSessionKind ==
  ASSUME OrderInv, NEW t \in Turns, InFlight(t), LoadSession(t)
  PROVE  StepOf(t)
  <1>1. /\ turn[t] \in Handler /\ clock \in Nat /\ clock <= clock
        /\ UNCHANGED <<chat, rows, sent, clock>> /\ turn[t].pc = "arrived"
    BY DEF OrderInv, TypeOK, LoadSession, At
  <1>2. CASE Open(turn[t].session)
    <2> DEFINE r == [turn[t] EXCEPT !.pc = "loaded",
                                    !.untitled = chat[turn[t].session] = "untitled"]
    <2>1. /\ r \in Handler /\ r.session = turn[t].session
          /\ r.kind = turn[t].kind /\ r.began = turn[t].began /\ r.history = turn[t].history
      BY <1>1 DEF Handler, Steps
    <2>10. r.pc = "loaded"
      BY <1>1 DEF Handler
    <2>2. turn' = [turn EXCEPT ![t] = r]
      BY <1>2 DEF LoadSession
    <2> HIDE DEF r
    <2>3. Acts(t) /\ turn'[t] = r
      BY <1>1, <2>1, <2>10, <2>2, HandlerActs
    <2>4. QED
      BY <1>1, <2>1, <2>10, <2>3 DEF StepOf, Prepares, Goes, Early
  <1>3. CASE ~Open(turn[t].session)
    BY <1>1, <1>3, FinishActs DEF LoadSession, Closed, StepOf, Refuses, Goes, Early
  <1>4. QED
    BY <1>2, <1>3

\* The conversation so far is read.
LEMMA ReadHistoryKind ==
  ASSUME OrderInv, NEW t \in Turns, InFlight(t), ReadHistory(t)
  PROVE  StepOf(t)
  <1> DEFINE seen == RecentHistory(turn[t].session)
             r == [turn[t] EXCEPT !.pc = "heard", !.history = seen,
                                  !.untitled = turn[t].untitled /\ seen = {}]
  <1>1. /\ turn[t] \in Handler /\ clock \in Nat /\ clock <= clock
        /\ UNCHANGED <<chat, rows, sent, clock>> /\ turn[t].pc = "loaded"
    BY DEF OrderInv, TypeOK, ReadHistory, At
  <1>2. seen \in SUBSET Message
    BY DEF RecentHistory, OrderInv, TypeOK
  <1>3. turn' = [turn EXCEPT ![t] = r]
    BY DEF ReadHistory
  <1>4. seen = RecentHistory(turn[t].session)
    OBVIOUS
  <1> HIDE DEF seen
  <1>5. /\ r \in Handler /\ r.session = turn[t].session
        /\ r.kind = turn[t].kind /\ r.began = turn[t].began /\ r.history = seen
    BY <1>1, <1>2 DEF Handler, Steps
  <1>50. r.pc = "heard"
    BY <1>1 DEF Handler
  <1> HIDE DEF r
  <1>6. /\ r.began \in {turn[t].began, NoTransaction}
        /\ turn[t].pc = "loaded" /\ r.history = RecentHistory(turn[t].session)
        /\ clock' \in Nat /\ clock <= clock' /\ chat' = chat /\ sent' = sent
    BY <1>1, <1>4, <1>5
  <1>7. Acts(t) /\ turn'[t] = r
    BY <1>3, <1>5, <1>6, HandlerActs
  <1>8. QED
    BY <1>1, <1>5, <1>50, <1>7 DEF StepOf, Prepares, Goes, Early

\* The session takes its title from the question; a session deleted meanwhile
\* refuses the request.
LEMMA RenameKind ==
  ASSUME OrderInv, NEW t \in Turns, InFlight(t), Rename(t)
  PROVE  StepOf(t)
  <1>1. /\ turn[t] \in Handler /\ clock \in Nat /\ clock <= clock
        /\ UNCHANGED <<rows, sent, clock>> /\ turn[t].pc = "heard"
    BY DEF OrderInv, TypeOK, Rename, At
  <1>2. CASE Open(turn[t].session)
    <2> DEFINE r == [turn[t] EXCEPT !.untitled = FALSE, !.began = NoTransaction]
    <2>1. /\ r \in Handler /\ r.session = turn[t].session
          /\ r.kind = turn[t].kind /\ r.began = NoTransaction /\ r.history = turn[t].history
      BY <1>1 DEF Handler, NoTransaction
    <2>10. r.pc = "heard"
      BY <1>1 DEF Handler
    <2>2. turn' = [turn EXCEPT ![t] = r]
      BY <1>2 DEF Rename
    <2>3. \A s \in Sessions : chat'[s] = chat[s] \/ (Open(s) /\ chat'[s] = "titled")
      BY <1>2 DEF Rename, OrderInv, TypeOK
    <2> HIDE DEF r
    <2>4. Acts(t) /\ turn'[t] = r
      BY <1>1, <2>1, <2>10, <2>2, <2>3, HandlerActs
    <2>5. QED
      BY <1>1, <2>1, <2>10, <2>4 DEF StepOf, Prepares, Goes, Early
  <1>3. CASE ~Open(turn[t].session)
    BY <1>1, <1>3, FinishActs DEF Rename, Closed, StepOf, Refuses, Goes, Early
  <1>4. QED
    BY <1>2, <1>3

\* The question is stored with the stamp of its transaction, and the one that
\* follows the commit and the reload is newer than every message.
LEMMA StoreQuestionKind ==
  ASSUME OrderInv, NEW t \in Turns, InFlight(t), StoreQuestion(t)
  PROVE  StepOf(t)
  <1>1. /\ turn[t] \in Handler /\ clock \in Nat /\ clock <= clock
        /\ UNCHANGED <<chat, sent>> /\ turn[t].pc = "heard"
    BY DEF OrderInv, TypeOK, StoreQuestion, InsertQuestion, At
  <1>2. CASE Open(turn[t].session)
    <2>0. PICK next \in Nat : next = clock + 2
      BY <1>1
    <2> DEFINE r == [turn[t] EXCEPT !.pc = "asked", !.began = next]
    <2>1. /\ r \in Handler /\ r.session = turn[t].session
          /\ r.kind = turn[t].kind /\ r.began = next /\ r.history = turn[t].history
      BY <1>1 DEF Handler, Steps
    <2>10. r.pc = "asked"
      BY <1>1 DEF Handler
    <2>2. turn' = [turn EXCEPT ![t] = r] /\ clock' = clock + 2 /\ Stores(t, "user", Own(t))
      BY <1>1, <1>2, <2>0 DEF StoreQuestion, InsertQuestion, Stores
    <2> HIDE DEF r
    <2>3. clock' \in Nat /\ clock < clock' /\ clock <= clock' /\ r.began = clock'
      BY <1>1, <2>0, <2>1, <2>2
    <2>4. Acts(t) /\ turn'[t] = r
      BY <1>1, <2>1, <2>10, <2>2, <2>3, HandlerActs
    <2>5. QED
      BY <1>1, <2>0, <2>1, <2>10, <2>2, <2>4 DEF StepOf, Asks
  <1>3. CASE ~Open(turn[t].session)
    <2>1. Finish(t, "refused") /\ UNCHANGED <<rows, clock>>
      BY <1>3 DEF StoreQuestion, InsertQuestion
    <2>2. QED
      BY <1>1, <2>1, FinishActs DEF Closed, StepOf, Refuses, Goes, Early
  <1>4. QED
    BY <1>2, <1>3

\* The events of another turn are not touched by an event of this one.
LEMMA SendsApart ==
  ASSUME OrderInv, NEW t \in Turns, NEW e, Yield(t, e)
  PROVE  /\ \A u \in Turns \ {t} : sent'[u] = sent[u]
         /\ rows' = rows => Sends(t, e)
  BY DEF OrderInv, TypeOK, Yield, Sends

\* The answer is stored, of a plain or of a streamed turn.
LEMMA InsertAnswerKind ==
  ASSUME OrderInv, NEW t \in Turns, InFlight(t), StoreReply(t) \/ StoreAnswer(t)
  PROVE  StepOf(t)
  <1>1. clock \in Nat /\ clock <= clock /\ UNCHANGED <<chat, sent, clock>>
    BY DEF OrderInv, TypeOK, StoreReply, StoreAnswer, InsertAnswer
  <1>2. CASE StoreReply(t)
    <2>1. turn[t].pc = "answered"
      BY <1>2 DEF StoreReply, InsertAnswer, At
    <2>2. CASE Open(turn[t].session)
      <3>1. Goto(t, "replying") /\ Stores(t, "assistant", turn[t].began)
        BY <1>2, <2>2 DEF StoreReply, InsertAnswer, Stores
      <3>2. QED
        BY <1>1, <2>1, <3>1, GotoActs DEF Steps, StepOf, Keeps
    <2>3. CASE ~Open(turn[t].session)
      <3>1. Finish(t, "refused") /\ rows' = rows
        BY <1>2, <2>3 DEF StoreReply, InsertAnswer
      <3>2. QED
        BY <1>1, <2>1, <3>1, FinishActs DEF Closed, StepOf, Refuses, Goes
    <2>4. QED
      BY <2>2, <2>3
  <1>3. CASE StoreAnswer(t)
    <2>1. turn[t].pc = "reloaded"
      BY <1>3 DEF StoreAnswer, InsertAnswer, At
    <2>2. CASE Open(turn[t].session)
      <3>1. Goto(t, "stored") /\ Stores(t, "assistant", turn[t].began)
        BY <1>3, <2>2 DEF StoreAnswer, InsertAnswer, Stores
      <3>2. QED
        BY <1>1, <2>1, <3>1, GotoActs DEF Steps, StepOf, Keeps
    <2>3. CASE ~Open(turn[t].session)
      <3>1. Finish(t, "cut") /\ rows' = rows
        BY <1>3, <2>3 DEF StoreAnswer, InsertAnswer
      <3>2. QED
        BY <1>1, <2>1, <3>1, FinishActs DEF Closed, StepOf, Breaks, Goes
    <2>4. QED
      BY <2>2, <2>3
  <1>4. QED
    BY <1>2, <1>3

\* A plain turn has its answer, or fails.
LEMMA QueryKind ==
  ASSUME OrderInv, NEW t \in Turns, InFlight(t), Generate(t) \/ Reply(t)
  PROVE  StepOf(t)
  <1>1. clock \in Nat /\ clock <= clock /\ UNCHANGED <<chat, rows, sent, clock>>
    BY DEF OrderInv, TypeOK, Generate, Reply
  <1>2. CASE Generate(t)
    <2>1. turn[t].pc = "asked" /\ turn[t].kind = "query"
      BY <1>2 DEF Generate, At
    <2>2. CASE Goto(t, "answered")
      BY <1>1, <2>1, <2>2, GotoActs DEF Steps, StepOf, Works, Goes
    <2>3. CASE Finish(t, "refused")
      BY <1>1, <2>1, <2>3, FinishActs DEF Closed, StepOf, Refuses, Goes
    <2>4. QED
      BY <1>2, <2>2, <2>3 DEF Generate
  <1>3. CASE Reply(t)
    BY <1>1, <1>3, FinishActs DEF Reply, At, Closed, StepOf, Reports, Goes
  <1>4. QED
    BY <1>2, <1>3

\* A stream that fails ends in an error event.
LEMMA StreamFailsKind ==
  ASSUME OrderInv, NEW t \in Turns, InFlight(t), StreamFails(t), clock' \in {clock, Now},
         \/ turn[t].pc = "asked" /\ turn[t].kind = "stream"
         \/ turn[t].pc = "streaming"
  PROVE  StepOf(t)
  <1>1. clock' \in Nat /\ clock <= clock'
    BY DEF OrderInv, TypeOK, Now
  <1>2. (\A u \in Turns \ {t} : sent'[u] = sent[u]) /\ Sends(t, "error")
    BY SendsApart DEF StreamFails
  <1>3. Acts(t) /\ turn'[t].pc = "over"
    BY <1>1, <1>2, FinishActs DEF StreamFails, Closed
  <1>4. QED
    BY <1>2, <1>3 DEF StepOf, Errs

\* The first event of a stream, which says what it has retrieved.
LEMMA OpenStreamKind ==
  ASSUME OrderInv, NEW t \in Turns, InFlight(t), OpenStream(t)
  PROVE  StepOf(t)
  <1>1. /\ turn[t] \in Handler /\ turn[t].pc = "asked" /\ turn[t].kind = "stream"
        /\ clock \in Nat /\ clock' = Now
    BY DEF OrderInv, TypeOK, OpenStream, At
  <1>2. CASE StreamFails(t)
    BY <1>1, <1>2, StreamFailsKind
  <1>3. CASE ~StreamFails(t)
    <2>1. PICK next \in Nat : next = clock + 1
      BY <1>1
    <2> DEFINE r == [turn[t] EXCEPT !.pc = "streaming", !.began = next]
    <2>2. /\ r \in Handler /\ r.session = turn[t].session
          /\ r.kind = turn[t].kind /\ r.began = next /\ r.history = turn[t].history
      BY <1>1 DEF Handler, Steps
    <2>3. r.pc = "streaming"
      BY <1>1 DEF Handler
    <2>4. /\ turn' = [turn EXCEPT ![t] = r] /\ UNCHANGED <<chat, rows>>
          /\ Yield(t, "meta")
      BY <1>3, <2>1 DEF OpenStream, Now
    <2> HIDE DEF r
    <2>5. clock' \in Nat /\ clock < clock' /\ clock <= clock' /\ r.began = clock'
      BY <1>1, <2>1, <2>2 DEF Now
    <2>6. (\A u \in Turns \ {t} : sent'[u] = sent[u]) /\ Sends(t, "meta")
      BY <2>4, SendsApart
    <2>7. Acts(t) /\ turn'[t] = r
      BY <2>2, <2>4, <2>5, <2>6, HandlerActs
    <2>8. QED
      BY <1>1, <2>3, <2>6, <2>7 DEF StepOf, Emits
  <1>4. QED
    BY <1>2, <1>3

\* A piece leaves the handler as it is, which is a move to what it holds.
LEMMA NextPieceKind ==
  ASSUME OrderInv, NEW t \in Turns, InFlight(t), NextPiece(t)
  PROVE  StepOf(t)
  <1>1. /\ turn[t] \in Handler /\ turn[t].pc = "streaming"
        /\ clock \in Nat /\ clock <= clock /\ clock' = clock
    BY DEF OrderInv, TypeOK, NextPiece, At
  <1>2. CASE StreamFails(t)
    BY <1>1, <1>2, StreamFailsKind
  <1>3. CASE ~StreamFails(t)
    <2>1. /\ Yield(t, "token") /\ Len(sent[t]) <= MaxPieces /\ UNCHANGED <<chat, rows, turn>>
      BY <1>3 DEF NextPiece
    <2>2. (\A u \in Turns \ {t} : sent'[u] = sent[u]) /\ Sends(t, "token")
      BY <2>1, SendsApart
    <2>3. Acts(t)
      BY <1>1, <2>1, <2>2 DEF Acts, InFlight, OrderInv
    <2>4. QED
      BY <1>1, <2>1, <2>2, <2>3 DEF StepOf, Emits
  <1>4. QED
    BY <1>2, <1>3

\* The end of a stream: the pieces are out, the session is read again, done is
\* sent; or the client leaves.
LEMMA StreamEndKind ==
  ASSUME OrderInv, NEW t \in Turns, InFlight(t),
         EndOfPieces(t) \/ ReloadSession(t) \/ SendDone(t) \/ Disconnect(t)
  PROVE  StepOf(t)
  <1>1. clock \in Nat /\ clock <= clock /\ UNCHANGED <<chat, rows, clock>>
    BY DEF OrderInv, TypeOK, EndOfPieces, ReloadSession, SendDone, Disconnect
  <1>2. CASE EndOfPieces(t)
    BY <1>1, <1>2, GotoActs DEF EndOfPieces, At, Steps, StepOf, Works, Goes
  <1>3. CASE ReloadSession(t)
    <2>1. turn[t].pc = "drained" /\ sent' = sent /\ (Goto(t, "reloaded") \/ Finish(t, "cut"))
      BY <1>3 DEF ReloadSession, At
    <2>2. CASE Goto(t, "reloaded")
      BY <1>1, <2>1, <2>2, GotoActs DEF Steps, StepOf, Works, Goes
    <2>3. CASE Finish(t, "cut")
      BY <1>1, <2>1, <2>3, FinishActs DEF Closed, StepOf, Breaks, Goes
    <2>4. QED
      BY <2>1, <2>2, <2>3
  <1>4. CASE SendDone(t)
    <2>1. (\A u \in Turns \ {t} : sent'[u] = sent[u]) /\ Sends(t, "done")
      BY <1>1, <1>4, SendsApart DEF SendDone
    <2>2. Acts(t) /\ turn'[t].pc = "over"
      BY <1>1, <1>4, <2>1, FinishActs DEF SendDone, Closed
    <2>3. QED
      BY <1>4, <2>1, <2>2 DEF SendDone, At, StepOf, Reports
  <1>5. CASE Disconnect(t)
    BY <1>1, <1>5, FinishActs DEF Disconnect, Closed, StepOf, Breaks, Goes
  <1>6. QED
    BY <1>2, <1>3, <1>4, <1>5

\* Every step of a handler is of one of these kinds.
LEMMA StepOfTurn ==
  ASSUME OrderInv, NEW t \in Turns, TurnStep(t) \/ Disconnect(t)
  PROVE  StepOf(t)
  <1>1. InFlight(t)
    BY OnlyInFlight
  <1>2. QED
    BY <1>1, LoadSessionKind, ReadHistoryKind, RenameKind, StoreQuestionKind, QueryKind,
       InsertAnswerKind, OpenStreamKind, NextPieceKind, StreamEndKind DEF TurnStep

-----------------------------------------------------------------------------
(* TurnInv is inductive *)

\* What turn t has sent, message by message.
LEMMA SentType ==
  ASSUME OrderInv, NEW t \in Turns
  PROVE  sent[t] \in Seq(Event) /\ Len(sent[t]) \in Nat
  BY DEF OrderInv, TypeOK, Event

\* What is heard after an event is sent.
LEMMA HasSentAfter ==
  ASSUME OrderInv, NEW t \in Turns, NEW e \in Event, Sends(t, e)
  PROVE  /\ sent'[t] = Append(sent[t], e)
         /\ Len(sent'[t]) = Len(sent[t]) + 1 /\ sent'[t] # <<>>
         /\ sent'[t][Len(sent[t]) + 1] = e
         /\ \A i \in 1..Len(sent[t]) : sent'[t][i] = sent[t][i]
         /\ \A f : HasSent(t, f)' <=> HasSent(t, f) \/ f = e
  <1>1. sent'[t] = Append(sent[t], e) /\ sent[t] \in Seq(Event) /\ Len(sent[t]) \in Nat
    BY SentType DEF OrderInv, TypeOK, Sends
  <1>2. /\ Len(sent'[t]) = Len(sent[t]) + 1
        /\ sent'[t][Len(sent[t]) + 1] = e
        /\ \A i \in 1..Len(sent[t]) : sent'[t][i] = sent[t][i]
    BY <1>1
  <1>3. sent'[t] # <<>>
    BY <1>1, <1>2
  <1>4. ASSUME NEW f PROVE HasSent(t, f)' <=> HasSent(t, f) \/ f = e
    BY <1>1, <1>2 DEF HasSent
  <1>5. QED
    BY <1>1, <1>2, <1>3, <1>4

\* The other turns, and what they have sent and kept, are as they were.
LEMMA OthersKeep ==
  ASSUME OrderInv, NEW t \in Turns, Acts(t), NEW u \in Turns, u # t
  PROVE  /\ turn'[u] = turn[u] /\ sent'[u] = sent[u]
         /\ \A e : HasSent(u, e)' <=> HasSent(u, e)
  BY DEF Acts, HasSent

\* Sessions stay open, and closed, in a step of a turn.
LEMMA OpenKept ==
  ASSUME NEW t \in Turns, Acts(t)
  PROVE  \A s \in Sessions : Open(s)' <=> Open(s)
  BY DEF Acts, Open

\* KindsFit and EventsFit say something of each turn alone.
TurnFits(t) ==
  /\ turn[t].pc \in {"answered", "replying"} => turn[t].kind = "query"
  /\ turn[t].pc \in Streaming => turn[t].kind = "stream"
  /\ turn[t].pc \notin Streaming \cup {"over", "cut"} => sent[t] = <<>>
  /\ turn[t].kind = "query" => sent[t] = <<>>
  /\ turn[t].pc \in Streaming =>
       /\ sent[t] # <<>>
       /\ \A i \in 1..Len(sent[t]) : sent[t][i] = IF i = 1 THEN "meta" ELSE "token"
  /\ turn[t].pc \in Streaming \ {"streaming"} => Len(sent[t]) > 1
  /\ HasSent(t, "done") \/ Failed(t) => turn[t].pc = "over"

\* All turns fit together as they fit one by one, before a step and after it.
LEMMA AllFit ==
  /\ (KindsFit /\ EventsFit) <=> \A t \in Turns : TurnFits(t)
  /\ (KindsFit' /\ EventsFit') <=> \A t \in Turns : TurnFits(t)'
  BY DEF KindsFit, EventsFit, TurnFits

\* A turn that sends nothing fits its new step.
LEMMA GoesFits ==
  ASSUME TurnInv, NEW t \in Turns, Acts(t),
         Prepares(t) \/ Asks(t) \/ Refuses(t) \/ Works(t) \/ Keeps(t) \/ Breaks(t)
           \/ Goes(t, {"replying"}, {"over"})
  PROVE  TurnFits(t)'
  <1>1. TurnFits(t) /\ turn'[t].kind = turn[t].kind /\ sent' = sent
    BY AllFit DEF TurnInv, Acts, Prepares, Asks, Refuses, Works, Keeps, Breaks, Goes, Stores
  <1>2. HasSent(t, "done")' <=> HasSent(t, "done")
    BY <1>1 DEF HasSent
  <1>3. Failed(t)' <=> Failed(t)
    BY <1>1 DEF Failed, HasSent
  <1>4. HasSent(t, "token") /\ turn[t].pc \in Streaming => Len(sent[t]) > 1
    BY <1>1, SentType DEF HasSent, TurnFits, TurnInv
  <1>5. turn[t].pc \in Steps
    BY DEF Acts, InFlight
  <1>6. turn[t].pc # "over"
    BY <1>5 DEF Steps
  <1>7. CASE Prepares(t) \/ Asks(t) \/ Refuses(t)
    BY <1>1, <1>2, <1>3, <1>5, <1>6, <1>7 DEF Prepares, Asks, Refuses, Goes, Early, Streaming, TurnFits
  <1>8. CASE Works(t)
    BY <1>1, <1>2, <1>3, <1>4, <1>6, <1>8 DEF Works, Goes, Streaming, TurnFits
  <1>9. CASE Keeps(t)
    BY <1>1, <1>2, <1>3, <1>6, <1>9 DEF Keeps, Streaming, TurnFits
  <1>10. CASE Breaks(t) \/ Goes(t, {"replying"}, {"over"})
    BY <1>1, <1>2, <1>3, <1>6, <1>10 DEF Breaks, Goes, Streaming, TurnFits
  <1>11. QED
    BY <1>7, <1>8, <1>9, <1>10

\* So does one that sends an event.
LEMMA SendsFits ==
  ASSUME TurnInv, NEW t \in Turns, Acts(t),
         \/ Emits(t) \/ Errs(t)
         \/ turn[t].pc = "stored" /\ turn'[t].pc = "over" /\ Sends(t, "done")
  PROVE  TurnFits(t)'
  <1>1. TurnFits(t) /\ turn'[t].kind = turn[t].kind /\ OrderInv
    BY AllFit DEF TurnInv, Acts
  <1>2. sent[t] \in Seq(Event) /\ Len(sent[t]) \in Nat
    BY <1>1, SentType
  <1>3. turn[t].pc \in Streaming \cup {"asked"} /\ turn[t].kind = "stream"
    BY <1>1 DEF Emits, Errs, Streaming, TurnFits
  <1>4. CASE Emits(t)
    <2>1. PICK e \in {"meta", "token"} :
            /\ Sends(t, e)
            /\ IF turn[t].pc = "asked" THEN e = "meta" ELSE turn[t].pc = "streaming" /\ e = "token"
      BY <1>4 DEF Emits
    <2>2. /\ Len(sent'[t]) = Len(sent[t]) + 1 /\ sent'[t] # <<>>
          /\ sent'[t][Len(sent[t]) + 1] = e
          /\ \A i \in 1..Len(sent[t]) : sent'[t][i] = sent[t][i]
          /\ \A f : HasSent(t, f)' <=> HasSent(t, f) \/ f = e
      BY <1>1, <2>1, HasSentAfter DEF Event
    <2>3. \A i \in 1..Len(sent'[t]) : sent'[t][i] = IF i = 1 THEN "meta" ELSE "token"
      <3>1. CASE turn[t].pc = "asked"
        BY <1>1, <1>2, <2>1, <2>2, <3>1 DEF TurnFits, Streaming
      <3>2. CASE turn[t].pc = "streaming"
        <4>1. Len(sent[t]) > 0
          BY <1>1, <1>2, <3>2 DEF TurnFits, Streaming
        <4>2. QED
          BY <1>1, <1>2, <2>1, <2>2, <3>2, <4>1 DEF TurnFits, Streaming
      <3>3. QED
        BY <2>1, <3>1, <3>2
    <2>4. ~HasSent(t, "done")' /\ ~Failed(t)'
      BY <1>1, <1>3, <2>2 DEF TurnFits, Failed, Streaming
    <2>5. QED
      BY <1>1, <1>3, <1>4, <2>2, <2>3, <2>4 DEF Emits, TurnFits, Streaming
  <1>5. CASE ~Emits(t)
    BY <1>1, <1>3, <1>5 DEF Errs, TurnFits, Streaming
  <1>6. QED
    BY <1>4, <1>5

\* What a turn's step preserves of the events.
LEMMA FitsKept ==
  ASSUME TurnInv, NEW t \in Turns, StepOf(t)
  PROVE  KindsFit' /\ EventsFit'
  <1>1. TurnFits(t)'
    BY GoesFits, SendsFits DEF StepOf, Reports
  <1>2. ASSUME NEW u \in Turns, u # t PROVE TurnFits(u)'
    <2>1. TurnFits(u)
      BY AllFit DEF TurnInv
    <2>2. /\ turn'[u] = turn[u] /\ sent'[u] = sent[u]
          /\ \A e : HasSent(u, e)' <=> HasSent(u, e)
      BY <1>2, OthersKeep DEF TurnInv, StepOf
    <2>3. QED
      BY <2>1, <2>2 DEF TurnFits, Failed
  <1>3. QED
    BY <1>1, <1>2, AllFit

\* Storing adds one message of the turn to its session.
LEMMA StoresRows ==
  ASSUME OrderInv, NEW t \in Turns, turn[t].session \in Sessions,
         NEW role \in {"user", "assistant"}, NEW at \in Nat, Stores(t, role, at)
  PROVE  \E m \in Message :
           /\ m.turn = t /\ m.role = role /\ m.at = at
           /\ rows'[turn[t].session] = rows[turn[t].session] \cup {m}
           /\ \A s \in Sessions \ {turn[t].session} : rows'[s] = rows[s]
  <1> DEFINE m == [turn |-> t, role |-> role, at |-> at]
  <1>1. m \in Message /\ m.turn = t /\ m.role = role /\ m.at = at
    BY DEF Message
  <1>2. rows' = [rows EXCEPT ![turn[t].session] = @ \cup {m}]
    BY DEF Stores
  <1> HIDE DEF m
  <1>3. QED
    BY <1>1, <1>2 DEF OrderInv, TypeOK

\* The stamp of a message is a number.
LEMMA StampType ==
  ASSUME OrderInv, NEW t \in Turns
  PROVE  turn[t].began \in Nat /\ Own(t) \in Nat /\ clock \in Nat
  BY DEF OrderInv, TypeOK, Handler, Own

\* The message that a step stores, and its stamp.
LEMMA MessageStored ==
  ASSUME OrderInv, NEW t \in Turns, StepOf(t), Asks(t) \/ Keeps(t)
  PROVE  \E m \in Message :
           /\ m.turn = t
           /\ \/ Asks(t) /\ m.role = "user" /\ m.at = Own(t)
              \/ Keeps(t) /\ m.role = "assistant" /\ m.at = turn[t].began
           /\ Open(turn[t].session)
           /\ rows'[turn[t].session] = rows[turn[t].session] \cup {m}
           /\ \A s \in Sessions \ {turn[t].session} : rows'[s] = rows[s]
  <1>1. turn[t].session \in Sessions
    BY DEF StepOf, Acts
  <1>2. CASE Asks(t)
    <2>1. Stores(t, "user", Own(t)) /\ Open(turn[t].session)
      BY <1>2 DEF Asks, Stores
    <2>2. PICK m \in Message :
            /\ m.turn = t /\ m.role = "user" /\ m.at = Own(t)
            /\ rows'[turn[t].session] = rows[turn[t].session] \cup {m}
            /\ \A s \in Sessions \ {turn[t].session} : rows'[s] = rows[s]
      BY <1>1, <2>1, StampType, StoresRows
    <2>3. QED
      BY <1>2, <2>1, <2>2
  <1>3. CASE Keeps(t)
    <2>1. Stores(t, "assistant", turn[t].began) /\ Open(turn[t].session)
      BY <1>3 DEF Keeps, Stores
    <2>2. PICK m \in Message :
            /\ m.turn = t /\ m.role = "assistant" /\ m.at = turn[t].began
            /\ rows'[turn[t].session] = rows[turn[t].session] \cup {m}
            /\ \A s \in Sessions \ {turn[t].session} : rows'[s] = rows[s]
      BY <1>1, <2>1, StampType, StoresRows
    <2>3. QED
      BY <1>3, <2>1, <2>2
  <1>4. QED
    BY <1>2, <1>3

\* What a step of a turn stores is a message of the turn, in its open session,
\* the question from one step and the answer from two others.
LEMMA StepStores ==
  ASSUME OrderInv, NEW t \in Turns, StepOf(t)
  PROVE  \/ rows' = rows /\ ~Asks(t) /\ ~Keeps(t)
         \/ \E m \in Message :
              /\ m.turn = t
              /\ IF m.role = "user" THEN Asks(t) ELSE m.role = "assistant" /\ Keeps(t)
              /\ Open(turn[t].session)
              /\ rows'[turn[t].session] = rows[turn[t].session] \cup {m}
              /\ \A s \in Sessions \ {turn[t].session} : rows'[s] = rows[s]
  <1>1. CASE Asks(t) \/ Keeps(t)
    <2>1. ~(Asks(t) /\ Keeps(t))
      BY DEF Asks, Keeps
    <2>2. QED
      BY <1>1, <2>1, MessageStored
  <1>2. CASE ~Asks(t) /\ ~Keeps(t)
    BY <1>2 DEF StepOf, Prepares, Refuses, Works, Emits, Errs, Reports, Breaks, Goes, Sends
  <1>3. QED
    BY <1>1, <1>2

\* A step stores nothing but messages of its turn in its session.
LEMMA PlacesKept ==
  ASSUME TurnInv, NEW t \in Turns, StepOf(t)
  PROVE  MessagesPlaced' /\ TurnsPlaced'
  <1>1. OrderInv /\ Acts(t) /\ \A s \in Sessions : rows[s] \in SUBSET Message
    BY DEF TurnInv, OrderInv, TypeOK, StepOf
  <1>2. \A u \in Turns : turn'[u].session = turn[u].session
    BY <1>1, OthersKeep DEF Acts
  <1>3. MessagesPlaced'
    <2>1. ASSUME NEW s \in Sessions, NEW m \in rows'[s]
          PROVE  Open(s)' /\ turn'[m.turn].session = s
      <3>1. CASE m \in rows[s]
        <4>1. m.turn \in Turns
          BY <1>1, <3>1 DEF Message
        <4>2. QED
          BY <1>1, <1>2, <3>1, <4>1, OpenKept DEF TurnInv, MessagesPlaced
      <3>2. CASE m \notin rows[s]
        <4>1. s = turn[t].session /\ m.turn = t /\ Open(s)
          BY <1>1, <2>1, <3>2, StepStores
        <4>2. QED
          BY <1>1, <1>2, <4>1, OpenKept
      <3>3. QED
        BY <3>1, <3>2
    <2>2. QED
      BY <2>1 DEF MessagesPlaced
  <1>4. turn[t].session \in Sessions /\ turn[t].pc # "idle" /\ turn'[t].pc # "idle"
    <2>1. turn[t].session \in Sessions /\ turn[t].pc # "idle"
      BY <1>1 DEF Acts, InFlight, Steps
    <2>2. turn'[t].pc # "idle"
      BY DEF StepOf, Prepares, Asks, Refuses, Works, Emits, Errs, Keeps, Reports, Breaks, Goes, Early
    <2>3. QED
      BY <2>1, <2>2
  <1>5. TurnsPlaced'
    BY <1>1, <1>2, <1>4, OthersKeep DEF TurnInv, TurnsPlaced
  <1>6. QED
    BY <1>3, <1>5

\* A step that stores a message goes on to a step that knows of it.
LEMMA OrderOfStoresKept ==
  ASSUME TurnInv, NEW t \in Turns, StepOf(t)
  PROVE  StoredInOrder'
  <1>1. OrderInv /\ Acts(t) /\ TurnFits(t)
    BY AllFit DEF TurnInv, StepOf
  <1>2. ASSUME NEW u \in Turns, u # t, NEW s \in Sessions, NEW m \in rows'[s], m.turn = u
        PROVE  /\ turn'[u].pc \notin Early \cup {"idle"}
               /\ turn'[u].pc \in Unanswered \/ Failed(u)' => m.role = "user"
    <2>1. m \in rows[s]
      BY <1>1, <1>2, StepStores
    <2>2. turn'[u] = turn[u] /\ (Failed(u)' <=> Failed(u))
      BY <1>1, <1>2, OthersKeep DEF Failed
    <2>3. QED
      BY <1>2, <2>1, <2>2 DEF TurnInv, StoredInOrder
  <1>3. turn[t].pc \in Steps /\ turn[t].pc # "over" /\ ~Failed(t)
    <2>1. turn[t].pc \in Steps /\ turn[t].pc # "over"
      BY <1>1 DEF Acts, InFlight, Steps
    <2>2. QED
      BY <1>1, <2>1 DEF TurnFits
  <1>4. Failed(t)' => Errs(t)
    <2>1. CASE sent' = sent
      BY <1>3, <2>1 DEF Failed, HasSent
    <2>2. ASSUME NEW e \in Event, e # "error", Sends(t, e) PROVE ~Failed(t)'
      BY <1>1, <1>3, <2>2, HasSentAfter DEF Failed
    <2>3. QED
      BY <2>1, <2>2 DEF StepOf, Prepares, Asks, Refuses, Works, Emits, Keeps, Reports, Breaks,
        Goes, Stores, Event
  <1>5. \A s \in Sessions : \A m \in rows[s] : m.turn = t =>
          /\ turn[t].pc \notin Early
          /\ turn[t].pc \in Unanswered => m.role = "user"
    BY DEF TurnInv, StoredInOrder
  <1>6. /\ turn'[t].pc # "idle"
        /\ turn'[t].pc \in Early => Prepares(t)
        /\ turn'[t].pc \in Unanswered => ~Keeps(t) /\ turn[t].pc \in Unanswered
        /\ Prepares(t) => turn[t].pc \in Early
        /\ Asks(t) => turn[t].pc \in Early
        /\ Errs(t) => turn[t].pc \in Unanswered /\ ~Keeps(t)
    BY DEF StepOf, Prepares, Asks, Refuses, Works, Emits, Errs, Keeps, Reports, Breaks, Goes,
      Early, Unanswered
  <1>7. ASSUME NEW s \in Sessions, NEW m \in rows'[s], m.turn = t
        PROVE  /\ turn'[t].pc \notin Early \cup {"idle"}
               /\ turn'[t].pc \in Unanswered \/ Failed(t)' => m.role = "user"
    <2>1. CASE m \in rows[s]
      BY <1>4, <1>5, <1>6, <1>7, <2>1
    <2>2. CASE m \notin rows[s]
      <3>1. IF m.role = "user" THEN Asks(t) ELSE Keeps(t)
        BY <1>1, <1>7, <2>2, StepStores
      <3>2. ~Prepares(t)
        BY <3>1 DEF Prepares, Asks, Keeps, Goes, Early
      <3>3. QED
        BY <1>4, <1>6, <3>1, <3>2
    <2>3. QED
      BY <2>1, <2>2
  <1>8. QED
    BY <1>2, <1>7 DEF StoredInOrder

\* The answer of a turn that has succeeded is stored and stays.
LEMMA SuccessStaysKept ==
  ASSUME TurnInv, NEW t \in Turns, StepOf(t)
  PROVE  SuccessKept'
  <1>1. OrderInv /\ Acts(t) /\ TurnFits(t) /\ TurnFits(t)'
    BY AllFit, FitsKept DEF TurnInv, StepOf
  <1>2. \A s \in Sessions : rows[s] \subseteq rows'[s]
    BY <1>1, StepStores
  <1>3. \A u \in Turns : turn'[u].session = turn[u].session
    BY <1>1, OthersKeep DEF Acts
  <1>4. ASSUME NEW u \in Turns, turn[u].session \in Sessions, Answered(u) PROVE Answered(u)'
    BY <1>2, <1>3, <1>4 DEF Answered
  <1>5. ASSUME NEW u \in Turns, u # t, Succeeded(u)' PROVE Succeeded(u)
    BY <1>1, <1>5, OthersKeep DEF Succeeded
  <1>6. ASSUME Succeeded(t)' PROVE Succeeded(t) \/ Keeps(t)
    <2>1. turn[t].pc \in Steps /\ turn[t].pc # "over" /\ ~HasSent(t, "done")
      <3>1. turn[t].pc \in Steps /\ turn[t].pc # "over"
        BY <1>1 DEF Acts, InFlight, Steps
      <3>2. QED
        BY <1>1, <3>1 DEF TurnFits
    <2>2. CASE turn'[t].pc \in {"stored", "replying"}
      BY <2>2 DEF StepOf, Prepares, Asks, Refuses, Works, Emits, Errs, Reports, Breaks, Goes, Early
    <2>3. CASE turn'[t].pc = "over" /\ turn'[t].kind = "query"
      <3>1. ~Errs(t)
        BY <1>1, <2>3 DEF Acts, Errs, TurnFits, Streaming
      <3>2. Reports(t)
        BY <2>3, <3>1 DEF StepOf, Prepares, Asks, Refuses, Works, Emits, Keeps, Breaks, Goes, Early
      <3>3. QED
        BY <3>2 DEF Reports, Goes, Succeeded
    <2>4. CASE HasSent(t, "done")'
      <3>1. turn'[t].pc = "over"
        BY <1>1, <2>4 DEF TurnFits
      <3>2. Reports(t) \/ Errs(t)
        BY <3>1 DEF StepOf, Prepares, Asks, Refuses, Works, Emits, Keeps, Breaks, Goes, Early
      <3>3. ~Errs(t)
        <4>1. ASSUME Sends(t, "error") PROVE FALSE
          BY <1>1, <2>1, <2>4, <4>1, HasSentAfter DEF Event
        <4>2. QED
          BY <4>1 DEF Errs
      <3>4. QED
        BY <3>2, <3>3 DEF Reports, Goes, Succeeded
    <2>5. QED
      BY <1>6, <2>2, <2>3, <2>4 DEF Succeeded
  <1>7. ASSUME Keeps(t) PROVE Answered(t)'
    <2>1. turn[t].session \in Sessions /\ ~Asks(t)
      BY <1>1, <1>7 DEF Acts, Asks, Keeps
    <2>2. PICK m \in Message :
            /\ m.turn = t /\ m.role = "assistant"
            /\ rows'[turn[t].session] = rows[turn[t].session] \cup {m}
      BY <1>1, <1>7, <2>1, StepStores
    <2>3. QED
      BY <1>3, <2>2 DEF Answered
  <1>8. ASSUME NEW u \in Turns, Succeeded(u)'
        PROVE  /\ turn'[u].session \in Sessions /\ chat'[turn'[u].session] # "absent"
               /\ Open(turn[u].session)' => Answered(u)'
    <2>1. turn[u].session \in Sessions /\ chat[turn[u].session] # "absent"
      <3>1. CASE Succeeded(u)
        BY <3>1 DEF TurnInv, SuccessKept
      <3>2. CASE Keeps(t) /\ u = t
        BY <1>1, <3>2 DEF Keeps, Stores, Acts, Open
      <3>3. QED
        BY <1>5, <1>6, <1>8, <3>1, <3>2
    <2>2. /\ turn'[u].session = turn[u].session
          /\ chat'[turn[u].session] # "absent"
          /\ Open(turn[u].session)' => Open(turn[u].session)
      BY <1>1, <1>3, <2>1 DEF Acts, Open
    <2>3. Succeeded(u) /\ Open(turn[u].session) => Answered(u)'
      BY <1>4, <2>1 DEF TurnInv, SuccessKept
    <2>4. QED
      BY <1>5, <1>6, <1>7, <1>8, <2>1, <2>2, <2>3
  <1>9. QED
    BY <1>8 DEF SuccessKept

\* A session request leaves the turns; a new session is empty, a deleted one is
\* emptied.
LEMMA SessionKeepsTurns ==
  ASSUME TurnInv, NEW s \in Sessions, CreateSession(s) \/ DeleteSession(s)
  PROVE  /\ MessagesPlaced' /\ TurnsPlaced' /\ StoredInOrder' /\ SuccessKept'
         /\ KindsFit' /\ EventsFit'
  <1>1. /\ turn' = turn /\ sent' = sent
        /\ \A r \in Sessions \ {s} : rows'[r] = rows[r] /\ chat'[r] = chat[r]
    BY DEF CreateSession, DeleteSession, TurnInv, OrderInv, TypeOK
  <1>2. rows'[s] = {} /\ chat'[s] # "absent"
    <2>1. CASE CreateSession(s)
      <3>1. ~Open(s) /\ chat'[s] # "absent" /\ rows' = rows
        BY <2>1 DEF CreateSession, Open, TurnInv, OrderInv, TypeOK
      <3>2. QED
        BY <3>1 DEF TurnInv, MessagesPlaced
    <2>2. CASE DeleteSession(s)
      BY <2>2 DEF DeleteSession, TurnInv, OrderInv, TypeOK
    <2>3. QED
      BY <2>1, <2>2
  <1>3. MessagesPlaced'
    <2>1. ASSUME NEW r \in Sessions, NEW m \in rows'[r] PROVE Open(r)' /\ turn'[m.turn].session = r
      BY <1>1, <1>2, <2>1 DEF TurnInv, MessagesPlaced, Open
    <2>2. QED
      BY <2>1 DEF MessagesPlaced
  <1>4. TurnsPlaced' /\ KindsFit' /\ EventsFit'
    BY <1>1 DEF TurnInv, TurnsPlaced, KindsFit, EventsFit, HasSent, Failed
  <1>5. StoredInOrder'
    <2>1. \A r \in Sessions : rows'[r] \subseteq rows[r]
      BY <1>1, <1>2
    <2>2. QED
      BY <1>1, <2>1 DEF TurnInv, StoredInOrder, Failed, HasSent
  <1>6. SuccessKept'
    <2>1. ASSUME NEW t \in Turns, Succeeded(t)'
          PROVE  /\ turn'[t].session \in Sessions /\ chat'[turn'[t].session] # "absent"
                 /\ Open(turn[t].session)' => Answered(t)'
      <3>1. Succeeded(t)
        BY <1>1, <2>1 DEF Succeeded, HasSent
      <3>2. /\ turn[t].session \in Sessions /\ chat[turn[t].session] # "absent"
            /\ Open(turn[t].session) => Answered(t)
        BY <3>1 DEF TurnInv, SuccessKept
      <3>3. CASE turn[t].session = s
        <4>1. DeleteSession(s)
          BY <3>2, <3>3 DEF CreateSession
        <4>2. chat'[s] = "deleted"
          BY <4>1 DEF DeleteSession, TurnInv, OrderInv, TypeOK
        <4>3. QED
          BY <1>1, <3>2, <3>3, <4>2 DEF Open
      <3>4. CASE turn[t].session # s
        BY <1>1, <3>2, <3>4 DEF Open, Answered
      <3>5. QED
        BY <3>3, <3>4
    <2>2. QED
      BY <2>1 DEF SuccessKept
  <1>7. QED
    BY <1>3, <1>4, <1>5, <1>6

\* A turn that arrives has stored and sent nothing.
LEMMA ArriveKeepsTurns ==
  ASSUME TurnInv, NEW t \in Turns, NEW s \in Sessions, NEW k \in {"query", "stream"},
         Arrive(t, s, k)
  PROVE  /\ MessagesPlaced' /\ TurnsPlaced' /\ StoredInOrder' /\ SuccessKept'
         /\ KindsFit' /\ EventsFit'
  <1>1. /\ turn[t].pc = "idle" /\ UNCHANGED <<chat, rows, sent>>
        /\ \A u \in Turns \ {t} : turn'[u] = turn[u]
        /\ turn'[t].pc = "arrived" /\ turn'[t].session = s
    BY DEF Arrive, At, TurnInv, OrderInv, TypeOK, Handler
  <1>2. \A r \in Sessions : \A m \in rows[r] : m.turn \in Turns \ {t}
    BY <1>1 DEF TurnInv, StoredInOrder, OrderInv, TypeOK, Message
  <1>3. sent[t] = <<>> /\ ~HasSent(t, "done") /\ ~Failed(t)
    <2>1. sent[t] = <<>>
      BY <1>1 DEF TurnInv, EventsFit, Streaming
    <2>2. ~HasSent(t, "done") /\ ~Failed(t)
      BY <1>1 DEF TurnInv, EventsFit
    <2>3. QED
      BY <2>1, <2>2
  <1>4. \A e : \A u \in Turns : HasSent(u, e)' <=> HasSent(u, e)
    BY <1>1 DEF HasSent
  <1>5. MessagesPlaced'
    BY <1>1, <1>2 DEF TurnInv, MessagesPlaced, Open
  <1>6. TurnsPlaced'
    BY <1>1 DEF TurnInv, TurnsPlaced
  <1>7. StoredInOrder'
    BY <1>1, <1>2, <1>4 DEF TurnInv, StoredInOrder, Failed
  <1>8. SuccessKept'
    <2>1. ASSUME NEW u \in Turns, Succeeded(u)' PROVE u # t /\ Succeeded(u) /\ turn'[u] = turn[u]
      BY <1>1, <1>3, <1>4, <2>1 DEF Succeeded
    <2>2. QED
      BY <1>1, <2>1 DEF TurnInv, SuccessKept, Open, Answered
  <1>9. TurnFits(t)'
    BY <1>1, <1>3, <1>4 DEF TurnFits, Failed, Streaming
  <1>10. ASSUME NEW u \in Turns, u # t PROVE TurnFits(u)'
    BY <1>1, <1>4, <1>10, AllFit DEF TurnInv, TurnFits, Failed
  <1>11. QED
    BY <1>5, <1>6, <1>7, <1>8, <1>9, <1>10, AllFit

\* A crash cuts the turns in flight short.
LEMMA CrashedTurns ==
  ASSUME OrderInv, Crash, NEW t \in Turns
  PROVE  /\ turn'[t].session = turn[t].session /\ turn'[t].kind = turn[t].kind
         /\ ~InFlight(t) => turn'[t] = turn[t]
         /\ InFlight(t) => turn'[t].pc = "cut" /\ turn'[t].history = {}
  <1>1. turn[t] \in Handler
    BY DEF OrderInv, TypeOK
  <1>2. CASE InFlight(t)
    <2> DEFINE r == [turn[t] EXCEPT !.pc = "cut", !.began = NoTransaction,
                                    !.untitled = FALSE, !.history = {}]
    <2>1. r.session = turn[t].session /\ r.kind = turn[t].kind /\ r.history = {}
      BY <1>1 DEF Handler
    <2>2. r.pc = "cut"
      BY <1>1 DEF Handler
    <2>3. turn'[t] = r
      BY <1>2 DEF Crash
    <2> HIDE DEF r
    <2>4. QED
      BY <1>2, <2>1, <2>2, <2>3
  <1>3. CASE ~InFlight(t)
    <2>1. turn'[t] = turn[t]
      BY <1>3 DEF Crash
    <2>2. QED
      BY <1>3, <2>1
  <1>4. QED
    BY <1>2, <1>3

\* A crash closes every stream and takes nothing that was stored.
LEMMA CrashKeepsTurns ==
  ASSUME TurnInv, Crash
  PROVE  /\ MessagesPlaced' /\ TurnsPlaced' /\ StoredInOrder' /\ SuccessKept'
         /\ KindsFit' /\ EventsFit'
  <1>1. UNCHANGED <<chat, rows, sent>> /\ OrderInv
    BY DEF Crash, TurnInv
  <1>2. ASSUME NEW t \in Turns
        PROVE  /\ turn'[t].session = turn[t].session /\ turn'[t].kind = turn[t].kind
               /\ turn'[t].pc = turn[t].pc \/ (InFlight(t) /\ turn'[t].pc = "cut")
               /\ \A e : HasSent(t, e)' <=> HasSent(t, e)
    <2>1. \A e : HasSent(t, e)' <=> HasSent(t, e)
      BY <1>1 DEF HasSent
    <2>2. turn'[t].session = turn[t].session /\ turn'[t].kind = turn[t].kind
      BY <1>1, CrashedTurns
    <2>3. turn'[t].pc = turn[t].pc \/ (InFlight(t) /\ turn'[t].pc = "cut")
      BY <1>1, CrashedTurns
    <2>4. QED
      BY <2>1, <2>2, <2>3
  <1>3. MessagesPlaced'
    BY <1>1, <1>2 DEF TurnInv, MessagesPlaced, OrderInv, TypeOK, Message, Open
  <1>4. TurnsPlaced'
    BY <1>1, <1>2 DEF TurnInv, TurnsPlaced, InFlight, Steps
  <1>5. StoredInOrder'
    BY <1>1, <1>2 DEF TurnInv, StoredInOrder, Failed, Early, Unanswered
  <1>6. SuccessKept'
    <2>1. ASSUME NEW t \in Turns, Succeeded(t)' PROVE Succeeded(t)
      BY <1>2, <2>1 DEF Succeeded
    <2>2. QED
      BY <1>1, <1>2, <2>1 DEF TurnInv, SuccessKept, Open, Answered
  <1>7. ASSUME NEW t \in Turns PROVE TurnFits(t)'
    <2>1. TurnFits(t)
      BY AllFit DEF TurnInv
    <2>2. InFlight(t) => ~HasSent(t, "done") /\ ~Failed(t)
      BY <2>1 DEF InFlight, Steps, TurnFits
    <2>3. CASE turn'[t].pc = turn[t].pc
      BY <1>1, <1>2, <2>1, <2>3 DEF TurnFits, Failed
    <2>4. CASE InFlight(t) /\ turn'[t].pc = "cut"
      BY <1>1, <1>2, <2>1, <2>2, <2>4 DEF TurnFits, Failed, Streaming
    <2>5. QED
      BY <1>2, <2>3, <2>4
  <1>8. QED
    BY <1>3, <1>4, <1>5, <1>6, <1>7, AllFit

\* Nothing has been asked.
LEMMA InitTurns == Init => TurnInv
  <1> SUFFICES ASSUME Init PROVE TurnInv
    OBVIOUS
  <1>1. /\ \A t \in Turns : turn[t].pc = "idle" /\ turn[t].session = NoSession /\ sent[t] = <<>>
        /\ \A s \in Sessions : rows[s] = {}
    BY DEF Init
  <1>2. \A e : \A t \in Turns : ~HasSent(t, e)
    BY <1>1 DEF HasSent
  <1>3. QED
    BY <1>1, <1>2, InitOrder DEF TurnInv, MessagesPlaced, TurnsPlaced, StoredInOrder, SuccessKept,
      Succeeded, Failed, KindsFit, EventsFit, Streaming, Early

\* TurnInv is inductive.
LEMMA NextTurns == TurnInv /\ [Next]_vars => TurnInv'
  <1> SUFFICES ASSUME TurnInv, [Next]_vars PROVE TurnInv'
    OBVIOUS
  <1>1. OrderInv'
    BY OrderStep DEF TurnInv
  <1> DEFINE Rest == /\ MessagesPlaced /\ TurnsPlaced /\ StoredInOrder /\ SuccessKept
                     /\ KindsFit /\ EventsFit
  <1>2. ASSUME NEW s \in Sessions, CreateSession(s) \/ DeleteSession(s) PROVE Rest'
    BY <1>2, SessionKeepsTurns
  <1>3. ASSUME NEW t \in Turns, NEW s \in Sessions, NEW k \in {"query", "stream"},
               Arrive(t, s, k)
        PROVE  Rest'
    BY <1>3, ArriveKeepsTurns
  <1>4. ASSUME NEW t \in Turns, TurnStep(t) \/ Disconnect(t) PROVE Rest'
    <2>1. StepOf(t)
      BY <1>4, StepOfTurn DEF TurnInv
    <2>2. QED
      BY <2>1, PlacesKept, OrderOfStoresKept, SuccessStaysKept, FitsKept
  <1>5. ASSUME Crash PROVE Rest'
    BY <1>5, CrashKeepsTurns
  <1>6. ASSUME UNCHANGED vars PROVE Rest'
    BY <1>6 DEF vars, TurnInv, MessagesPlaced, TurnsPlaced, StoredInOrder, SuccessKept, Succeeded,
      Failed, HasSent, Answered, KindsFit, EventsFit, Open
  <1>7. Rest'
    BY <1>2, <1>3, <1>4, <1>5, <1>6 DEF Next
  <1>8. QED
    BY <1>1, <1>7 DEF TurnInv

\* The invariant, for every behaviour.
LEMMA TurnsAlways == Spec => []TurnInv
  BY InitTurns, NextTurns, PTL DEF Spec

\* A question is answered by the whole of what was streamed or not at all, for
\* any number of turns at once, clients that leave, crashes and deletions
\* (ReportedIsKept).
THEOREM ReportedIsKeptAlways == Spec => []ReportedIsKept
  <1>1. TurnInv => ReportedIsKept
    <2> SUFFICES ASSUME TurnInv, NEW t \in Turns, turn[t].session # NoSession
                 PROVE  LET answered == Answered(t) IN
                          /\ (HasSent(t, "done") \/ (turn[t].kind = "query" /\ At(t, "over")))
                               /\ Open(turn[t].session) => answered
                          /\ HasSent(t, "error") \/ At(t, "refused") => ~answered
      BY DEF ReportedIsKept, Answered
    <2>1. turn[t].session \in Sessions
      BY DEF TurnInv, TurnsPlaced
    <2>2. (HasSent(t, "done") \/ (turn[t].kind = "query" /\ At(t, "over"))) => Succeeded(t)
      BY DEF Succeeded, At
    <2>3. Succeeded(t) /\ Open(turn[t].session) => Answered(t)
      BY DEF TurnInv, SuccessKept
    <2>4. HasSent(t, "error") \/ At(t, "refused") => ~Answered(t)
      BY <2>1 DEF TurnInv, StoredInOrder, Answered, At, Failed, Unanswered
    <2>5. QED
      BY <2>2, <2>3, <2>4
  <1>2. QED
    BY <1>1, TurnsAlways, PTL

-----------------------------------------------------------------------------
(* ChatServer implements the safety of ChatTurns *)

\* What a client sees, as functions.
SessionView == [s \in Sessions |-> IF Open(s) THEN "open" ELSE chat[s]]
OfView == [t \in Turns |-> turn[t].session]
HowView == [t \in Turns |-> turn[t].kind]
KeptView == [t \in Turns |-> KeptOf(t)]
PhaseView == [t \in Turns |-> PhaseOf(t)]
View == <<SessionView, OfView, HowView, KeptView, PhaseView, sent>>

\* What is kept of a turn, in terms of its messages.
Has(t, role) == \E s \in Sessions : \E m \in rows[s] : m.turn = t /\ m.role = role

\* KeptOf says which of its messages a turn has stored.
LEMMA KeptIs ==
  ASSUME NEW t
  PROVE  /\ Has(t, "assistant") => KeptOf(t) = "answer"
         /\ ~Has(t, "assistant") /\ Has(t, "user") => KeptOf(t) = "question"
         /\ ~Has(t, "assistant") /\ ~Has(t, "user") => KeptOf(t) = "nothing"
         /\ Has(t, "assistant")' => KeptOf(t)' = "answer"
         /\ ~Has(t, "assistant")' /\ Has(t, "user")' => KeptOf(t)' = "question"
         /\ ~Has(t, "assistant")' /\ ~Has(t, "user")' => KeptOf(t)' = "nothing"
  <1> DEFINE mine == {m.role : m \in {n \in UNION {rows[s] : s \in Sessions} : n.turn = t}}
  <1>1. \A role : role \in mine <=> Has(t, role)
    BY DEF Has
  <1>2. \A role : role \in mine' <=> Has(t, role)'
    BY DEF Has
  <1>3. KeptOf(t) = IF "assistant" \in mine THEN "answer"
                    ELSE IF "user" \in mine THEN "question" ELSE "nothing"
    BY DEF KeptOf
  <1>4. KeptOf(t)' = IF "assistant" \in mine' THEN "answer"
                     ELSE IF "user" \in mine' THEN "question" ELSE "nothing"
    BY DEF KeptOf
  <1> HIDE DEF mine
  <1>5. QED
    BY <1>1, <1>2, <1>3, <1>4

\* How far a turn is, by its step.
LEMMA PhaseIs ==
  ASSUME NEW t
  PROVE  /\ turn[t].pc \in Closed => PhaseOf(t) = turn[t].pc
         /\ turn[t].pc \in {"stored", "replying"} => PhaseOf(t) = "reporting"
         /\ turn[t].pc \in Steps \ {"stored", "replying"} => PhaseOf(t) = "running"
         /\ turn'[t].pc \in Closed => PhaseOf(t)' = turn'[t].pc
         /\ turn'[t].pc \in {"stored", "replying"} => PhaseOf(t)' = "reporting"
         /\ turn'[t].pc \in Steps \ {"stored", "replying"} => PhaseOf(t)' = "running"
  <1>1. /\ turn[t].pc \in Closed => PhaseOf(t) = turn[t].pc
        /\ turn[t].pc \in {"stored", "replying"} => PhaseOf(t) = "reporting"
        /\ turn[t].pc \in Steps \ {"stored", "replying"} => PhaseOf(t) = "running"
    BY DEF PhaseOf, Closed, Steps
  <1>2. /\ turn'[t].pc \in Closed => PhaseOf(t)' = turn'[t].pc
        /\ turn'[t].pc \in {"stored", "replying"} => PhaseOf(t)' = "reporting"
        /\ turn'[t].pc \in Steps \ {"stored", "replying"} => PhaseOf(t)' = "running"
    BY DEF PhaseOf, Closed, Steps
  <1>3. QED
    BY <1>1, <1>2

\* A step of a turn leaves the sessions and the other turns as clients see them.
LEMMA OthersSeen ==
  ASSUME TurnInv, NEW t \in Turns, StepOf(t)
  PROVE  /\ SessionView' = SessionView /\ OfView' = OfView /\ HowView' = HowView
         /\ KeptView' = [KeptView EXCEPT ![t] = KeptOf(t)']
         /\ PhaseView' = [PhaseView EXCEPT ![t] = PhaseOf(t)']
  <1>1. OrderInv /\ Acts(t)
    BY DEF TurnInv, StepOf
  <1>2. SessionView' = SessionView
    <2>1. \A s \in Sessions : (Open(s)' <=> Open(s)) /\ (~Open(s) => chat'[s] = chat[s])
      BY <1>1, OpenKept DEF Acts
    <2>2. QED
      BY <2>1 DEF SessionView
  <1>3. OfView' = OfView /\ HowView' = HowView
    <2>1. \A u \in Turns : turn'[u].session = turn[u].session /\ turn'[u].kind = turn[u].kind
      BY <1>1, OthersKeep DEF Acts
    <2>2. QED
      BY <2>1 DEF OfView, HowView
  <1>4. ASSUME NEW u \in Turns, u # t PROVE KeptOf(u)' = KeptOf(u)
    <2>1. ASSUME NEW role PROVE Has(u, role)' <=> Has(u, role)
      <3>1. \A s \in Sessions : rows[s] \subseteq rows'[s]
        BY <1>1, StepStores
      <3>2. \A s \in Sessions : \A m \in rows'[s] : m.turn = u => m \in rows[s]
        BY <1>1, <1>4, StepStores
      <3>3. QED
        BY <3>1, <3>2 DEF Has
    <2>2. QED
      BY <2>1, KeptIs
  <1>5. ASSUME NEW u \in Turns, u # t PROVE PhaseOf(u)' = PhaseOf(u)
    BY <1>1, <1>5, OthersKeep DEF PhaseOf
  <1>6. QED
    BY <1>2, <1>3, <1>4, <1>5 DEF KeptView, PhaseView

\* What is kept of a turn under way, by its step.
LEMMA KeptSoFar ==
  ASSUME TurnInv, NEW t \in Turns, turn[t].session \in Sessions
  PROVE  /\ turn[t].pc \in Early => KeptOf(t) = "nothing"
         /\ turn[t].pc \in Asked \cap Unanswered =>
              \/ KeptOf(t) = "question"
              \/ ~Open(turn[t].session) /\ chat[turn[t].session] = "deleted"
  <1>1. CASE turn[t].pc \in Early
    <2>1. \A role : ~Has(t, role)
      BY <1>1 DEF Has, TurnInv, StoredInOrder
    <2>2. QED
      BY <1>1, <2>1, KeptIs DEF Early, Asked
  <1>2. CASE turn[t].pc \in Asked \cap Unanswered
    <2>1. ~Has(t, "assistant")
      BY <1>2 DEF Has, TurnInv, StoredInOrder
    <2>2. CASE Open(turn[t].session)
      <3>1. Has(t, "user")
        BY <1>2, <2>2 DEF Has, TurnInv, OrderInv, QuestionStored
      <3>2. QED
        BY <1>2, <2>1, <3>1, KeptIs DEF Early, Asked
    <2>3. CASE ~Open(turn[t].session)
      BY <1>2, <2>3 DEF TurnInv, OrderInv, TypeOK, Open, Early, Asked
    <2>4. QED
      BY <2>2, <2>3
  <1>3. QED
    BY <1>1, <1>2

\* The step of the client's view that each kind of step is.
LEMMA UnseenStep ==
  ASSUME TurnInv, NEW t \in Turns, StepOf(t), Prepares(t) \/ Works(t)
  PROVE  View' = View
  <1>1. KeptOf(t)' = KeptOf(t)
    <2>1. ~Asks(t) /\ ~Keeps(t)
      BY DEF Prepares, Works, Asks, Keeps, Goes, Early
    <2>2. rows' = rows
      BY <2>1, StepStores DEF TurnInv
    <2>3. QED
      BY <2>2, KeptIs DEF Has
  <1>2. PhaseOf(t)' = PhaseOf(t)
    BY PhaseIs DEF Prepares, Works, Goes, Early, Steps
  <1>3. sent' = sent
    BY DEF Prepares, Works, Goes
  <1>4. KeptView' = KeptView /\ PhaseView' = PhaseView
    BY <1>1, <1>2, OthersSeen DEF KeptView, PhaseView
  <1>5. QED
    BY <1>3, <1>4, OthersSeen DEF View

\* Where a step stores nothing, a turn keeps what it kept.
LEMMA KeptUnchanged ==
  ASSUME TurnInv, NEW t \in Turns, StepOf(t), ~Asks(t), ~Keeps(t)
  PROVE  KeptView' = KeptView
  <1>1. rows' = rows
    BY StepStores DEF TurnInv
  <1>2. KeptOf(t)' = KeptOf(t)
    BY <1>1, KeptIs DEF Has
  <1>3. QED
    BY <1>2, OthersSeen DEF KeptView

\* To store the question is to keep it.
LEMMA AsksIsKeepQuestion ==
  ASSUME TurnInv, NEW t \in Turns, StepOf(t), Asks(t)
  PROVE  ClientView!KeepQuestion(t)
  <1>1. turn[t].session \in Sessions /\ Open(turn[t].session) /\ sent' = sent
    BY DEF StepOf, Acts, Asks, Stores
  <1>2. PhaseOf(t) = "running" /\ PhaseOf(t)' = "running"
    BY PhaseIs DEF Asks, Steps
  <1>3. sent[t] = <<>>
    BY DEF TurnInv, EventsFit, Asks, Streaming
  <1>4. KeptOf(t) = "nothing"
    BY <1>1, KeptSoFar DEF Asks, Early
  <1>5. KeptOf(t)' = "question"
    <2>1. turn'[t].pc \in Unanswered /\ ~Keeps(t)
      BY DEF Asks, Keeps, Unanswered
    <2>2. StoredInOrder'
      BY OrderOfStoresKept
    <2>3. ~Has(t, "assistant")'
      BY <2>1, <2>2 DEF Has, StoredInOrder
    <2>4. Has(t, "user")'
      <3>1. PICK m \in Message :
              /\ m.turn = t /\ m.role = "user"
              /\ rows'[turn[t].session] = rows[turn[t].session] \cup {m}
        BY <2>1, StepStores DEF TurnInv
      <3>2. QED
        BY <1>1, <3>1 DEF Has
    <2>5. QED
      BY <2>3, <2>4, KeptIs
  <1>6. KeptView' = [KeptView EXCEPT ![t] = "question"] /\ PhaseView' = PhaseView
    BY <1>2, <1>5, OthersSeen DEF PhaseView
  <1>7. SessionView[turn[t].session] = "open"
    BY <1>1 DEF SessionView
  <1>8. QED
    BY <1>1, <1>2, <1>3, <1>4, <1>6, <1>7, OthersSeen
       DEF ClientView!KeepQuestion, ClientView!Begun, SessionView, OfView, HowView, KeptView, PhaseView

\* A refusal is a refusal, with or without a question kept.
LEMMA RefusesIsRefuse ==
  ASSUME TurnInv, NEW t \in Turns, StepOf(t), Refuses(t)
  PROVE  ClientView!Refuse(t)
  <1>1. sent' = sent
    BY DEF Refuses, Goes
  <1>2. PhaseOf(t) = "running" /\ PhaseOf(t)' = "refused"
    BY PhaseIs DEF Refuses, Goes, Early, Steps, Closed
  <1>3. sent[t] = <<>>
    BY DEF TurnInv, EventsFit, Refuses, Goes, Early, Streaming
  <1>4. KeptView' = KeptView
    BY KeptUnchanged DEF Refuses, Asks, Keeps, Goes
  <1>5. PhaseView' = [PhaseView EXCEPT ![t] = "refused"]
    BY <1>2, OthersSeen
  <1>6. QED
    BY <1>1, <1>2, <1>3, <1>4, <1>5, OthersSeen
       DEF ClientView!Refuse, ClientView!Begun, SessionView, OfView, HowView, KeptView, PhaseView

\* The question of a turn that is answered is kept, or went with its session.
LEMMA Answerable ==
  ASSUME TurnInv, NEW t \in Turns, turn[t].session \in Sessions,
         turn[t].pc \in Asked \cap Unanswered
  PROVE  ClientView!Answerable(t)
  BY KeptSoFar DEF ClientView!Answerable

\* To yield an event is to send it.
LEMMA EmitsIsSend ==
  ASSUME TurnInv, NEW t \in Turns, StepOf(t), Emits(t)
  PROVE  ClientView!SendMeta(t) \/ ClientView!SendToken(t)
  <1>1. turn[t].session \in Sessions
    BY DEF StepOf, Acts
  <1>2. PhaseOf(t) = "running" /\ PhaseOf(t)' = "running"
    BY PhaseIs DEF Emits, Steps
  <1>3. KeptView' = KeptView
    BY KeptUnchanged DEF Emits, Asks, Keeps
  <1>4. PhaseView' = PhaseView
    BY <1>2, OthersSeen DEF PhaseView
  <1>5. CASE turn[t].pc = "asked"
    <2>1. turn[t].kind = "stream" /\ sent' = [sent EXCEPT ![t] = Append(@, "meta")]
      BY <1>5 DEF Emits, Sends
    <2>2. sent[t] = <<>>
      BY <1>5 DEF TurnInv, EventsFit, Streaming
    <2>3. ClientView!Answerable(t)
      BY <1>1, <1>5, Answerable DEF Asked, Unanswered
    <2>4. ClientView!SendMeta(t)
      BY <1>2, <1>3, <1>4, <2>1, <2>2, <2>3, OthersSeen
         DEF ClientView!SendMeta, ClientView!Begun, ClientView!Send, SessionView, OfView, HowView,
             KeptView, PhaseView
    <2>5. QED
      BY <2>4
  <1>6. CASE turn[t].pc # "asked"
    <2>1. /\ turn[t].pc = "streaming" /\ Len(sent[t]) <= MaxPieces
          /\ sent' = [sent EXCEPT ![t] = Append(@, "token")]
      BY <1>6 DEF Emits, Sends
    <2>2. sent[t] # <<>>
      BY <2>1 DEF TurnInv, EventsFit, Streaming
    <2>3. ClientView!SendToken(t)
      BY <1>2, <1>3, <1>4, <2>1, <2>2, OthersSeen
         DEF ClientView!SendToken, ClientView!Begun, ClientView!Send, SessionView, OfView, HowView,
             KeptView, PhaseView
    <2>4. QED
      BY <2>3
  <1>7. QED
    BY <1>5, <1>6

\* To yield an error is to send it, of a turn whose answer is not kept.
LEMMA ErrsIsSendError ==
  ASSUME TurnInv, NEW t \in Turns, StepOf(t), Errs(t)
  PROVE  ClientView!SendError(t)
  <1>1. turn[t].session \in Sessions /\ turn[t].pc \in Asked \cap Unanswered
    BY DEF StepOf, Acts, Errs, Asked, Unanswered
  <1>2. PhaseOf(t) = "running" /\ PhaseOf(t)' = "over"
    BY PhaseIs DEF Errs, Steps, Closed
  <1>3. KeptView' = KeptView
    BY KeptUnchanged DEF Errs, Asks, Keeps
  <1>4. PhaseView' = [PhaseView EXCEPT ![t] = "over"]
    BY <1>2, OthersSeen
  <1>5. turn[t].kind = "stream" /\ sent' = [sent EXCEPT ![t] = Append(@, "error")]
    BY DEF Errs, Sends, TurnInv, KindsFit, Streaming
  <1>6. ClientView!Answerable(t)
    BY <1>1, Answerable
  <1>7. QED
    BY <1>2, <1>3, <1>4, <1>5, <1>6, OthersSeen
       DEF ClientView!SendError, ClientView!Send, SessionView, OfView, HowView, KeptView, PhaseView

\* To store the answer is to keep it.
LEMMA KeepsIsKeepAnswer ==
  ASSUME TurnInv, NEW t \in Turns, StepOf(t), Keeps(t)
  PROVE  ClientView!KeepAnswer(t)
  <1>1. /\ turn[t].session \in Sessions /\ Open(turn[t].session) /\ sent' = sent
        /\ turn[t].pc \in Asked \cap Unanswered
    BY DEF StepOf, Acts, Keeps, Stores, Asked, Unanswered
  <1>2. PhaseOf(t) = "running" /\ PhaseOf(t)' = "reporting"
    BY PhaseIs DEF Keeps, Steps
  <1>3. KeptOf(t) = "question"
    BY <1>1, KeptSoFar DEF Early, Asked
  <1>4. KeptOf(t)' = "answer"
    <2>1. PICK m \in Message :
            /\ m.turn = t /\ m.role = "assistant"
            /\ rows'[turn[t].session] = rows[turn[t].session] \cup {m}
      <3>1. ~Asks(t)
        BY DEF Asks, Keeps
      <3>2. QED
        BY <3>1, StepStores DEF TurnInv
    <2>2. Has(t, "assistant")'
      BY <1>1, <2>1 DEF Has
    <2>3. QED
      BY <2>2, KeptIs
  <1>5. /\ KeptView' = [KeptView EXCEPT ![t] = "answer"]
        /\ PhaseView' = [PhaseView EXCEPT ![t] = "reporting"]
    BY <1>2, <1>4, OthersSeen
  <1>6. turn[t].kind = "stream" => sent[t] # <<>> /\ sent[t][Len(sent[t])] = "token"
    <2>1. turn[t].kind = "stream" => turn[t].pc = "reloaded"
      BY DEF Keeps, TurnInv, KindsFit
    <2>2. turn[t].pc = "reloaded" =>
            /\ sent[t] # <<>> /\ Len(sent[t]) > 1
            /\ \A i \in 1..Len(sent[t]) : sent[t][i] = IF i = 1 THEN "meta" ELSE "token"
      BY DEF TurnInv, EventsFit, Streaming
    <2>3. Len(sent[t]) \in Nat
      BY SentType DEF TurnInv
    <2>4. QED
      BY <2>1, <2>2, <2>3
  <1>7. QED
    BY <1>1, <1>2, <1>3, <1>5, <1>6, OthersSeen
       DEF ClientView!KeepAnswer, ClientView!Begun, ClientView!Last, SessionView, OfView, HowView,
           KeptView, PhaseView

\* To reply, or to yield done, is to report what is kept.
LEMMA ReportsIsReport ==
  ASSUME TurnInv, NEW t \in Turns, StepOf(t), Reports(t)
  PROVE  ClientView!Report(t)
  <1>1. PhaseOf(t) = "reporting" /\ PhaseOf(t)' = "over"
    BY PhaseIs DEF Reports, Goes, Closed
  <1>2. KeptView' = KeptView
    BY KeptUnchanged DEF Reports, Goes, Asks, Keeps
  <1>3. PhaseView' = [PhaseView EXCEPT ![t] = "over"]
    BY <1>1, OthersSeen
  <1>4. IF turn[t].kind = "stream" THEN sent' = [sent EXCEPT ![t] = Append(@, "done")]
        ELSE sent' = sent
    BY DEF Reports, Goes, Sends, TurnInv, KindsFit, Streaming
  <1>5. QED
    BY <1>1, <1>2, <1>3, <1>4, OthersSeen
       DEF ClientView!Report, ClientView!Send, SessionView, OfView, HowView, KeptView, PhaseView

\* A client that leaves breaks its own turn.
LEMMA BreaksIsBreak ==
  ASSUME TurnInv, NEW t \in Turns, StepOf(t), Breaks(t)
  PROVE  ClientView!Break({t})
  <1>1. PhaseOf(t) \in {"running", "reporting"} /\ PhaseOf(t)' = "cut"
    BY PhaseIs DEF Breaks, Goes, Steps, Closed
  <1>2. KeptView' = KeptView /\ sent' = sent
    BY KeptUnchanged DEF Breaks, Goes, Asks, Keeps
  <1>3. PhaseView' = [u \in Turns |-> IF u \in {t} THEN "cut" ELSE PhaseView[u]]
    BY <1>1, OthersSeen DEF PhaseView
  <1>4. QED
    BY <1>1, <1>2, <1>3, OthersSeen
       DEF ClientView!Break, ClientView!Running, SessionView, OfView, HowView, KeptView, PhaseView

\* Sessions open and close as the client asks.
LEMMA SessionsSeen ==
  ASSUME TurnInv, NEW s \in Sessions, CreateSession(s) \/ DeleteSession(s)
  PROVE  ClientView!OpenSession(s) \/ ClientView!CloseSession(s)
  <1>1. turn' = turn /\ sent' = sent
    BY DEF CreateSession, DeleteSession
  <1>2. OfView' = OfView /\ HowView' = HowView /\ PhaseView' = PhaseView
    BY <1>1 DEF OfView, HowView, PhaseView, PhaseOf
  <1>3. CASE CreateSession(s)
    <2>1. /\ chat[s] = "absent" /\ chat'[s] \in {"untitled", "titled"} /\ rows' = rows
          /\ \A r \in Sessions \ {s} : chat'[r] = chat[r]
      BY <1>3 DEF CreateSession, TurnInv, OrderInv, TypeOK
    <2>2. SessionView[s] = "absent" /\ SessionView' = [SessionView EXCEPT ![s] = "open"]
      BY <2>1 DEF SessionView, Open
    <2>3. KeptView' = KeptView
      BY <2>1 DEF KeptView, KeptOf
    <2>4. ClientView!OpenSession(s)
      BY <1>1, <1>2, <2>2, <2>3
         DEF ClientView!OpenSession, SessionView, OfView, HowView, KeptView, PhaseView
    <2>5. QED
      BY <2>4
  <1>4. CASE DeleteSession(s)
    <2>1. /\ Open(s) /\ chat'[s] = "deleted" /\ rows'[s] = {}
          /\ \A r \in Sessions \ {s} : chat'[r] = chat[r] /\ rows'[r] = rows[r]
      BY <1>4 DEF DeleteSession, TurnInv, OrderInv, TypeOK
    <2>2. SessionView[s] = "open" /\ SessionView' = [SessionView EXCEPT ![s] = "deleted"]
      BY <2>1 DEF SessionView, Open
    <2>3. ASSUME NEW t \in Turns, turn[t].session = s PROVE KeptOf(t)' = "nothing"
      <3>1. \A role : ~Has(t, role)'
        BY <1>1, <2>1, <2>3 DEF Has, TurnInv, MessagesPlaced
      <3>2. QED
        BY <3>1, KeptIs
    <2>4. ASSUME NEW t \in Turns, turn[t].session # s PROVE KeptOf(t)' = KeptOf(t)
      <3>1. ASSUME NEW role PROVE Has(t, role)' <=> Has(t, role)
        BY <1>1, <2>1, <2>4 DEF Has, TurnInv, MessagesPlaced
      <3>2. QED
        BY <3>1, KeptIs
    <2>5. KeptView' = [t \in Turns |-> IF OfView[t] = s THEN "nothing" ELSE KeptView[t]]
      BY <2>3, <2>4 DEF KeptView, OfView
    <2>6. ClientView!CloseSession(s)
      BY <1>1, <1>2, <2>2, <2>5
         DEF ClientView!CloseSession, SessionView, OfView, HowView, KeptView, PhaseView
    <2>7. QED
      BY <2>6
  <1>5. QED
    BY <1>3, <1>4

\* A request that arrives is a turn that is asked.
LEMMA ArriveIsAsk ==
  ASSUME TurnInv, NEW t \in Turns, NEW s \in Sessions, NEW k \in {"query", "stream"},
         Arrive(t, s, k)
  PROVE  ClientView!Ask(t, s, k)
  <1>1. /\ turn[t].pc = "idle" /\ UNCHANGED <<chat, rows, sent>>
        /\ \A u \in Turns \ {t} : turn'[u] = turn[u]
        /\ turn'[t].pc = "arrived" /\ turn'[t].session = s /\ turn'[t].kind = k
    BY DEF Arrive, At, TurnInv, OrderInv, TypeOK, Handler
  <1>2. PhaseOf(t) = "idle" /\ PhaseOf(t)' = "running"
    BY <1>1, PhaseIs DEF Closed, Steps
  <1>3. \A u \in Turns \ {t} : PhaseOf(u)' = PhaseOf(u)
    BY <1>1 DEF PhaseOf
  <1>4. SessionView' = SessionView /\ KeptView' = KeptView
    BY <1>1 DEF SessionView, Open, KeptView, KeptOf
  <1>5. /\ OfView' = [OfView EXCEPT ![t] = s] /\ HowView' = [HowView EXCEPT ![t] = k]
        /\ PhaseView' = [PhaseView EXCEPT ![t] = "running"]
    BY <1>1, <1>2, <1>3 DEF OfView, HowView, PhaseView
  <1>6. QED
    BY <1>1, <1>2, <1>4, <1>5
       DEF ClientView!Ask, SessionView, OfView, HowView, KeptView, PhaseView

\* A crash breaks every turn that is open.
LEMMA CrashIsBreak ==
  ASSUME TurnInv, Crash
  PROVE  \E T \in SUBSET Turns : ClientView!Break(T)
  <1> DEFINE T == {t \in Turns : InFlight(t)}
  <1>1. T # {} /\ UNCHANGED <<chat, rows, sent>>
    BY DEF Crash
  <1>2. ASSUME NEW t \in Turns
        PROVE  /\ turn'[t].session = turn[t].session /\ turn'[t].kind = turn[t].kind
               /\ ~InFlight(t) => turn'[t] = turn[t]
               /\ InFlight(t) => turn'[t].pc = "cut"
    BY CrashedTurns DEF TurnInv
  <1>3. \A t \in T : PhaseOf(t) \in {"running", "reporting"}
    BY PhaseIs DEF InFlight
  <1>4. ASSUME NEW t \in Turns
        PROVE  PhaseOf(t)' = IF t \in T THEN "cut" ELSE PhaseOf(t)
    <2>1. CASE t \in T
      BY <1>2, <2>1, PhaseIs DEF Closed
    <2>2. CASE t \notin T
      BY <1>2, <2>2 DEF PhaseOf
    <2>3. QED
      BY <2>1, <2>2
  <1>5. T \in SUBSET Turns
    OBVIOUS
  <1> HIDE DEF T
  <1>6. PhaseView' = [t \in Turns |-> IF t \in T THEN "cut" ELSE PhaseView[t]]
    BY <1>4 DEF PhaseView
  <1>7. SessionView' = SessionView /\ KeptView' = KeptView
    BY <1>1 DEF SessionView, Open, KeptView, KeptOf
  <1>8. OfView' = OfView /\ HowView' = HowView
    BY <1>2 DEF OfView, HowView
  <1>9. ClientView!Break(T)
    BY <1>1, <1>3, <1>5, <1>6, <1>7, <1>8
       DEF ClientView!Break, ClientView!Running, SessionView, OfView, HowView, KeptView, PhaseView
  <1>10. QED
    BY <1>5, <1>9

\* Every step of the server is a step of the client's view, or is not seen.
LEMMA NextSeen == TurnInv /\ [Next]_vars => [ClientView!TurnNext]_View
  <1> SUFFICES ASSUME TurnInv, [Next]_vars PROVE [ClientView!TurnNext]_View
    OBVIOUS
  <1>1. ASSUME NEW s \in Sessions, CreateSession(s) \/ DeleteSession(s)
        PROVE  ClientView!TurnNext
    BY <1>1, SessionsSeen DEF ClientView!TurnNext
  <1>2. ASSUME NEW t \in Turns, NEW s \in Sessions, NEW k \in {"query", "stream"},
               Arrive(t, s, k)
        PROVE  ClientView!TurnNext
    BY <1>2, ArriveIsAsk DEF ClientView!TurnNext
  <1>3. ASSUME NEW t \in Turns, TurnStep(t) \/ Disconnect(t) PROVE [ClientView!TurnNext]_View
    <2>1. StepOf(t)
      BY <1>3, StepOfTurn DEF TurnInv
    <2>2. CASE Prepares(t) \/ Works(t)
      BY <2>1, <2>2, UnseenStep
    <2>3. CASE Breaks(t)
      <3>1. ClientView!Break({t})
        BY <2>1, <2>3, BreaksIsBreak
      <3>2. {t} \in SUBSET Turns
        OBVIOUS
      <3>3. QED
        BY <3>1, <3>2 DEF ClientView!TurnNext
    <2>4. CASE \/ Asks(t) \/ Refuses(t) \/ Emits(t) \/ Errs(t) \/ Keeps(t) \/ Reports(t)
      <3>1. ClientView!Serve(t)
        BY <2>1, <2>4, AsksIsKeepQuestion, RefusesIsRefuse, EmitsIsSend, ErrsIsSendError,
           KeepsIsKeepAnswer, ReportsIsReport DEF ClientView!Serve
      <3>2. QED
        BY <3>1 DEF ClientView!TurnNext
    <2>5. QED
      BY <2>1, <2>2, <2>3, <2>4 DEF StepOf
  <1>4. CASE Crash
    BY <1>4, CrashIsBreak DEF ClientView!TurnNext
  <1>5. CASE UNCHANGED vars
    BY <1>5 DEF vars, View, SessionView, OfView, HowView, KeptView, PhaseView, Open, KeptOf, PhaseOf
  <1>6. QED
    BY <1>1, <1>2, <1>3, <1>4, <1>5 DEF Next

\* At first no session is open and nobody has asked.
LEMMA InitSeen == Init => ClientView!TurnInit
  <1> SUFFICES ASSUME Init PROVE ClientView!TurnInit
    OBVIOUS
  <1>1. /\ chat = [s \in Sessions |-> "absent"] /\ rows = [s \in Sessions |-> {}]
        /\ sent = [t \in Turns |-> <<>>]
        /\ \A t \in Turns : /\ turn[t].pc = "idle" /\ turn[t].session = NoSession
                            /\ turn[t].kind = "query"
    BY DEF Init
  <1>2. \A t \in Turns : KeptOf(t) = "nothing"
    BY <1>1, KeptIs DEF Has
  <1>3. \A t \in Turns : PhaseOf(t) = "idle"
    BY <1>1, PhaseIs DEF Closed
  <1>4. \A s \in Sessions : (IF Open(s) THEN "open" ELSE chat[s]) = "absent"
    BY <1>1 DEF Open
  <1>5. QED
    BY <1>1, <1>2, <1>3, <1>4 DEF ClientView!TurnInit

\* The server keeps the promises of ChatTurns, but for the end of every turn
\* (ImplementsTurns adds that): the order of the events, kept before reported,
\* no error after keeping.
THEOREM KeepsPromises == Spec => ClientView!Safety
  <1>1. [ClientView!TurnNext]_View => [ClientView!TurnNext]_(ClientView!turnVars)
    BY DEF View, ClientView!turnVars, SessionView, OfView, HowView, KeptView, PhaseView
  <1>2. QED
    BY <1>1, InitSeen, NextSeen, TurnsAlways, PTL DEF Spec, ClientView!Safety

-----------------------------------------------------------------------------
(* A window on the history is full before anything is left out *)

\* Of finitely many messages with stamps of their own, the window that holds
\* those with fewer than n later ones has n of them if it leaves one out.
LEMMA FullWindow ==
  ASSUME NEW M \in SUBSET Message, IsFiniteSet(M),
         \A k, m \in M : k.at = m.at => k = m,
         NEW n \in Nat \ {0}, NEW left \in M, ~(Cardinality(Later(M, left)) < n)
  PROVE  Cardinality({m \in M : Cardinality(Later(M, m)) < n}) = n
  <1> DEFINE R == {m \in M : Cardinality(Later(M, m)) < n}
             UpTo(m) == {k \in R : k.at <= m.at}
  <1>0. \A m \in M : m.at \in Nat
    BY DEF Message
  <1>1. \A m \in M : /\ Later(M, m) \in SUBSET M /\ IsFiniteSet(Later(M, m))
                     /\ Cardinality(Later(M, m)) \in Nat
    BY FS_Subset, FS_CardinalityType DEF Later
  <1>2. R \in SUBSET M /\ IsFiniteSet(R) /\ Cardinality(R) \in Nat
    BY FS_Subset, FS_CardinalityType
  <1>20. \A m \in M : m \in R <=> Cardinality(Later(M, m)) < n
    OBVIOUS
  <1>21. left \in M \ R
    BY <1>20
  <1> HIDE DEF R
  <1>3. PICK x \in M \ R : \A y \in M \ R :
          ~(Later(M, y) \subseteq Later(M, x) /\ Later(M, y) # Later(M, x))
    <2> DEFINE T == {Later(M, y) : y \in M \ R}
    <2>1. T # {} /\ T \subseteq FiniteSubsetsOf(M)
      BY <1>1, <1>21 DEF FiniteSubsetsOf
    <2> HIDE DEF T
    <2>2. PICK low \in T : \A y \in T : ~(<<y, low>> \in StrictSubsetOrdering(M))
      BY <2>1, FS_StrictSubsetOrderingWellFounded, WFMin
    <2>3. \A y \in T : ~(y \subseteq low /\ y # low)
      BY <2>1, <2>2 DEF StrictSubsetOrdering, FiniteSubsetsOf
    <2>4. PICK z \in M \ R : low = Later(M, z)
      BY DEF T
    <2>5. \A y \in M \ R : Later(M, y) \in T
      BY DEF T
    <2>6. QED
      BY <2>3, <2>4, <2>5
  <1>4. Later(M, x) = R
    <2>1. ASSUME NEW y \in Later(M, x) PROVE y \in R
      <3>1. x \in M /\ y \in M /\ y.at > x.at /\ y.at \in Nat /\ x.at \in Nat
        BY <1>0, <2>1 DEF Later
      <3>2. Later(M, y) \subseteq Later(M, x) /\ y \notin Later(M, y)
        BY <1>0, <3>1 DEF Later
      <3>3. QED
        BY <1>3, <2>1, <3>1, <3>2
    <2>2. ASSUME NEW y \in R PROVE y \in Later(M, x)
      <3>1. y \in M /\ y # x /\ y.at # x.at /\ y.at \in Nat /\ x.at \in Nat
        BY <1>0, <1>2, <2>2
      <3>2. ASSUME y.at < x.at PROVE FALSE
        <4>1. Later(M, x) \in SUBSET Later(M, y)
          BY <1>0, <3>1, <3>2 DEF Later
        <4>2. Cardinality(Later(M, x)) <= Cardinality(Later(M, y))
          BY <1>1, <3>1, <4>1, FS_Subset
        <4>3. Cardinality(Later(M, y)) < n /\ ~(Cardinality(Later(M, x)) < n)
          BY <1>2, <1>20, <2>2
        <4>4. QED
          BY <1>1, <3>1, <4>2, <4>3
      <3>3. QED
        BY <3>1, <3>2 DEF Later
    <2>3. QED
      BY <2>1, <2>2
  <1>5. Cardinality(R) >= n
    BY <1>1, <1>2, <1>4, <1>20
  <1>6. PICK y \in R : \A z \in R : ~(UpTo(z) \subseteq UpTo(y) /\ UpTo(z) # UpTo(y))
    <2> DEFINE T == {UpTo(z) : z \in R}
    <2>1. R # {}
      BY <1>2, <1>5, FS_EmptySet
    <2>2. \A z \in R : UpTo(z) \in SUBSET R
      OBVIOUS
    <2>3. \A z \in R : UpTo(z) \in FiniteSubsetsOf(R)
      BY <1>2, <2>2, FS_Subset DEF FiniteSubsetsOf
    <2>4. T # {} /\ T \subseteq FiniteSubsetsOf(R)
      <3> HIDE DEF UpTo
      <3>1. QED
        BY <2>1, <2>3
    <2> HIDE DEF T
    <2>5. PICK low \in T : \A z \in T : ~(<<z, low>> \in StrictSubsetOrdering(R))
      BY <2>4, FS_StrictSubsetOrderingWellFounded, WFMin
    <2>6. \A z \in T : ~(z \subseteq low /\ z # low)
      BY <2>4, <2>5 DEF StrictSubsetOrdering, FiniteSubsetsOf
    <2>7. PICK z \in R : low = UpTo(z)
      BY DEF T
    <2>8. \A y \in R : UpTo(y) \in T
      BY DEF T
    <2> HIDE DEF UpTo
    <2>9. QED
      BY <2>6, <2>7, <2>8
  <1>7. R \ {y} \in SUBSET Later(M, y)
    <2>1. ASSUME NEW z \in R, z # y PROVE z \in Later(M, y)
      <3>1. z \in M /\ y \in M /\ z.at # y.at /\ z.at \in Nat /\ y.at \in Nat
        BY <1>0, <1>2, <2>1
      <3>2. ASSUME z.at < y.at PROVE FALSE
        <4>1. UpTo(z) \subseteq UpTo(y) /\ y \in UpTo(y) /\ y \notin UpTo(z)
          BY <1>0, <1>2, <3>1, <3>2
        <4>2. QED
          BY <1>6, <4>1
      <3>3. QED
        BY <3>1, <3>2 DEF Later
    <2>2. QED
      BY <2>1
  <1>8. Cardinality(R) - 1 <= Cardinality(Later(M, y)) /\ Cardinality(Later(M, y)) < n
    <2>1. Cardinality(R \ {y}) = Cardinality(R) - 1
      BY <1>2, FS_RemoveElement
    <2>2. y \in M
      BY <1>2
    <2>3. Cardinality(R \ {y}) <= Cardinality(Later(M, y))
      BY <1>1, <1>7, <2>2, FS_Subset
    <2>4. QED
      BY <1>20, <2>1, <2>2, <2>3
  <1>9. y \in M
    BY <1>2
  <1>10. Cardinality(R) = n
    BY <1>1, <1>2, <1>5, <1>8, <1>9
  <1>11. QED
    BY <1>10 DEF R

-----------------------------------------------------------------------------
(* HistoryInv is inductive *)

\* The stamps of what is stored and may be stored, turn by turn.
LEMMA StampFacts ==
  ASSUME HistoryInv
  PROVE  /\ clock \in Nat
         /\ \A u \in Turns : turn[u].began \in Nat /\ turn[u].began <= clock
         /\ \A s \in Sessions : \A m \in rows[s] : m.at \in Nat /\ m.at <= clock
  BY DEF HistoryInv, TurnInv, OrderInv, StampsApart, TypeOK, Handler, Message

\* A turn that may store a message could do so before its step.
LEMMA StoringKinds ==
  ASSUME NEW t \in Turns, StepOf(t), turn'[t].pc \in Storing
  PROVE  turn[t].pc \in Storing /\ ~Keeps(t)
  BY DEF StepOf, Prepares, Asks, Refuses, Works, Emits, Errs, Keeps, Reports, Breaks, Goes,
    Storing, Early

\* The stamp of a message is that of no other, then or later.
LEMMA NewStamp ==
  ASSUME HistoryInv, NEW t \in Turns, StepOf(t), NEW m \in Message,
         \/ Asks(t) /\ m.at = Own(t)
         \/ Keeps(t) /\ m.at = turn[t].began
  PROVE  /\ m.at <= clock'
         /\ \A s \in Sessions : \A k \in rows[s] : k.at # m.at
         /\ \A u \in Turns \ {t} : Stamped(u) => turn[u].began # m.at
         /\ Asks(t) => m.at < clock'
  <1>1. CASE m.at = turn[t].began /\ turn[t].began # NoTransaction /\ turn[t].pc \in Storing
    <2>1. Stamped(t)
      BY <1>1 DEF Stamped
    <2>2. /\ \A s \in Sessions : \A k \in rows[s] : k.at # m.at
          /\ \A u \in Turns \ {t} : Stamped(u) => turn[u].began # m.at
      BY <1>1, <2>1 DEF HistoryInv, StampsApart
    <2>3. m.at <= clock' /\ (Asks(t) => m.at < clock')
      BY <1>1, StampFacts DEF StepOf, Acts, Asks
    <2>4. QED
      BY <2>2, <2>3
  <1>2. CASE m.at = clock + 1 /\ Asks(t)
    BY <1>2, StampFacts DEF Asks
  <1>3. CASE Asks(t) /\ m.at = Own(t)
    BY <1>1, <1>2, <1>3 DEF Asks, Own, Storing, Early
  <1>4. CASE Keeps(t) /\ m.at = turn[t].began
    <2>1. /\ turn[t].pc \in Asked \cap Storing /\ turn[t].session \in Sessions
          /\ Open(turn[t].session)
      BY <1>4 DEF Keeps, Stores, StepOf, Acts, Asked, Storing
    <2>2. PICK q \in rows[turn[t].session] : q.at < turn[t].began
      BY <2>1 DEF HistoryInv, TurnInv, OrderInv, QuestionStored
    <2>3. turn[t].began # NoTransaction
      BY <2>1, <2>2, StampFacts DEF NoTransaction
    <2>4. QED
      BY <1>1, <1>4, <2>1, <2>3
  <1>5. QED
    BY <1>3, <1>4

\* The stamp that a turn goes on with is its own, or new.
LEMMA OwnStamp ==
  ASSUME HistoryInv, NEW t \in Turns, StepOf(t), Stamped(t)'
  PROVE  \/ Stamped(t) /\ turn'[t].began = turn[t].began /\ ~Asks(t) /\ ~Keeps(t)
         \/ turn'[t].began = clock' /\ clock < clock'
  <1>1. turn[t].pc \in Storing /\ ~Keeps(t)
    BY StoringKinds DEF Stamped
  <1>2. CASE Asks(t)
    BY <1>2, StampFacts DEF Asks
  <1>3. CASE ~Asks(t)
    BY <1>1, <1>3 DEF StepOf, Acts, Stamped
  <1>4. QED
    BY <1>2, <1>3

\* Stamps stay apart: a new one is newer than all there are.
LEMMA StampsKept ==
  ASSUME HistoryInv, NEW t \in Turns, StepOf(t)
  PROVE  StampsApart'
  <1>1. /\ OrderInv /\ StampsApart /\ clock \in Nat /\ clock' \in Nat /\ clock <= clock'
        /\ turn[t].session \in Sessions
    BY StampFacts DEF HistoryInv, TurnInv, StepOf, Acts
  <1>2. ASSUME NEW u \in Turns, u # t PROVE turn'[u] = turn[u] /\ (Stamped(u)' <=> Stamped(u))
    BY <1>2 DEF StepOf, Acts, Stamped
  <1>3. ASSUME NEW u \in Turns, NEW v \in Turns, Stamped(u)', Stamped(v)',
               turn'[u].began = turn'[v].began
        PROVE  u = v
    <2>1. CASE u # t /\ v # t
      BY <1>1, <1>2, <1>3, <2>1 DEF StampsApart
    <2>2. ASSUME NEW w \in Turns, w # t, Stamped(w)', Stamped(t)',
                 turn'[w].began = turn'[t].began
          PROVE  FALSE
      <3>1. Stamped(w) /\ turn'[w].began = turn[w].began /\ turn[w].began <= clock
        BY <1>2, <2>2, StampFacts
      <3>2. turn[w].began \in Nat
        BY StampFacts
      <3>3. \/ Stamped(t) /\ turn'[t].began = turn[t].began
            \/ turn'[t].began = clock' /\ clock < clock'
        BY <2>2, OwnStamp
      <3>4. QED
        BY <1>1, <2>2, <3>1, <3>2, <3>3 DEF StampsApart
    <2>3. QED
      BY <1>3, <2>1, <2>2
  <1>4. CASE ~Asks(t) /\ ~Keeps(t)
    <2>0. rows' = rows
      BY <1>1, <1>4, StepStores
    <2>1. ASSUME NEW u \in Turns, Stamped(u)', NEW s \in Sessions, NEW m \in rows[s]
          PROVE  m.at # turn'[u].began
      <3>1. CASE u # t
        BY <1>1, <1>2, <2>1, <3>1 DEF StampsApart
      <3>2. CASE u = t
        <4>1. m.at \in Nat /\ m.at <= clock
          BY StampFacts
        <4>2. \/ Stamped(t) /\ turn'[t].began = turn[t].began
              \/ turn'[t].began = clock' /\ clock < clock'
          BY <2>1, <3>2, OwnStamp
        <4>3. QED
          BY <1>1, <3>2, <4>1, <4>2 DEF StampsApart
      <3>3. QED
        BY <3>1, <3>2
    <2>2. \A s \in Sessions : \A m \in rows[s] : m.at <= clock'
      BY <1>1, StampFacts
    <2>3. QED
      BY <1>1, <1>3, <2>0, <2>1, <2>2 DEF StampsApart
  <1>5. CASE Asks(t) \/ Keeps(t)
    <2>1. PICK m \in Message :
            /\ \/ Asks(t) /\ m.at = Own(t)
               \/ Keeps(t) /\ m.at = turn[t].began
            /\ rows'[turn[t].session] = rows[turn[t].session] \cup {m}
            /\ \A s \in Sessions \ {turn[t].session} : rows'[s] = rows[s]
      BY <1>1, <1>5, MessageStored
    <2>2. /\ m.at <= clock' /\ m.at \in Nat
          /\ \A s \in Sessions : \A k \in rows[s] : k.at # m.at
          /\ \A u \in Turns \ {t} : Stamped(u) => turn[u].began # m.at
          /\ Asks(t) => m.at < clock'
      BY <2>1, NewStamp DEF Message
    <2>3. \A s \in Sessions : \A k \in rows'[s] : k \in rows[s] \/ k = m
      BY <2>1
    <2>4. \A s \in Sessions : \A k \in rows'[s] : k.at <= clock'
      BY <1>1, <2>2, <2>3, StampFacts
    <2>5. \A s \in Sessions : \A k, l \in rows'[s] : k.at = l.at => k = l
      BY <1>1, <2>2, <2>3 DEF StampsApart
    <2>6. ASSUME NEW u \in Turns, Stamped(u)', NEW s \in Sessions, NEW k \in rows'[s]
          PROVE  k.at # turn'[u].began
      <3>1. CASE u # t
        <4>1. Stamped(u) /\ turn'[u].began = turn[u].began
          BY <1>2, <2>6, <3>1
        <4>2. CASE k = m
          BY <2>2, <3>1, <4>1, <4>2
        <4>3. CASE k \in rows[s]
          BY <1>1, <4>1, <4>3 DEF StampsApart
        <4>4. QED
          BY <2>3, <4>2, <4>3
      <3>2. CASE u = t
        <4>1. turn'[t].began = clock' /\ clock < clock' /\ ~Keeps(t)
          BY <2>1, <2>6, <3>2, OwnStamp, StoringKinds DEF Stamped
        <4>2. k = m \/ (k.at \in Nat /\ k.at <= clock)
          BY <2>3, StampFacts
        <4>3. QED
          BY <1>1, <2>1, <2>2, <3>2, <4>1, <4>2
      <3>3. QED
        BY <3>1, <3>2
    <2>7. ASSUME NEW s \in Sessions PROVE IsFiniteSet(rows'[s])
      <3>1. IsFiniteSet(rows[s]) /\ IsFiniteSet(rows[s] \cup {m})
        BY <1>1, FS_AddElement DEF StampsApart
      <3>2. rows'[s] = rows[s] \/ rows'[s] = rows[s] \cup {m}
        BY <2>1
      <3>3. QED
        BY <3>1, <3>2
    <2>8. QED
      BY <1>3, <2>4, <2>5, <2>6, <2>7 DEF StampsApart
  <1>6. QED
    BY <1>4, <1>5

\* The window on what the session holds is past: it has no message of the turn
\* that reads it, and answers with their questions unless it is full.
LEMMA RecentIsPast ==
  ASSUME HistoryInv, NEW t \in Turns, turn[t].pc = "loaded", turn[t].session \in Sessions,
         NEW m \in RecentHistory(turn[t].session)
  PROVE  /\ m.turn # t
         /\ m.role = "assistant" =>
              \/ \E q \in RecentHistory(turn[t].session) : q.turn = m.turn /\ q.role = "user"
              \/ Cardinality(RecentHistory(turn[t].session)) = 2 * HistoryTurns
  <1> DEFINE M == rows[turn[t].session]
             n == 2 * HistoryTurns
             R == {k \in M : Cardinality(Later(M, k)) < n}
  <1>1. R = RecentHistory(turn[t].session) /\ m \in M
    BY DEF RecentHistory
  <1>2. m.turn # t
    BY <1>1 DEF HistoryInv, TurnInv, StoredInOrder, Early
  <1>3. /\ M \in SUBSET Message /\ IsFiniteSet(M)
        /\ \A k, l \in M : k.at = l.at => k = l
    BY DEF HistoryInv, TurnInv, OrderInv, TypeOK, StampsApart
  <1>4. n \in Nat \ {0}
    BY ServerAssumption
  <1>5. ASSUME m.role = "assistant"
        PROVE  \/ \E q \in R : q.turn = m.turn /\ q.role = "user"
               \/ Cardinality(R) = n
    <2>1. PICK q \in M : q.turn = m.turn /\ q.role = "user"
      BY <1>1, <1>5 DEF HistoryInv, TurnInv, OrderInv, AnswerAfterQuestion
    <2>2. CASE Cardinality(Later(M, q)) < n
      BY <2>1, <2>2
    <2>3. CASE ~(Cardinality(Later(M, q)) < n)
      <3> HIDE DEF M, n
      <3>1. Cardinality(R) = n
        BY <1>3, <1>4, <2>1, <2>3, FullWindow
      <3>2. QED
        BY <3>1
    <2>4. QED
      BY <2>2, <2>3
  <1> HIDE DEF R, M
  <1>6. QED
    BY <1>1, <1>2, <1>5

\* What a prompt holds is past, and a step of any turn leaves it so.
LEMMA HistoryKept ==
  ASSUME HistoryInv, NEW t \in Turns, StepOf(t)
  PROVE  HistoryIsPast'
  <1>1. \A u \in Turns \ {t} : turn'[u] = turn[u]
    BY DEF StepOf, Acts
  <1>2. CASE turn'[t].history \in {turn[t].history, {}}
    BY <1>1, <1>2 DEF HistoryInv, HistoryIsPast
  <1>3. CASE turn[t].pc = "loaded" /\ turn'[t].history = RecentHistory(turn[t].session)
    <2>1. turn[t].session \in Sessions
      BY DEF StepOf, Acts
    <2> DEFINE H == RecentHistory(turn[t].session)
    <2>2. \A m \in H :
            /\ m.turn # t
            /\ m.role = "assistant" =>
                 \/ \E q \in H : q.turn = m.turn /\ q.role = "user"
                 \/ Cardinality(H) = 2 * HistoryTurns
      BY <1>3, <2>1, RecentIsPast
    <2>3. turn'[t].history = H
      BY <1>3
    <2> HIDE DEF H
    <2>4. QED
      BY <1>1, <2>2, <2>3 DEF HistoryInv, HistoryIsPast
  <1>4. QED
    BY <1>2, <1>3 DEF StepOf, Acts

\* A session request stores nothing.
LEMMA SessionKeepsHistory ==
  ASSUME HistoryInv, NEW s \in Sessions, CreateSession(s) \/ DeleteSession(s)
  PROVE  StampsApart' /\ HistoryIsPast'
  <1>1. /\ turn' = turn /\ clock' = clock
        /\ \A r \in Sessions : rows'[r] = rows[r] \/ rows'[r] = {}
    BY DEF CreateSession, DeleteSession, HistoryInv, TurnInv, OrderInv, TypeOK
  <1>2. \A r \in Sessions : rows'[r] \subseteq rows[r] /\ IsFiniteSet(rows'[r])
    BY <1>1, FS_EmptySet DEF HistoryInv, StampsApart
  <1>3. StampsApart'
    BY <1>1, <1>2 DEF HistoryInv, StampsApart, Stamped
  <1>4. HistoryIsPast'
    BY <1>1 DEF HistoryInv, HistoryIsPast
  <1>5. QED
    BY <1>3, <1>4

\* A turn that arrives begins a transaction of its own.
LEMMA ArriveKeepsHistory ==
  ASSUME HistoryInv, NEW t \in Turns, NEW s \in Sessions, NEW k \in {"query", "stream"},
         Arrive(t, s, k)
  PROVE  StampsApart' /\ HistoryIsPast'
  <1>1. /\ rows' = rows /\ clock' = clock + 1 /\ clock \in Nat
        /\ \A u \in Turns \ {t} : turn'[u] = turn[u]
        /\ turn'[t].began = clock + 1 /\ turn'[t].history = turn[t].history
    BY DEF Arrive, Now, HistoryInv, TurnInv, OrderInv, TypeOK, Handler
  <1>2. HistoryIsPast'
    BY <1>1 DEF HistoryInv, HistoryIsPast
  <1>3. \A u \in Turns \ {t} : Stamped(u)' <=> Stamped(u)
    BY <1>1 DEF Stamped
  <1>4. /\ \A r \in Sessions : \A m \in rows[r] : m.at <= clock' /\ m.at # turn'[t].began
        /\ \A u \in Turns \ {t} : turn[u].began # turn'[t].began
    BY <1>1, StampFacts
  <1>5. StampsApart'
    BY <1>1, <1>3, <1>4 DEF HistoryInv, StampsApart
  <1>6. QED
    BY <1>2, <1>5

\* After a crash nobody stores anything, and what was read is gone.
LEMMA CrashKeepsHistory ==
  ASSUME HistoryInv, Crash
  PROVE  StampsApart' /\ HistoryIsPast'
  <1>1. rows' = rows /\ clock' = clock
    BY DEF Crash
  <1>2. ASSUME NEW t \in Turns
        PROVE  ~Stamped(t)' /\ turn'[t].history \in {turn[t].history, {}}
    <2>1. /\ ~InFlight(t) => turn'[t] = turn[t]
          /\ InFlight(t) => turn'[t].pc = "cut" /\ turn'[t].history = {}
      BY CrashedTurns DEF HistoryInv, TurnInv
    <2>2. QED
      BY <2>1 DEF Stamped, InFlight, Storing, Steps, Early
  <1>3. StampsApart'
    BY <1>1, <1>2 DEF HistoryInv, StampsApart
  <1>4. HistoryIsPast'
    BY <1>2 DEF HistoryInv, HistoryIsPast
  <1>5. QED
    BY <1>3, <1>4

\* At first nothing is stored, and nobody has read anything.
LEMMA InitHistory == Init => HistoryInv
  <1> SUFFICES ASSUME Init PROVE HistoryInv
    OBVIOUS
  <1>1. /\ \A t \in Turns : turn[t].pc = "idle" /\ turn[t].history = {}
        /\ \A s \in Sessions : rows[s] = {}
    BY DEF Init
  <1>2. StampsApart
    BY <1>1, FS_EmptySet DEF StampsApart, Stamped, Storing, Early
  <1>3. HistoryIsPast
    BY <1>1 DEF HistoryIsPast
  <1>4. QED
    BY <1>2, <1>3, InitTurns DEF HistoryInv

\* HistoryInv is inductive.
LEMMA NextHistory == HistoryInv /\ [Next]_vars => HistoryInv'
  <1> SUFFICES ASSUME HistoryInv, [Next]_vars PROVE HistoryInv'
    OBVIOUS
  <1>1. TurnInv'
    BY NextTurns DEF HistoryInv
  <1>2. ASSUME NEW s \in Sessions, CreateSession(s) \/ DeleteSession(s)
        PROVE  StampsApart' /\ HistoryIsPast'
    BY <1>2, SessionKeepsHistory
  <1>3. ASSUME NEW t \in Turns, NEW s \in Sessions, NEW k \in {"query", "stream"},
               Arrive(t, s, k)
        PROVE  StampsApart' /\ HistoryIsPast'
    BY <1>3, ArriveKeepsHistory
  <1>4. ASSUME NEW t \in Turns, TurnStep(t) \/ Disconnect(t)
        PROVE  StampsApart' /\ HistoryIsPast'
    <2>1. StepOf(t)
      BY <1>4, StepOfTurn DEF HistoryInv, TurnInv
    <2>2. QED
      BY <2>1, StampsKept, HistoryKept
  <1>5. ASSUME Crash PROVE StampsApart' /\ HistoryIsPast'
    BY <1>5, CrashKeepsHistory
  <1>6. ASSUME UNCHANGED vars PROVE StampsApart' /\ HistoryIsPast'
    BY <1>6 DEF vars, HistoryInv, StampsApart, HistoryIsPast, Stamped
  <1>7. StampsApart' /\ HistoryIsPast'
    BY <1>2, <1>3, <1>4, <1>5, <1>6 DEF Next
  <1>8. QED
    BY <1>1, <1>7 DEF HistoryInv

\* The model sees the conversation as it stood before the question, whatever
\* else is asked, answered or deleted meanwhile, and for every size of its
\* window (HistoryIsPast).
THEOREM HistoryIsPastAlways == Spec => []HistoryIsPast
  <1>1. HistoryInv => HistoryIsPast
    BY DEF HistoryInv
  <1>2. QED
    BY <1>1, InitHistory, NextHistory, PTL DEF Spec
===============================================================================
