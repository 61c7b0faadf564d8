--------------------------- MODULE ChatClientProofs ---------------------------
(***************************************************************************)
(* The browser's view of a chat: a bubble says truly whether its answer is *)
(* finished, and a view that has settled agrees with what is stored.  For  *)
(* all values of the constants.                                            *)
(***************************************************************************)
EXTENDS ChatClient, OrdersProofs

-----------------------------------------------------------------------------
(* The invariant: the server's turns, as ChatTurns has them *)

Events == {"meta", "token", "done", "error"}

TurnTypes ==
  /\ session \in [Sessions -> {"absent", "open", "deleted"}]
  /\ of \in [Turns -> Sessions \cup {NoSession}]
  /\ how \in [Turns -> {"query", "stream"}]
  /\ kept \in [Turns -> {"nothing", "question", "answer"}]
  /\ phase \in [Turns -> {"idle", "running", "reporting"} \cup Ended]
  /\ events \in [Turns -> Seq(Events)]

Gone(t) == session[of[t]] = "deleted"

\* No token comes any more.
Late == {"reporting", "over", "cut"}

\* A turn is asked as a stream, done or error is its last event, and nothing
\* but an answer that is stored is reported as done.
InOrder(t) ==
  /\ phase[t] = "idle" => of[t] = NoSession /\ events[t] = <<>> /\ kept[t] = "nothing"
  /\ phase[t] # "idle" => of[t] \in Sessions /\ how[t] = "stream"
  /\ \A i \in Sent(t) :
       events[t][i] \in {"done", "error"} => i = Len(events[t]) /\ phase[t] = "over"
  /\ phase[t] = "over" => events[t] # <<>> /\ Last(events[t]) \in {"done", "error"}
  /\ kept[t] = "answer" => phase[t] \in Late /\ ~Holds(t, Sent(t), "error")
  /\ phase[t] = "reporting" \/ Holds(t, Sent(t), "done") => kept[t] = "answer" \/ Gone(t)

TurnsInOrder == TurnTypes /\ \A t \in Turns : InOrder(t)

\* There are only so many turns yet.
Asked == {t \in Turns : phase[t] # "idle"}
AskedFinite == IsFiniteSet(Asked)

\* What a step may do to a turn.
Moves(t) ==
  /\ phase[t] # "idle" => phase'[t] # "idle" /\ of'[t] = of[t]
  /\ Len(events[t]) <= Len(events'[t])
  /\ \A i \in Sent(t) : events'[t][i] = events[t][i]
  /\ phase[t] \in Late =>
       phase'[t] \in Late /\ \A i \in Sent(t)' : i \in Sent(t) \/ events'[t][i] = "done"
  /\ phase[t] \in Ended => phase'[t] = phase[t] /\ events'[t] = events[t]
  /\ phase[t] # "idle" /\ (kept[t] = "answer" \/ Gone(t)) => (kept'[t] = "answer" \/ Gone(t)')
  /\ kept'[t] # "nothing" => kept[t] # "nothing" \/ phase[t] = "running"

TurnsMove ==
  /\ \A t \in Turns : Moves(t)
  /\ \A s \in Sessions : session[s] = "deleted" => session'[s] = "deleted"

-----------------------------------------------------------------------------
(* The invariant: what the browser shows of them *)

\* The places of the frames read of the stream of turn t.
Arrived(t) == 1..taken[t] \div 2

\* A whole answer, which is stored as long as its session is there.
Whole(t, text) ==
  /\ phase[t] \in Late
  /\ text = TokensOf(t) /\ ~Holds(t, Sent(t), "error")
  /\ kept[t] = "answer" \/ Gone(t)

\* Bubbles that say truly whether they are finished, and of those that are
\* not, the ones that are being filled.
Sound == {b \in Bubble :
  /\ phase[b.turn] # "idle"
  /\ b.role = "assistant" /\ ~b.streaming => Whole(b.turn, b.text)}

Filling == {b \in Bubble :
  /\ asking.step = "streaming" /\ b.turn = asking.turn /\ b.role = "assistant"
  /\ b.text = Tokens(b.turn, Arrived(b.turn))
  /\ ~Holds(b.turn, Arrived(b.turn), "done")}

BubblesTrue ==
  /\ \A i \in 1..Len(shown) :
       shown[i] \in Sound /\ (shown[i].streaming => shown[i] \in Filling)
  /\ \A k \in 1..Len(loads) : \A i \in 1..Len(loads[k].messages) :
       loads[k].messages[i] \in Sound /\ ~loads[k].messages[i].streaming

AskingFits ==
  /\ pending => asking.turn \in Turns /\ phase[asking.turn] # "idle"
  /\ asking.step = "streaming" =>
       (asking.failed <=> Holds(asking.turn, Arrived(asking.turn), "error"))
  /\ asking.step = "listing" => phase[asking.turn] = "over"
  /\ \A t \in Turns : taken[t] <= 2 * Len(events[t])

OpFits == op # NoOp => op.session \in Sessions

Has(view, t, role) == \E i \in 1..Len(view) : view[i].turn = t /\ view[i].role = role

\* Sequences of bubbles that are what the active session holds.
Agreeing == {view \in Seq(Bubble) :
  /\ \A i \in 1..Len(view) : of[view[i].turn] = active
  /\ active \in Sessions /\ session[active] # "deleted" =>
       \A t \in Turns : of[t] = active =>
         /\ kept[t] # "nothing" => Has(view, t, "user")
         /\ DoneRead(t) => Has(view, t, "assistant")}

\* As long as the user does one thing at a time, there is one thing to wait
\* for: an answer, or the messages of the active session.
ViewAgrees == ~disturbed =>
  /\ \A t \in Turns : Running(t) => pending /\ asking.turn = t
  /\ pending => loads = <<>> /\ of[asking.turn] = active /\ Has(shown, asking.turn, "user")
  /\ asking.step = "streaming" => Has(shown, asking.turn, "assistant")
  /\ loads = <<>> => shown \in Agreeing
  /\ loads # <<>> => Len(loads) = 1 /\ loads[1].session = active
  /\ loads # <<>> /\ loads[1].served => loads[1].messages \in Agreeing

ClientInv ==
  TypeOK /\ TurnsInOrder /\ AskedFinite /\ BubblesTrue /\ AskingFits /\ OpFits /\ ViewAgrees

-----------------------------------------------------------------------------
(* The server's turns *)

LEMMA NothingMoves ==
  ASSUME TurnsInOrder, UNCHANGED turnVars
  PROVE  TurnsInOrder' /\ TurnsMove
  <1>1. TurnTypes' /\ \A t \in Turns : InOrder(t)'
    BY DEF TurnsInOrder, TurnTypes, InOrder, turnVars, Sent, Holds, Gone
  <1>2. \A t \in Turns : Len(events[t]) \in Nat
    BY DEF TurnsInOrder, TurnTypes
  <1>3. TurnsMove
    BY <1>2 DEF TurnsMove, Moves, turnVars, Sent, Gone
  <1>4. QED
    BY <1>1, <1>3 DEF TurnsInOrder

\* One event more.
LEMMA SendAppends ==
  ASSUME TurnTypes, NEW t \in Turns, NEW event \in Events, Send(t, event)
  PROVE  /\ events' \in [Turns -> Seq(Events)]
         /\ \A u \in Turns \ {t} : events'[u] = events[u]
         /\ Len(events'[t]) = Len(events[t]) + 1 /\ Len(events[t]) \in Nat
         /\ Last(events'[t]) = event /\ events'[t] # <<>>
         /\ \A i \in 1..Len(events[t]) : events'[t][i] = events[t][i]
         /\ events'[t][Len(events[t]) + 1] = event
  <1>1. events[t] \in Seq(Events) /\ events'[t] = Append(events[t], event)
    BY DEF TurnTypes, Send
  <1>2. events' \in [Turns -> Seq(Events)] /\ \A u \in Turns \ {t} : events'[u] = events[u]
    BY <1>1 DEF TurnTypes, Send
  <1>3. QED
    BY <1>1, <1>2 DEF Last

\* A session comes or goes.
LEMMA SessionMoves ==
  ASSUME TurnsInOrder, NEW s \in Sessions, OpenSession(s) \/ CloseSession(s)
  PROVE  TurnsInOrder' /\ TurnsMove
  <1>1. TurnTypes'
    BY DEF TurnsInOrder, TurnTypes, OpenSession, CloseSession
  <1>2. \A u \in Turns : Len(events[u]) \in Nat
    BY DEF TurnsInOrder, TurnTypes
  <1>3. /\ \A r \in Sessions : session[r] = "deleted" => session'[r] = "deleted"
        /\ \A u \in Turns : kept'[u] \in {kept[u], "nothing"}
        /\ \A u \in Turns : kept'[u] = kept[u] \/ (of[u] = s /\ session'[s] = "deleted")
        /\ UNCHANGED <<of, how, phase, events>>
    BY DEF TurnsInOrder, TurnTypes, OpenSession, CloseSession
  <1>4. ASSUME NEW u \in Turns
        PROVE  InOrder(u)' /\ Moves(u)
    <2>1. InOrder(u)
      BY DEF TurnsInOrder
    <2>2. phase[u] # "idle" /\ (kept[u] = "answer" \/ Gone(u)) => (kept'[u] = "answer" \/ Gone(u)')
      BY <1>3, <2>1 DEF InOrder, Gone
    <2>3. Moves(u)
      BY <1>2, <1>3, <2>2 DEF Moves, Sent
    <2>4. Holds(u, Sent(u), "done") => phase[u] = "over"
      BY <2>1 DEF Holds, InOrder
    <2>5. InOrder(u)'
      BY <1>3, <2>1, <2>2, <2>4 DEF InOrder, Sent, Holds
    <2>6. QED
      BY <2>3, <2>5
  <1>5. QED
    BY <1>1, <1>3, <1>4 DEF TurnsInOrder, TurnsMove

LEMMA AskMoves ==
  ASSUME TurnsInOrder, NEW t \in Turns, NEW s \in Sessions, Ask(t, s, "stream")
  PROVE  TurnsInOrder' /\ TurnsMove
  <1>1. TurnTypes'
    BY DEF TurnsInOrder, TurnTypes, Ask
  <1>2. \A u \in Turns : Len(events[u]) \in Nat
    BY DEF TurnsInOrder, TurnTypes
  <1>3. ASSUME NEW u \in Turns, u # t
        PROVE  InOrder(u)' /\ Moves(u)
    <2>1. InOrder(u)
      BY DEF TurnsInOrder
    <2>2. of'[u] = of[u] /\ how'[u] = how[u] /\ phase'[u] = phase[u] /\ UNCHANGED <<session, kept, events>>
      BY <1>3 DEF Ask, TurnsInOrder, TurnTypes
    <2>3. QED
      BY <1>2, <2>1, <2>2 DEF InOrder, Moves, Sent, Holds, Gone
  <1>4. InOrder(t)' /\ Moves(t)
    <2>1. InOrder(t) /\ phase[t] = "idle"
      BY DEF TurnsInOrder, Ask
    <2>2. of'[t] = s /\ how'[t] = "stream" /\ phase'[t] = "running" /\ UNCHANGED <<session, kept, events>>
      BY DEF Ask, TurnsInOrder, TurnTypes
    <2>3. events[t] = <<>> /\ kept[t] = "nothing" /\ Sent(t) = {} /\ Sent(t)' = {}
      BY <2>1, <2>2 DEF InOrder, Sent
    <2>4. QED
      BY <1>2, <2>1, <2>2, <2>3 DEF InOrder, Moves, Holds, Ended, Late
  <1>5. UNCHANGED session
    BY DEF Ask
  <1>6. QED
    BY <1>1, <1>3, <1>4, <1>5 DEF TurnsInOrder, TurnsMove

\* A step that is about turn t alone.
LEMMA OneTurnMoves ==
  ASSUME TurnsInOrder, TurnTypes', NEW t \in Turns, UNCHANGED <<session, of, how>>,
         \A u \in Turns \ {t} :
           kept'[u] = kept[u] /\ phase'[u] = phase[u] /\ events'[u] = events[u],
         InOrder(t)', Moves(t)
  PROVE  TurnsInOrder' /\ TurnsMove
  <1>1. \A u \in Turns : Len(events[u]) \in Nat
    BY DEF TurnsInOrder, TurnTypes
  <1>2. ASSUME NEW u \in Turns \ {t}
        PROVE  InOrder(u)' /\ Moves(u)
    <2>1. InOrder(u)
      BY DEF TurnsInOrder
    <2>2. QED
      BY <1>1, <2>1 DEF InOrder, Moves, Sent, Holds, Gone
  <1>3. QED
    BY <1>2 DEF TurnsInOrder, TurnsMove

\* What a turn that runs is like, and one that reports.
LEMMA RunningTurn ==
  ASSUME TurnsInOrder, NEW t \in Turns, Running(t)
  PROVE  /\ InOrder(t) /\ of[t] \in Sessions /\ how[t] = "stream"
         /\ \A i \in Sent(t) : events[t][i] \notin {"done", "error"}
         /\ phase[t] = "running" => kept[t] # "answer"
         /\ phase[t] \in {"running", "reporting"} /\ Len(events[t]) \in Nat
  BY DEF TurnsInOrder, TurnTypes, InOrder, Running, Late

LEMMA QuestionMoves ==
  ASSUME TurnsInOrder, NEW t \in Turns, KeepQuestion(t) \/ Refuse(t)
  PROVE  TurnsInOrder' /\ TurnsMove
  <1>1. TurnTypes'
    BY DEF TurnsInOrder, TurnTypes, KeepQuestion, Refuse, Ended
  <1>2. Running(t)
    BY DEF Running, KeepQuestion, Refuse
  <1>3. /\ phase[t] = "running" /\ UNCHANGED <<session, of, how, events>>
        /\ \/ phase'[t] = "running" /\ kept'[t] = "question"
           \/ phase'[t] = "refused" /\ kept'[t] = kept[t]
        /\ \A u \in Turns \ {t} : kept'[u] = kept[u] /\ phase'[u] = phase[u]
    BY DEF TurnsInOrder, TurnTypes, KeepQuestion, Refuse
  <1>4. ~Holds(t, Sent(t), "done")
    BY <1>2, RunningTurn DEF Holds
  <1>5. InOrder(t)'
    BY <1>2, <1>3, <1>4, RunningTurn DEF InOrder, Sent, Holds, Gone, Late
  <1>6. Moves(t)
    BY <1>2, <1>3, RunningTurn DEF Moves, Sent, Gone, Late, Ended
  <1>7. QED
    BY <1>1, <1>3, <1>5, <1>6, OneTurnMoves

LEMMA SendMoves ==
  ASSUME TurnsInOrder, NEW t \in Turns, SendMeta(t) \/ SendToken(t) \/ SendError(t)
  PROVE  TurnsInOrder' /\ TurnsMove
  <1>1. PICK event \in Events : Send(t, event) /\ (event \in {"meta", "token"} \/ (SendError(t) /\ event = "error"))
    BY DEF SendMeta, SendToken, SendError, Events
  <1>2. /\ phase[t] = "running" /\ UNCHANGED <<session, of, how, kept>>
        /\ \/ event \in {"meta", "token"} /\ phase'[t] = "running"
           \/ event = "error" /\ phase'[t] = "over"
        /\ \A u \in Turns \ {t} : phase'[u] = phase[u]
        /\ phase' \in [Turns -> {"idle", "running", "reporting"} \cup Ended]
    <2>1. phase[t] = "running" /\ UNCHANGED <<session, of, how, kept>>
      BY DEF SendMeta, SendToken, SendError
    <2>2. CASE SendError(t)
      <3>1. phase' = [phase EXCEPT ![t] = "over"] /\ Send(t, "error")
        BY <2>2 DEF SendError
      <3>2. event = "error"
        <4>1. /\ events'[t][Len(events[t]) + 1] = event
              /\ events'[t][Len(events[t]) + 1] = "error"
          BY <1>1, <3>1, SendAppends DEF TurnsInOrder, Events
        <4>2. QED
          BY <4>1
      <3>3. QED
        BY <2>1, <3>1, <3>2 DEF TurnsInOrder, TurnTypes, Ended
    <2>3. CASE ~SendError(t)
      BY <1>1, <2>1, <2>3 DEF SendMeta, SendToken, TurnsInOrder, TurnTypes
    <2>4. QED
      BY <2>2, <2>3
  <1>3. /\ events' \in [Turns -> Seq(Events)]
        /\ \A u \in Turns \ {t} : events'[u] = events[u]
        /\ Len(events'[t]) = Len(events[t]) + 1 /\ Len(events[t]) \in Nat
        /\ Last(events'[t]) = event /\ events'[t] # <<>>
        /\ \A i \in 1..Len(events[t]) : events'[t][i] = events[t][i]
        /\ events'[t][Len(events[t]) + 1] = event
    BY <1>1, SendAppends DEF TurnsInOrder
  <1>4. TurnTypes'
    BY <1>2, <1>3 DEF TurnsInOrder, TurnTypes
  <1>5. Running(t)
    BY <1>2 DEF Running
  <1>6. ASSUME NEW i \in Sent(t)'
        PROVE  \/ i \in Sent(t) /\ events'[t][i] = events[t][i]
               \/ i = Len(events'[t]) /\ events'[t][i] = event
    BY <1>3 DEF Sent
  <1>7. ~Holds(t, Sent(t), "done")'
    BY <1>2, <1>5, <1>6, RunningTurn DEF Holds
  <1>8. InOrder(t)'
    <2>1. /\ InOrder(t) /\ of[t] \in Sessions /\ how[t] = "stream"
          /\ \A i \in Sent(t) : events[t][i] \notin {"done", "error"}
          /\ kept[t] # "answer"
      BY <1>2, <1>5, RunningTurn
    <2>2. \A i \in Sent(t)' :
            events'[t][i] \in {"done", "error"} => i = Len(events'[t]) /\ phase'[t] = "over"
      BY <1>2, <1>6, <2>1
    <2>3. phase'[t] = "over" => events'[t] # <<>> /\ Last(events'[t]) \in {"done", "error"}
      BY <1>2, <1>3
    <2>4. QED
      BY <1>2, <1>7, <2>1, <2>2, <2>3 DEF InOrder
  <1>9. Moves(t)
    <2>1. phase[t] \notin Late /\ phase[t] \notin Ended /\ phase'[t] # "idle"
      BY <1>2 DEF Late, Ended
    <2>2. Len(events[t]) <= Len(events'[t]) /\ \A i \in Sent(t) : events'[t][i] = events[t][i]
      BY <1>3 DEF Sent
    <2>3. QED
      BY <1>2, <2>1, <2>2 DEF Moves, Gone
  <1>10. QED
    BY <1>2, <1>3, <1>4, <1>8, <1>9, OneTurnMoves

LEMMA AnswerMoves ==
  ASSUME TurnsInOrder, NEW t \in Turns, KeepAnswer(t)
  PROVE  TurnsInOrder' /\ TurnsMove
  <1>1. TurnTypes'
    BY DEF TurnsInOrder, TurnTypes, KeepAnswer
  <1>2. Running(t)
    BY DEF Running, KeepAnswer
  <1>3. /\ phase[t] = "running" /\ UNCHANGED <<session, of, how, events>>
        /\ phase'[t] = "reporting" /\ kept'[t] = "answer"
        /\ \A u \in Turns \ {t} : kept'[u] = kept[u] /\ phase'[u] = phase[u]
        /\ kept[t] = "question"
    BY DEF TurnsInOrder, TurnTypes, KeepAnswer
  <1>4. InOrder(t)'
    BY <1>2, <1>3, RunningTurn DEF InOrder, Sent, Holds, Gone, Late
  <1>5. Moves(t)
    BY <1>2, <1>3, RunningTurn DEF Moves, Sent, Gone, Late, Ended
  <1>6. QED
    BY <1>1, <1>3, <1>4, <1>5, OneTurnMoves

LEMMA ReportMoves ==
  ASSUME TurnsInOrder, NEW t \in Turns, Report(t)
  PROVE  TurnsInOrder' /\ TurnsMove
  <1>1. Running(t) /\ phase[t] = "reporting"
    BY DEF Running, Report
  <1>2. /\ InOrder(t) /\ of[t] \in Sessions /\ how[t] = "stream"
        /\ \A i \in Sent(t) : events[t][i] \notin {"done", "error"}
    BY <1>1, RunningTurn
  <1>3. /\ UNCHANGED <<session, of, how, kept>> /\ phase'[t] = "over"
        /\ \A u \in Turns \ {t} : phase'[u] = phase[u]
        /\ phase' \in [Turns -> {"idle", "running", "reporting"} \cup Ended]
        /\ Send(t, "done")
    BY <1>2 DEF Report, TurnsInOrder, TurnTypes, Ended
  <1>4. /\ events' \in [Turns -> Seq(Events)]
        /\ \A u \in Turns \ {t} : events'[u] = events[u]
        /\ Len(events'[t]) = Len(events[t]) + 1 /\ Len(events[t]) \in Nat
        /\ Last(events'[t]) = "done" /\ events'[t] # <<>>
        /\ \A i \in 1..Len(events[t]) : events'[t][i] = events[t][i]
        /\ events'[t][Len(events[t]) + 1] = "done"
    BY <1>3, SendAppends DEF TurnsInOrder, Events
  <1>5. TurnTypes'
    BY <1>3, <1>4 DEF TurnsInOrder, TurnTypes
  <1>6. ASSUME NEW i \in Sent(t)'
        PROVE  \/ i \in Sent(t) /\ events'[t][i] = events[t][i]
               \/ i = Len(events'[t]) /\ events'[t][i] = "done"
    BY <1>4 DEF Sent
  <1>7. ~Holds(t, Sent(t), "error")'
    BY <1>2, <1>6 DEF Holds
  <1>8. kept[t] = "answer" \/ Gone(t)
    BY <1>1, <1>2 DEF InOrder
  <1>9. InOrder(t)'
    <2>1. \A i \in Sent(t)' :
            events'[t][i] \in {"done", "error"} => i = Len(events'[t]) /\ phase'[t] = "over"
      BY <1>2, <1>3, <1>6
    <2>2. QED
      BY <1>2, <1>3, <1>4, <1>7, <1>8, <2>1 DEF InOrder, Gone, Late
  <1>10. Moves(t)
    BY <1>1, <1>2, <1>3, <1>4, <1>6 DEF Moves, Sent, Gone, Late, Ended
  <1>11. QED
    BY <1>3, <1>4, <1>5, <1>9, <1>10, OneTurnMoves

LEMMA BreakMoves ==
  ASSUME TurnsInOrder, NEW t \in Turns, Break({t})
  PROVE  TurnsInOrder' /\ TurnsMove
  <1>1. TurnTypes'
    BY DEF TurnsInOrder, TurnTypes, Break, Ended
  <1>2. Running(t)
    BY DEF Break
  <1>3. /\ UNCHANGED <<session, of, how, kept, events>> /\ phase'[t] = "cut"
        /\ \A u \in Turns \ {t} : phase'[u] = phase[u]
    BY DEF Break, TurnsInOrder, TurnTypes
  <1>4. ~Holds(t, Sent(t), "done")
    BY <1>2, RunningTurn DEF Holds
  <1>5. InOrder(t)'
    BY <1>2, <1>3, <1>4, RunningTurn DEF InOrder, Sent, Holds, Gone, Late
  <1>6. Moves(t)
    BY <1>2, <1>3, RunningTurn DEF Moves, Sent, Gone, Late, Ended
  <1>7. QED
    BY <1>1, <1>3, <1>5, <1>6, OneTurnMoves

\* Only asking makes a turn run.
LEMMA ServeMoves ==
  ASSUME TurnsInOrder, NEW t \in Turns, Serve(t) \/ Break({t})
  PROVE  /\ TurnsInOrder' /\ TurnsMove
         /\ \A u \in Turns : Running(u)' => Running(u)
         /\ Asked' = Asked
  <1>1. TurnsInOrder' /\ TurnsMove
    BY QuestionMoves, SendMoves, AnswerMoves, ReportMoves, BreakMoves DEF Serve
  <1>2. Running(t) /\ \A u \in Turns \ {t} : phase'[u] = phase[u]
    BY DEF Serve, Break, Running, KeepQuestion, Refuse, SendMeta, SendToken, SendError,
           KeepAnswer, Report, TurnsInOrder, TurnTypes
  <1>3. phase[t] # "idle" /\ phase'[t] # "idle"
    BY <1>1, <1>2 DEF TurnsMove, Moves, Running
  <1>4. QED
    BY <1>1, <1>2, <1>3 DEF Running, Asked

-----------------------------------------------------------------------------
(* Tokens *)

LEMMA TokensCount ==
  ASSUME NEW t, NEW m \in Nat, NEW n \in Nat
  PROVE  Tokens(t, m..n) \in Nat
  <1>1. IsFiniteSet(m..n)
    BY FS_Interval
  <1>2. {i \in m..n : events[t][i] = "token"} \in SUBSET (m..n)
    OBVIOUS
  <1>3. QED
    BY <1>1, <1>2, FS_Subset, FS_CardinalityType DEF Tokens

LEMMA TokensAdd ==
  ASSUME NEW t, NEW m \in Nat, NEW n \in Nat, m <= n
  PROVE  Tokens(t, 1..n) = Tokens(t, 1..m) + Tokens(t, m + 1..n)
  <1> DEFINE All(a, b) == {i \in a..b : events[t][i] = "token"}
  <1>1. ASSUME NEW a \in Nat, NEW b \in Nat
        PROVE  IsFiniteSet(All(a, b)) /\ Cardinality(All(a, b)) \in Nat
    <2>1. IsFiniteSet(a..b)
      BY FS_Interval
    <2>2. All(a, b) \in SUBSET (a..b)
      OBVIOUS
    <2> HIDE DEF All
    <2>3. QED
      BY <2>1, <2>2, FS_Subset, FS_CardinalityType
  <1>2. All(1, n) = All(1, m) \cup All(m + 1, n) /\ All(1, m) \cap All(m + 1, n) = {}
    <2>1. 1..n = (1..m) \cup (m + 1..n) /\ (1..m) \cap (m + 1..n) = {}
      OBVIOUS
    <2>2. QED
      BY <2>1
  <1>3. IsFiniteSet(All(1, m)) /\ IsFiniteSet(All(m + 1, n)) /\ Cardinality(All(1, m)) \in Nat
        /\ Cardinality(All(m + 1, n)) \in Nat
    <2>1. 1 \in Nat /\ m + 1 \in Nat
      OBVIOUS
    <2> HIDE DEF All
    <2>2. QED
      BY <1>1, <2>1
  <1>4. Cardinality(All(1, n)) = Cardinality(All(1, m)) + Cardinality(All(m + 1, n))
    <2> HIDE DEF All
    <2>1. Cardinality({}) = 0
      BY FS_EmptySet
    <2>2. QED
      BY <1>2, <1>3, <2>1, FS_Union
  <1>5. QED
    BY <1>4 DEF Tokens

LEMMA HalfFacts ==
  ASSUME NEW a \in Nat, NEW n \in Nat
  PROVE  /\ a \div 2 \in Nat
         /\ a <= 2 * n => a \div 2 <= n
         /\ a = 2 * n => a \div 2 = n
         /\ \A k \in Nat : a \div 2 <= (a + k) \div 2
  OBVIOUS

\* What is gone from a sequence is one member.
LEMMA RemoveAtMembers ==
  ASSUME NEW A, NEW s \in Seq(A), NEW i \in 1..Len(s)
  PROVE  /\ RemoveAt(s, i) \in Seq(A) /\ Len(RemoveAt(s, i)) = Len(s) - 1
         /\ \A k \in 1..Len(RemoveAt(s, i)) : \E j \in 1..Len(s) : RemoveAt(s, i)[k] = s[j]
  <1> DEFINE left == SubSeq(s, 1, i - 1)
             right == SubSeq(s, i + 1, Len(s))
  <1>1. /\ left \in Seq(A) /\ Len(left) = i - 1 /\ \A k \in 1..i - 1 : left[k] = s[k]
        /\ right \in Seq(A) /\ Len(right) = Len(s) - i
        /\ \A k \in 1..Len(s) - i : right[k] = s[i + k]
    OBVIOUS
  <1>2. RemoveAt(s, i) = left \o right
    BY DEF RemoveAt
  <1>3. /\ left \o right \in Seq(A) /\ Len(left \o right) = Len(s) - 1
        /\ \A k \in 1..Len(s) - 1 :
             (left \o right)[k] = IF k <= i - 1 THEN left[k] ELSE right[k - (i - 1)]
    <2> HIDE DEF left, right
    <2>1. /\ left \o right \in Seq(A) /\ Len(left \o right) = Len(left) + Len(right)
          /\ \A k \in 1..Len(left) + Len(right) :
               (left \o right)[k] = IF k <= Len(left) THEN left[k] ELSE right[k - Len(left)]
      BY <1>1, ConcatProperties
    <2>2. Len(s) \in Nat /\ (i - 1) + (Len(s) - i) = Len(s) - 1
      OBVIOUS
    <2>3. QED
      BY <1>1, <2>1, <2>2
  <1> HIDE DEF left, right
  <1>4. ASSUME NEW k \in 1..Len(s) - 1
        PROVE  \E j \in 1..Len(s) : (left \o right)[k] = s[j]
    <2>1. CASE k <= i - 1
      <3>1. k \in 1..i - 1 /\ k \in 1..Len(s)
        BY <2>1
      <3>2. QED
        BY <1>1, <1>3, <2>1, <3>1
    <2>2. CASE ~(k <= i - 1)
      <3>1. k - (i - 1) \in 1..Len(s) - i /\ i + (k - (i - 1)) = k + 1 /\ k + 1 \in 1..Len(s)
        BY <2>2
      <3>2. QED
        BY <1>1, <1>3, <2>2, <3>1
    <2>3. QED
      BY <2>1, <2>2
  <1>5. QED
    BY <1>2, <1>3, <1>4

-----------------------------------------------------------------------------
(* What stays true of a bubble and of a view as turns go on *)

\* The tokens among the first events stay the same.
LEMMA TokensKept ==
  ASSUME NEW t \in Turns, TurnsInOrder, TurnsInOrder', Moves(t), NEW n \in Nat, n <= Len(events[t])
  PROVE  /\ Tokens(t, 1..n)' = Tokens(t, 1..n)
         /\ \A e : Holds(t, 1..n, e)' <=> Holds(t, 1..n, e)
         /\ Len(events[t]) \in Nat /\ Len(events'[t]) \in Nat
  <1>1. Len(events[t]) \in Nat /\ Len(events'[t]) \in Nat
    BY DEF TurnsInOrder, TurnTypes
  <1>2. \A i \in 1..n : events'[t][i] = events[t][i]
    BY <1>1 DEF Moves, Sent
  <1>3. {i \in 1..n : events'[t][i] = "token"} = {i \in 1..n : events[t][i] = "token"}
    BY <1>2
  <1>4. QED
    BY <1>1, <1>2, <1>3 DEF Tokens, Holds

LEMMA SoundKept ==
  ASSUME TypeOK, TurnsInOrder, TurnsInOrder', TurnsMove
  PROVE  \A b \in Sound : b \in Sound'
  <1> SUFFICES ASSUME NEW b \in Sound
               PROVE  b \in Sound'
    OBVIOUS
  <1> DEFINE t == b.turn
  <1>1. b \in Bubble /\ t \in Turns /\ phase[t] # "idle" /\ Moves(t) /\ InOrder(t)
    BY DEF Sound, Bubble, TurnsMove, TurnsInOrder
  <1>2. phase'[t] # "idle"
    BY <1>1 DEF Moves
  <1>3. ASSUME Whole(t, b.text)
        PROVE  Whole(t, b.text)'
    <2>1. phase[t] \in Late /\ b.text = TokensOf(t) /\ ~Holds(t, Sent(t), "error")
          /\ (kept[t] = "answer" \/ Gone(t))
      BY <1>3 DEF Whole
    <2>2. /\ phase'[t] \in Late /\ (kept'[t] = "answer" \/ Gone(t)')
          /\ \A i \in Sent(t)' : i \in Sent(t) \/ events'[t][i] = "done"
          /\ \A i \in Sent(t) : events'[t][i] = events[t][i]
          /\ \A i \in Sent(t) : i \in Sent(t)'
      <3>1. Len(events[t]) \in Nat /\ Len(events'[t]) \in Nat
        BY <1>1 DEF TurnsInOrder, TurnTypes
      <3>2. QED
        BY <1>1, <2>1, <3>1 DEF Moves, Sent
    <2>3. {i \in Sent(t)' : events'[t][i] = "token"} = {i \in Sent(t) : events[t][i] = "token"}
      BY <2>2
    <2>4. (TokensOf(t))' = TokensOf(t)
      BY <2>3 DEF TokensOf, Tokens
    <2>5. ~Holds(t, Sent(t), "error")'
      BY <2>1, <2>2 DEF Holds
    <2>6. QED
      BY <2>1, <2>2, <2>4, <2>5 DEF Whole
  <1>4. QED
    BY <1>1, <1>2, <1>3 DEF Sound

\* While nothing is read, nothing more is filled.
LEMMA FillingKept ==
  ASSUME TypeOK, TurnsInOrder, TurnsInOrder', TurnsMove, AskingFits, UNCHANGED <<asking, taken>>
  PROVE  /\ \A b \in Filling : b \in Filling'
         /\ AskingFits'
  <1>1. ASSUME NEW t \in Turns
        PROVE  /\ taken[t] \div 2 \in Nat /\ taken[t] \div 2 <= Len(events[t])
               /\ taken[t] <= 2 * Len(events'[t]) /\ Arrived(t)' = Arrived(t) /\ Moves(t)
    <2>1. taken[t] \in Nat /\ Len(events[t]) \in Nat /\ taken[t] <= 2 * Len(events[t])
          /\ Len(events'[t]) \in Nat /\ Len(events[t]) <= Len(events'[t]) /\ Moves(t)
      BY DEF TypeOK, TurnsInOrder, TurnTypes, AskingFits, TurnsMove, Moves
    <2>2. QED
      BY <2>1, HalfFacts DEF Arrived
  <1>2. ASSUME NEW t \in Turns
        PROVE  /\ Tokens(t, Arrived(t))' = Tokens(t, Arrived(t))
               /\ \A e : Holds(t, Arrived(t), e)' <=> Holds(t, Arrived(t), e)
    BY <1>1, TokensKept DEF Arrived
  <1>3. \A b \in Filling : b \in Filling'
    BY <1>2 DEF Filling, Bubble
  <1>4. AskingFits'
    <2>1. pending' => asking.turn \in Turns /\ phase'[asking.turn] # "idle" /\ Moves(asking.turn)
      BY <1>1 DEF AskingFits, pending, Moves
    <2>2. asking.step = "streaming" =>
            (asking.failed <=> Holds(asking.turn, Arrived(asking.turn), "error")')
      BY <1>2 DEF AskingFits, pending
    <2>3. asking.step = "listing" => phase'[asking.turn] = "over"
      BY <1>1 DEF AskingFits, pending, Moves, Ended
    <2>4. QED
      BY <1>1, <2>1, <2>2, <2>3 DEF AskingFits, pending
  <1>5. QED
    BY <1>3, <1>4

\* A view that agrees does so until a turn it does not show runs.
LEMMA AgreeingKept ==
  ASSUME TypeOK, TurnsInOrder, TurnsInOrder', TurnsMove, AskingFits,
         UNCHANGED active, \A t \in Turns : DoneRead(t)' => DoneRead(t),
         NEW view \in Agreeing,
         \A i \in 1..Len(view) : view[i] \in Sound,
         \A t \in Turns : phase[t] = "running" /\ of[t] = active => Has(view, t, "user")
  PROVE  view \in Agreeing'
  <1>1. view \in Seq(Bubble) /\ \A i \in 1..Len(view) : of[view[i].turn] = active
    BY DEF Agreeing
  <1>2. \A i \in 1..Len(view) : of'[view[i].turn] = active
    BY <1>1 DEF Sound, Bubble, TurnsMove, Moves
  <1>3. ASSUME active \in Sessions, session'[active] # "deleted", NEW t \in Turns, of'[t] = active
        PROVE  /\ kept'[t] # "nothing" => Has(view, t, "user")
               /\ DoneRead(t)' => Has(view, t, "assistant")
    <2>1. session[active] # "deleted" /\ InOrder(t) /\ Moves(t)
      BY <1>3 DEF TurnsMove, TurnsInOrder
    <2>2. kept'[t] # "nothing" \/ DoneRead(t)' => phase[t] # "idle"
      <3>1. phase[t] = "idle" => kept[t] = "nothing" /\ Len(events[t]) = 0
        BY <2>1 DEF InOrder
      <3>2. DoneRead(t) => Len(events[t]) # 0
        BY DEF DoneRead, TypeOK
      <3>3. QED
        BY <2>1, <3>1, <3>2 DEF Moves
    <2>3. phase[t] # "idle" => of[t] = active
      BY <1>3, <2>1 DEF Moves
    <2>4. QED
      BY <1>3, <2>1, <2>2, <2>3 DEF Agreeing, Moves
  <1>4. QED
    BY <1>1, <1>2, <1>3 DEF Agreeing

\* What has been read to its end is read once and for all.
LEMMA DoneReadStays ==
  ASSUME TypeOK, TurnsInOrder, TurnsInOrder', TurnsMove, AskingFits, UNCHANGED taken
  PROVE  \A t \in Turns : DoneRead(t)' => DoneRead(t)
  <1> SUFFICES ASSUME NEW t \in Turns, DoneRead(t)'
               PROVE  DoneRead(t)
    OBVIOUS
  <1>1. taken[t] \in Nat /\ Len(events[t]) \in Nat /\ taken[t] <= 2 * Len(events[t])
        /\ Len(events'[t]) \in Nat /\ Moves(t)
    BY DEF TypeOK, TurnsInOrder, TurnTypes, AskingFits, TurnsMove
  <1>2. taken[t] > 0 /\ taken[t] = 2 * Len(events'[t]) /\ Last(events'[t]) = "done"
    BY DEF DoneRead
  <1>3. Len(events[t]) <= Len(events'[t]) /\ \A i \in 1..Len(events[t]) : events'[t][i] = events[t][i]
    BY <1>1 DEF Moves, Sent
  <1>4. Len(events'[t]) = Len(events[t]) /\ Len(events[t]) \in 1..Len(events[t])
    BY <1>1, <1>2, <1>3
  <1>5. QED
    BY <1>2, <1>3, <1>4 DEF DoneRead, Last

-----------------------------------------------------------------------------
(* The server's steps, and the operations on sessions *)

\* Nothing the browser shows changes, and no turn starts to run.
LEMMA ViewRests ==
  ASSUME ClientInv, TurnsInOrder', TurnsMove,
         UNCHANGED <<active, shown, asking, taken, loads, disturbed>>,
         \A t \in Turns : Running(t)' => Running(t)
  PROVE  BubblesTrue' /\ AskingFits' /\ ViewAgrees'
  <1>1. (\A b \in Sound : b \in Sound') /\ (\A b \in Filling : b \in Filling') /\ AskingFits'
    BY SoundKept, FillingKept DEF ClientInv
  <1>2. BubblesTrue'
    BY <1>1 DEF ClientInv, BubblesTrue
  <1>3. ASSUME ~disturbed
        PROVE  /\ pending => of'[asking.turn] = active
               /\ loads = <<>> => shown \in Agreeing'
               /\ loads # <<>> /\ loads[1].served => loads[1].messages \in Agreeing'
    <2>1. /\ \A t \in Turns : Running(t) => pending /\ asking.turn = t
          /\ pending => loads = <<>> /\ of[asking.turn] = active /\ Has(shown, asking.turn, "user")
          /\ loads = <<>> => shown \in Agreeing
          /\ loads # <<>> => Len(loads) = 1
          /\ loads # <<>> /\ loads[1].served => loads[1].messages \in Agreeing
      BY <1>3 DEF ClientInv, ViewAgrees
    <2>2. pending => asking.turn \in Turns /\ phase[asking.turn] # "idle"
      BY DEF ClientInv, AskingFits
    <2>3. pending => of'[asking.turn] = active
      BY <2>1, <2>2 DEF TurnsMove, Moves
    <2>4. \A t \in Turns : phase[t] = "running" => pending /\ asking.turn = t
      BY <2>1 DEF Running
    <2>5. \A t \in Turns : DoneRead(t)' => DoneRead(t)
      BY DoneReadStays DEF ClientInv
    <2>6. loads = <<>> => shown \in Agreeing'
      <3> SUFFICES ASSUME loads = <<>>
                   PROVE  shown \in Agreeing'
        OBVIOUS
      <3>1. \A i \in 1..Len(shown) : shown[i] \in Sound
        BY DEF ClientInv, BubblesTrue
      <3>2. \A t \in Turns : phase[t] = "running" /\ of[t] = active => Has(shown, t, "user")
        BY <2>1, <2>4
      <3>3. QED
        BY <2>1, <2>5, <3>1, <3>2, AgreeingKept DEF ClientInv
    <2>7. loads # <<>> /\ loads[1].served => loads[1].messages \in Agreeing'
      <3> SUFFICES ASSUME loads # <<>>, loads[1].served
                   PROVE  loads[1].messages \in Agreeing'
        OBVIOUS
      <3>1. \A i \in 1..Len(loads[1].messages) : loads[1].messages[i] \in Sound
        BY <2>1 DEF ClientInv, BubblesTrue
      <3>2. \A t \in Turns : phase[t] # "running"
        BY <2>1, <2>4
      <3>3. QED
        BY <2>1, <2>5, <3>1, <3>2, AgreeingKept DEF ClientInv
    <2>8. QED
      BY <2>3, <2>6, <2>7
  <1>4. ViewAgrees'
    BY <1>3 DEF ClientInv, ViewAgrees, pending, Has
  <1>5. QED
    BY <1>1, <1>2, <1>4

LEMMA ServerStepKeeps == ClientInv /\ ServerStep => ClientInv'
  <1> SUFFICES ASSUME ClientInv, ServerStep
               PROVE  ClientInv'
    OBVIOUS
  <1>1. PICK t \in Turns : Serve(t) \/ Break({t})
    BY DEF ServerStep
  <1>2. UNCHANGED <<list, active, shown, asking, taken, loads, op, disturbed>>
    BY DEF ServerStep, browserVars
  <1>3. /\ TurnsInOrder' /\ TurnsMove
        /\ \A u \in Turns : Running(u)' => Running(u)
        /\ Asked' = Asked
    BY <1>1, ServeMoves DEF ClientInv
  <1>4. BubblesTrue' /\ AskingFits' /\ ViewAgrees'
    BY <1>2, <1>3, ViewRests
  <1>5. TypeOK' /\ OpFits' /\ AskedFinite'
    BY <1>2, <1>3 DEF ClientInv, TypeOK, OpFits, AskedFinite, NoOp
  <1>6. QED
    BY <1>3, <1>4, <1>5 DEF ClientInv

\* startSession and removeSession until they are over.
LEMMA OperationKeeps ==
  ClientInv /\ (StartSession \/ ServerRemoves \/ OpFails \/ \E s \in Sessions : RemoveSession(s))
    => ClientInv'
  <1> SUFFICES ASSUME ClientInv,
                      StartSession \/ ServerRemoves \/ OpFails \/ \E s \in Sessions : RemoveSession(s)
               PROVE  ClientInv'
    OBVIOUS
  <1>1. UNCHANGED <<list, active, shown, asking, taken, loads, disturbed>>
    BY DEF StartSession, ServerRemoves, OpFails, RemoveSession
  <1>2. /\ UNCHANGED turnVars \/ \E s \in Sessions : OpenSession(s) \/ CloseSession(s)
        /\ op' \in [step : {"none", "created", "removing", "removed"},
                    session : Sessions \cup {NoSession}, ours : BOOLEAN]
        /\ op' # NoOp => op'.session \in Sessions
    <2>1. CASE StartSession
      <3> DEFINE s == CHOOSE new \in Sessions : session[new] = "absent"
      <3>1. s \in Sessions /\ OpenSession(s) /\ op' = [step |-> "created", session |-> s, ours |-> FALSE]
        BY <2>1 DEF StartSession
      <3> HIDE DEF s
      <3>2. QED
        BY <3>1
    <2>2. CASE ServerRemoves
      <3>1. op # NoOp /\ op.session \in Sessions
        BY <2>2 DEF ServerRemoves, NoOp, ClientInv, OpFits
      <3>2. QED
        BY <2>2, <3>1 DEF ServerRemoves, ClientInv, TypeOK
    <2>3. CASE OpFails
      BY <2>3 DEF OpFails, NoOp
    <2>4. CASE \E s \in Sessions : RemoveSession(s)
      BY <2>4 DEF RemoveSession
    <2>5. QED
      BY <2>1, <2>2, <2>3, <2>4
  <1>3. /\ TurnsInOrder' /\ TurnsMove /\ UNCHANGED phase
    <2>1. CASE UNCHANGED turnVars
      BY <2>1, NothingMoves DEF ClientInv, turnVars
    <2>2. CASE \E s \in Sessions : OpenSession(s) \/ CloseSession(s)
      BY <2>2, SessionMoves DEF ClientInv, OpenSession, CloseSession
    <2>3. QED
      BY <1>2, <2>1, <2>2
  <1>4. BubblesTrue' /\ AskingFits' /\ ViewAgrees'
    BY <1>1, <1>3, ViewRests DEF Running
  <1>5. TypeOK' /\ OpFits' /\ AskedFinite'
    BY <1>1, <1>2, <1>3 DEF ClientInv, TypeOK, OpFits, AskedFinite, Asked, NoOp
  <1>6. QED
    BY <1>3, <1>4, <1>5 DEF ClientInv

\* No turn, no reading and no operation is in it: the rest of the invariant.
LEMMA TurnsRest ==
  ASSUME ClientInv, UNCHANGED turnVars
  PROVE  /\ TurnsInOrder' /\ TurnsMove /\ AskedFinite' /\ Sound' = Sound
         /\ \A t \in Turns : Running(t)' <=> Running(t)
  <1>1. TurnsInOrder' /\ TurnsMove
    BY NothingMoves DEF ClientInv
  <1>2. AskedFinite' /\ Sound' = Sound
    BY DEF ClientInv, AskedFinite, Asked, turnVars, Sound, Whole, TokensOf, Tokens, Holds, Sent, Gone
  <1>3. QED
    BY <1>1, <1>2 DEF Running, turnVars

LEMMA SetActiveKeeps ==
  ASSUME ClientInv, NEW s \in Sessions \cup {NoSession}, SetActive(s),
         UNCHANGED <<turnVars, asking, taken>>
  PROVE  /\ BubblesTrue' /\ AskingFits' /\ ViewAgrees'
         /\ active' \in Sessions \cup {NoSession} /\ shown' \in Seq(Bubble)
         /\ loads' \in Seq(Load)
         /\ disturbed' \in BOOLEAN
  <1>1. TurnsInOrder' /\ TurnsMove /\ Sound' = Sound /\ \A t \in Turns : Running(t)' <=> Running(t)
    BY TurnsRest
  <1>2. AskingFits' /\ \A b \in Filling : b \in Filling'
    BY <1>1, FillingKept DEF ClientInv
  <1>3. CASE s = active
    <2>1. UNCHANGED <<active, shown, loads, disturbed>>
      BY <1>3 DEF SetActive
    <2>2. BubblesTrue' /\ ViewAgrees'
      BY <1>1, <2>1, ViewRests
    <2>3. QED
      BY <1>2, <2>1, <2>2 DEF ClientInv, TypeOK
  <1>4. CASE s # active /\ s = NoSession
    <2>1. active' = NoSession /\ shown' = <<>> /\ loads' = loads
          /\ disturbed' = (disturbed \/ pending \/ loads # <<>>)
      BY <1>4 DEF SetActive
    <2>2. BubblesTrue'
      BY <1>1, <2>1 DEF ClientInv, BubblesTrue
    <2>3. shown' \in Agreeing'
      BY <2>1, TurnsAssumption DEF Agreeing
    <2>4. ~disturbed' => ~pending /\ loads = <<>> /\ \A t \in Turns : ~Running(t)
      BY <2>1 DEF ClientInv, ViewAgrees
    <2>5. ViewAgrees'
      BY <1>1, <2>1, <2>3, <2>4 DEF ViewAgrees, pending
    <2>6. QED
      BY <1>2, <2>1, <2>2, <2>5 DEF ClientInv, TypeOK, pending
  <1>5. CASE s # active /\ s # NoSession
    <2>1. active' = s /\ shown' = shown /\ loads' = Append(loads, Unserved(s))
          /\ disturbed' = (disturbed \/ pending \/ loads # <<>>)
      BY <1>5 DEF SetActive
    <2>2. loads' \in Seq(Load)
          /\ Len(loads') = Len(loads) + 1 /\ loads'[Len(loads) + 1] = Unserved(s)
          /\ \A k \in 1..Len(loads) : loads'[k] = loads[k]
          /\ Len(loads) \in Nat
      <3>1. Unserved(s) \in Load
        BY <1>5 DEF Unserved, Load
      <3>2. QED
        BY <2>1, <3>1 DEF ClientInv, TypeOK
    <2>3. BubblesTrue'
      <3>1. \A i \in 1..Len(shown') :
              shown'[i] \in Sound' /\ (shown'[i].streaming => shown'[i] \in Filling')
        BY <1>1, <1>2, <2>1 DEF ClientInv, BubblesTrue
      <3>2. \A k \in 1..Len(loads') : k \in 1..Len(loads) \/ loads'[k].messages = <<>>
        BY <2>2 DEF Unserved
      <3>3. \A k \in 1..Len(loads) : \A i \in 1..Len(loads[k].messages) :
              loads[k].messages[i] \in Sound /\ ~loads[k].messages[i].streaming
        BY DEF ClientInv, BubblesTrue
      <3>4. ASSUME NEW k \in 1..Len(loads'), NEW i \in 1..Len(loads'[k].messages)
            PROVE  loads'[k].messages[i] \in Sound' /\ ~loads'[k].messages[i].streaming
        BY <1>1, <2>2, <3>2, <3>3
      <3>5. QED
        BY <3>1, <3>4 DEF BubblesTrue
    <2>4. ~disturbed' => ~pending /\ loads = <<>> /\ \A t \in Turns : ~Running(t)
      BY <2>1 DEF ClientInv, ViewAgrees
    <2>5. ViewAgrees'
      <3>1. ~disturbed' => Len(loads') = 1 /\ loads'[1] = Unserved(s) /\ loads' # <<>>
        BY <2>2, <2>4
      <3>2. QED
        BY <1>1, <2>1, <2>4, <3>1 DEF ViewAgrees, pending, Unserved
    <2>6. QED
      BY <1>2, <1>5, <2>1, <2>2, <2>3, <2>5 DEF ClientInv, TypeOK, pending
  <1>6. QED
    BY <1>3, <1>4, <1>5

LEMMA SelectKeeps == ClientInv /\ (\E s \in Sessions : Select(s)) => ClientInv'
  <1> SUFFICES ASSUME ClientInv, NEW s \in Sessions, Select(s)
               PROVE  ClientInv'
    OBVIOUS
  <1>1. SetActive(s) /\ UNCHANGED <<turnVars, list, asking, taken, op>>
    BY DEF Select
  <1>2. /\ BubblesTrue' /\ AskingFits' /\ ViewAgrees'
        /\ active' \in Sessions \cup {NoSession} /\ shown' \in Seq(Bubble)
        /\ loads' \in Seq(Load)
        /\ disturbed' \in BOOLEAN
    BY <1>1, SetActiveKeeps
  <1>3. TypeOK' /\ OpFits'
    BY <1>1, <1>2 DEF ClientInv, TypeOK, OpFits, NoOp
  <1>4. QED
    BY <1>1, <1>2, <1>3, TurnsRest DEF ClientInv

LEMMA OpEndsKeeps == ClientInv /\ OpEnds => ClientInv'
  <1> SUFFICES ASSUME ClientInv, OpEnds
               PROVE  ClientInv'
    OBVIOUS
  <1>1. UNCHANGED <<turnVars, asking, taken>> /\ op' = NoOp /\ list' = Listed /\ op # NoOp
    BY DEF OpEnds, NoOp
  <1>2. PICK s \in Sessions \cup {NoSession} : SetActive(s)
    BY <1>1 DEF OpEnds, Listed, ClientInv, OpFits, TypeOK
  <1>3. /\ BubblesTrue' /\ AskingFits' /\ ViewAgrees'
        /\ active' \in Sessions \cup {NoSession} /\ shown' \in Seq(Bubble)
        /\ loads' \in Seq(Load)
        /\ disturbed' \in BOOLEAN
    BY <1>1, <1>2, SetActiveKeeps
  <1>4. TypeOK' /\ OpFits'
    BY <1>1, <1>3 DEF ClientInv, TypeOK, OpFits, NoOp, Listed
  <1>5. QED
    BY <1>1, <1>3, <1>4, TurnsRest DEF ClientInv

-----------------------------------------------------------------------------
(* Loading messages *)

\* What the server answers: sound bubbles, of every turn that is kept.
LEMMA StoredView ==
  ASSUME ClientInv, NEW s \in Sessions
  PROVE  /\ Stored(s) \in Seq(Bubble)
         /\ \A i \in 1..Len(Stored(s)) :
              Stored(s)[i] \in Sound /\ ~Stored(s)[i].streaming /\ of[Stored(s)[i].turn] = s
         /\ \A t \in Turns : of[t] = s =>
              /\ kept[t] # "nothing" => Has(Stored(s), t, "user")
              /\ kept[t] = "answer" => Has(Stored(s), t, "assistant")
  <1> DEFINE those == {t \in Turns : of[t] = s /\ kept[t] # "nothing"}
             asked == Ascending(those)
             n == Cardinality(those)
             turnsOf(t) == IF kept[t] = "answer" THEN <<Question(t), Answer(t)>> ELSE <<Question(t)>>
             parts == [i \in 1..n |-> turnsOf(asked[i])]
  <1>1. those \in SUBSET Nat /\ IsFiniteSet(those) /\ n \in Nat
    <2>1. those \subseteq Asked
      BY DEF ClientInv, TurnsInOrder, InOrder, Asked
    <2>2. IsFiniteSet(those)
      BY <2>1, FS_Subset DEF ClientInv, AskedFinite
    <2>3. QED
      BY <2>2, FS_CardinalityType, ClientAssumption
  <1>2. asked \in [1..n -> those] /\ \A t \in those : \E i \in 1..n : asked[i] = t
    <2> HIDE DEF those
    <2>1. QED
      BY <1>1, AscendingPlaces
  <1>3. Len(asked) = n /\ Stored(s) = FlattenSeq(parts)
    <2>1. Len(asked) = n
      <3> HIDE DEF asked, those
      <3>1. QED
        BY <1>1, <1>2
    <2>2. QED
      BY <2>1 DEF Stored
  <1>4. ASSUME NEW t \in those
        PROVE  /\ turnsOf(t) \in Seq(Bubble) /\ Len(turnsOf(t)) \in 1..2
               /\ turnsOf(t)[1] = Question(t)
               /\ kept[t] = "answer" => Len(turnsOf(t)) = 2 /\ turnsOf(t)[2] = Answer(t)
               /\ \A j \in 1..Len(turnsOf(t)) :
                    /\ turnsOf(t)[j] \in Sound
                    /\ ~turnsOf(t)[j].streaming /\ of[turnsOf(t)[j].turn] = s
    <2>1. t \in Turns /\ of[t] = s /\ kept[t] # "nothing" /\ InOrder(t)
      BY DEF ClientInv, TurnsInOrder
    <2>2. TokensOf(t) \in Nat
      <3>1. Len(events[t]) \in Nat
        BY <2>1 DEF ClientInv, TurnsInOrder, TurnTypes
      <3>2. QED
        BY <3>1, TokensCount DEF TokensOf, Sent
    <2>3. Question(t) \in Bubble /\ Answer(t) \in Bubble
      BY <2>1, <2>2 DEF Bubble, Question, Answer
    <2>4. phase[t] # "idle" /\ (kept[t] = "answer" => Whole(t, TokensOf(t)))
      BY <2>1 DEF InOrder, Whole
    <2>5. Question(t) \in Sound /\ (kept[t] = "answer" => Answer(t) \in Sound)
      BY <2>3, <2>4 DEF Sound, Question, Answer
    <2>6. ~Question(t).streaming /\ Question(t).turn = t /\ ~Answer(t).streaming /\ Answer(t).turn = t
      BY DEF Question, Answer
    <2>7. CASE kept[t] = "answer"
      BY <2>1, <2>3, <2>5, <2>6, <2>7
    <2>8. CASE kept[t] # "answer"
      BY <2>1, <2>3, <2>5, <2>6, <2>8
    <2>9. QED
      BY <2>7, <2>8
  <1> HIDE DEF turnsOf, asked
  <1>5. parts \in Seq(Seq(Bubble)) /\ Len(parts) = n /\ \A i \in 1..n : parts[i] = turnsOf(asked[i])
    <2>1. \A i \in 1..n : turnsOf(asked[i]) \in Seq(Bubble)
      BY <1>2, <1>4
    <2> HIDE DEF n
    <2>2. QED
      BY <1>1, <2>1
  <1> DEFINE flat == FlattenSeq(parts)
  <1> HIDE DEF parts, n, those
  <1>6. /\ flat \in Seq(Bubble)
        /\ \A k \in 1..Len(flat) :
             \E i \in 1..n : \E j \in 1..Len(parts[i]) : flat[k] = parts[i][j]
        /\ \A i \in 1..n : \A j \in 1..Len(parts[i]) :
             \E k \in 1..Len(flat) : flat[k] = parts[i][j]
    <2>1. parts \in Seq(Seq(Bubble)) /\ Len(parts) = n
      BY <1>5
    <2>2. /\ flat \in Seq(Bubble)
          /\ \A k \in 1..Len(flat) :
               \E i \in 1..Len(parts) : \E j \in 1..Len(parts[i]) : flat[k] = parts[i][j]
          /\ \A i \in 1..Len(parts) : \A j \in 1..Len(parts[i]) :
               \E k \in 1..Len(flat) : flat[k] = parts[i][j]
      BY <2>1, FlattenMembers
    <2>3. QED
      BY <2>1, <2>2
  <1> HIDE DEF flat
  <1>7. ASSUME NEW k \in 1..Len(flat)
        PROVE  flat[k] \in Sound /\ ~flat[k].streaming /\ of[flat[k].turn] = s
    <2>1. PICK i \in 1..n : \E j \in 1..Len(parts[i]) : flat[k] = parts[i][j]
      BY <1>6
    <2>2. asked[i] \in those /\ parts[i] = turnsOf(asked[i])
      BY <1>2, <1>5
    <2>3. QED
      BY <1>4, <2>1, <2>2
  <1>8. ASSUME NEW t \in Turns, of[t] = s, kept[t] # "nothing"
        PROVE  Has(flat, t, "user") /\ (kept[t] = "answer" => Has(flat, t, "assistant"))
    <2>1. t \in those
      BY <1>8 DEF those
    <2>2. PICK i \in 1..n : asked[i] = t
      BY <1>2, <2>1
    <2>3. /\ parts[i] = turnsOf(t) /\ 1 \in 1..Len(turnsOf(t)) /\ turnsOf(t)[1] = Question(t)
          /\ kept[t] = "answer" => 2 \in 1..Len(turnsOf(t)) /\ turnsOf(t)[2] = Answer(t)
      BY <1>4, <1>5, <2>1, <2>2
    <2>4. \E k \in 1..Len(flat) : flat[k] = Question(t)
      BY <1>6, <2>3
    <2>5. kept[t] = "answer" => \E k \in 1..Len(flat) : flat[k] = Answer(t)
      BY <1>6, <2>3
    <2>6. QED
      BY <2>4, <2>5 DEF Has, Question, Answer
  <1>9. Stored(s) = flat
    BY <1>3 DEF flat
  <1>10. QED
    BY <1>6, <1>7, <1>8, <1>9

LEMMA ServeLoadKeeps == ClientInv /\ (\E i \in 1..Len(loads) : ServeLoad(i)) => ClientInv'
  <1> SUFFICES ASSUME ClientInv, NEW i \in 1..Len(loads), ServeLoad(i)
               PROVE  ClientInv'
    OBVIOUS
  <1> DEFINE s == loads[i].session
  <1>1. UNCHANGED <<turnVars, list, active, shown, asking, taken, op, disturbed>>
    BY DEF ServeLoad
  <1>2. loads \in Seq(Load) /\ s \in Sessions /\ session[s] = "open" /\ loads[i] \in Load
    <2>1. loads \in Seq(Load)
      BY DEF ClientInv, TypeOK
    <2>2. loads[i] \in Load
      BY <2>1
    <2>3. loads[i].session \in Sessions
      BY <2>2 DEF Load
    <2>4. QED
      BY <2>1, <2>2, <2>3 DEF ServeLoad
  <1>3. /\ TurnsInOrder' /\ TurnsMove /\ AskedFinite' /\ Sound' = Sound
        /\ \A t \in Turns : Running(t)' <=> Running(t)
    BY <1>1, TurnsRest
  <1>4. AskingFits' /\ \A b \in Filling : b \in Filling'
    BY <1>1, <1>3, FillingKept DEF ClientInv
  <1>5. /\ Stored(s) \in Seq(Bubble)
        /\ \A k \in 1..Len(Stored(s)) :
             Stored(s)[k] \in Sound /\ ~Stored(s)[k].streaming /\ of[Stored(s)[k].turn] = s
        /\ \A t \in Turns : of[t] = s =>
              /\ kept[t] # "nothing" => Has(Stored(s), t, "user")
              /\ kept[t] = "answer" => Has(Stored(s), t, "assistant")
    BY <1>2, StoredView
  <1>6. /\ loads' \in Seq(Load) /\ Len(loads') = Len(loads)
        /\ loads'[i] = [session |-> s, served |-> TRUE, messages |-> Stored(s)]
        /\ \A k \in 1..Len(loads) : k # i => loads'[k] = loads[k]
    <2> DEFINE new == Served(s)
    <2>1. loads' = [loads EXCEPT ![i] = new]
      BY DEF ServeLoad
    <2>2. new \in Load
      BY <1>2, <1>5 DEF Served, Load
    <2> HIDE DEF new
    <2>3. loads' \in Seq(Load) /\ Len(loads') = Len(loads) /\ loads'[i] = new
          /\ \A k \in 1..Len(loads) : k # i => loads'[k] = loads[k]
      BY <1>2, <2>1, <2>2
    <2>4. QED
      BY <2>3 DEF new, Served
  <1>7. TypeOK' /\ OpFits'
    BY <1>1, <1>6 DEF ClientInv, TypeOK, OpFits, NoOp
  <1>8. BubblesTrue'
    <2>1. \A k \in 1..Len(shown) :
            shown[k] \in Sound' /\ (shown[k].streaming => shown[k] \in Filling')
      BY <1>3, <1>4 DEF ClientInv, BubblesTrue
    <2>2. \A k \in 1..Len(loads) : \A j \in 1..Len(loads[k].messages) :
            loads[k].messages[j] \in Sound /\ ~loads[k].messages[j].streaming
      BY DEF ClientInv, BubblesTrue
    <2>3. ASSUME NEW k \in 1..Len(loads), NEW j \in 1..Len(loads'[k].messages)
          PROVE  loads'[k].messages[j] \in Sound' /\ ~loads'[k].messages[j].streaming
      <3>1. CASE k = i
        BY <1>3, <1>5, <1>6, <3>1
      <3>2. CASE k # i
        BY <1>3, <1>6, <2>2, <3>2
      <3>3. QED
        BY <3>1, <3>2
    <2>4. QED
      BY <1>1, <1>6, <2>1, <2>3 DEF BubblesTrue
  <1>9. ViewAgrees'
    <2> SUFFICES ASSUME ~disturbed
                 PROVE  ViewAgrees'
      BY <1>1 DEF ViewAgrees
    <2>1. /\ \A t \in Turns : Running(t) => pending /\ asking.turn = t
          /\ ~pending /\ loads # <<>> /\ Len(loads) = 1 /\ s = active /\ i = 1
      BY <1>2 DEF ClientInv, ViewAgrees
    <2>2. Stored(s) \in Agreeing
      <3>1. ASSUME NEW t \in Turns, of[t] = active, session[active] # "deleted"
            PROVE  /\ kept[t] # "nothing" => Has(Stored(s), t, "user")
                   /\ DoneRead(t) => Has(Stored(s), t, "assistant")
        <4>1. InOrder(t) /\ Len(events[t]) \in Nat /\ taken[t] \in Nat
          BY DEF ClientInv, TurnsInOrder, TurnTypes, TypeOK
        <4>2. DoneRead(t) => Holds(t, Sent(t), "done")
          BY <4>1 DEF DoneRead, Holds, Sent, Last
        <4>3. DoneRead(t) => kept[t] = "answer"
          BY <3>1, <4>1, <4>2 DEF InOrder, Gone
        <4>4. QED
          BY <1>5, <2>1, <3>1, <4>3
      <3>2. QED
        BY <1>5, <2>1, <3>1 DEF Agreeing
    <2>3. Agreeing' = Agreeing
      BY <1>1 DEF Agreeing, turnVars, DoneRead
    <2>4. loads' # <<>> /\ Len(loads') = 1 /\ loads'[1].session = active
          /\ loads'[1].messages = Stored(s)
      BY <1>6, <2>1
    <2>5. QED
      BY <1>1, <1>3, <2>1, <2>2, <2>3, <2>4 DEF ViewAgrees, pending
  <1>10. QED
    BY <1>3, <1>4, <1>7, <1>8, <1>9 DEF ClientInv

LEMMA LoadArrivesKeeps == ClientInv /\ (\E i \in 1..Len(loads) : LoadArrives(i)) => ClientInv'
  <1> SUFFICES ASSUME ClientInv, NEW i \in 1..Len(loads), LoadArrives(i)
               PROVE  ClientInv'
    OBVIOUS
  <1>1. /\ UNCHANGED <<turnVars, list, active, asking, taken, op, disturbed>>
        /\ loads[i].served /\ shown' = loads[i].messages /\ loads' = RemoveAt(loads, i)
    BY DEF LoadArrives
  <1>2. /\ TurnsInOrder' /\ TurnsMove /\ AskedFinite' /\ Sound' = Sound
        /\ \A t \in Turns : Running(t)' <=> Running(t)
    BY <1>1, TurnsRest
  <1>3. AskingFits'
    BY <1>1, <1>2, FillingKept DEF ClientInv
  <1>4. loads \in Seq(Load)
    BY DEF ClientInv, TypeOK
  <1>5. /\ loads' \in Seq(Load) /\ Len(loads') = Len(loads) - 1
        /\ \A k \in 1..Len(loads') : \E j \in 1..Len(loads) : loads'[k] = loads[j]
    BY <1>1, <1>4, RemoveAtMembers
  <1>6. shown' \in Seq(Bubble)
    <2>1. loads[i] \in Load
      BY <1>4
    <2>2. QED
      BY <1>1, <2>1 DEF Load
  <1>7. TypeOK' /\ OpFits'
    BY <1>1, <1>5, <1>6 DEF ClientInv, TypeOK, OpFits, NoOp
  <1>8. BubblesTrue'
    <2>1. \A k \in 1..Len(loads) : \A j \in 1..Len(loads[k].messages) :
            loads[k].messages[j] \in Sound /\ ~loads[k].messages[j].streaming
      BY DEF ClientInv, BubblesTrue
    <2>2. \A k \in 1..Len(loads') : \A j \in 1..Len(loads'[k].messages) :
            loads'[k].messages[j] \in Sound' /\ ~loads'[k].messages[j].streaming
      BY <1>2, <1>5, <2>1
    <2>3. QED
      BY <1>1, <1>2, <2>1, <2>2 DEF BubblesTrue
  <1>9. ViewAgrees'
    <2> SUFFICES ASSUME ~disturbed
                 PROVE  ViewAgrees'
      BY <1>1 DEF ViewAgrees
    <2>1. /\ \A t \in Turns : Running(t) => pending /\ asking.turn = t
          /\ ~pending /\ loads # <<>> /\ Len(loads) = 1 /\ i = 1
          /\ loads[1].messages \in Agreeing
      BY <1>1, <1>4 DEF ClientInv, ViewAgrees
    <2>2. Agreeing' = Agreeing
      BY <1>1 DEF Agreeing, turnVars, DoneRead
    <2>3. loads' = <<>>
      BY <1>5, <2>1
    <2>4. QED
      BY <1>1, <1>2, <2>1, <2>2, <2>3 DEF ViewAgrees, pending
  <1>10. QED
    BY <1>2, <1>3, <1>7, <1>8, <1>9 DEF ClientInv

LEMMA LoadFailsKeeps == ClientInv /\ (\E i \in 1..Len(loads) : LoadFails(i)) => ClientInv'
  <1> SUFFICES ASSUME ClientInv, NEW i \in 1..Len(loads), LoadFails(i)
               PROVE  ClientInv'
    OBVIOUS
  <1>1. /\ UNCHANGED <<turnVars, list, active, shown, asking, taken, op>>
        /\ loads' = RemoveAt(loads, i) /\ disturbed' = TRUE
    BY DEF LoadFails
  <1>2. TurnsInOrder' /\ TurnsMove /\ AskedFinite' /\ Sound' = Sound
    BY <1>1, TurnsRest
  <1>3. AskingFits' /\ \A b \in Filling : b \in Filling'
    BY <1>1, <1>2, FillingKept DEF ClientInv
  <1>4. loads \in Seq(Load)
    BY DEF ClientInv, TypeOK
  <1>5. /\ loads' \in Seq(Load)
        /\ \A k \in 1..Len(loads') : \E j \in 1..Len(loads) : loads'[k] = loads[j]
    BY <1>1, <1>4, RemoveAtMembers
  <1>6. TypeOK' /\ OpFits'
    BY <1>1, <1>5 DEF ClientInv, TypeOK, OpFits, NoOp
  <1>7. BubblesTrue'
    <2>1. /\ \A k \in 1..Len(loads) : \A j \in 1..Len(loads[k].messages) :
               loads[k].messages[j] \in Sound /\ ~loads[k].messages[j].streaming
          /\ \A k \in 1..Len(shown) :
               shown[k] \in Sound /\ (shown[k].streaming => shown[k] \in Filling)
      BY DEF ClientInv, BubblesTrue
    <2>2. \A k \in 1..Len(loads') : \A j \in 1..Len(loads'[k].messages) :
            loads'[k].messages[j] \in Sound' /\ ~loads'[k].messages[j].streaming
      BY <1>2, <1>5, <2>1
    <2>3. \A k \in 1..Len(shown') :
            shown'[k] \in Sound' /\ (shown'[k].streaming => shown'[k] \in Filling')
      BY <1>1, <1>2, <1>3, <2>1
    <2>4. QED
      BY <2>2, <2>3 DEF BubblesTrue
  <1>8. QED
    BY <1>1, <1>2, <1>3, <1>6, <1>7 DEF ClientInv, ViewAgrees

-----------------------------------------------------------------------------
(* Asking, and reading the answer *)

\* While nothing is asked, no bubble waits for tokens.
LEMMA NoneStreaming ==
  ASSUME ClientInv, asking.step # "streaming"
  PROVE  \A i \in 1..Len(shown) : shown[i] \in Sound /\ ~shown[i].streaming
  BY DEF ClientInv, BubblesTrue, Filling

LEMMA AskQuestionKeeps == ClientInv /\ (\E t \in Turns : AskQuestion(t)) => ClientInv'
  <1> SUFFICES ASSUME ClientInv, NEW t \in Turns, AskQuestion(t)
               PROVE  ClientInv'
    OBVIOUS
  <1> DEFINE q == Question(t)
             a == [Answer(t) EXCEPT !.text = 0, !.streaming = TRUE]
  <1>1. /\ ~pending /\ active \in Sessions /\ Ask(t, active, "stream")
        /\ asking' = [step |-> "streaming", turn |-> t, failed |-> FALSE]
        /\ shown' = shown \o <<q, a>>
        /\ disturbed' = (disturbed \/ loads # <<>>)
        /\ UNCHANGED <<list, active, taken, loads, op>>
    BY DEF AskQuestion, ClientInv, TypeOK
  <1>2. TurnsInOrder' /\ TurnsMove
    BY <1>1, AskMoves DEF ClientInv
  <1>3. /\ phase[t] = "idle" /\ phase' = [phase EXCEPT ![t] = "running"] /\ of'[t] = active
        /\ UNCHANGED <<session, kept, events>>
    BY <1>1 DEF Ask, ClientInv, TurnsInOrder, TurnTypes
  <1>4. /\ phase'[t] = "running" /\ \A u \in Turns : u # t => phase'[u] = phase[u]
        /\ Asked' = Asked \cup {t}
    BY <1>3 DEF ClientInv, TurnsInOrder, TurnTypes, Asked
  <1>5. AskedFinite'
    BY <1>4, FS_AddElement DEF ClientInv, AskedFinite
  <1>6. events[t] = <<>> /\ taken[t] = 0
    <2>1. InOrder(t) /\ taken[t] \in Nat /\ taken[t] <= 2 * Len(events[t])
      BY DEF ClientInv, TurnsInOrder, TypeOK, AskingFits
    <2>2. events[t] = <<>>
      BY <1>3, <2>1 DEF InOrder
    <2>3. QED
      BY <2>1, <2>2
  <1>7. /\ q.turn = t /\ q.role = "user" /\ q.text = 0 /\ ~q.streaming /\ q \in Bubble
        /\ a.turn = t /\ a.role = "assistant" /\ a.text = 0 /\ a.streaming = TRUE /\ a \in Bubble
    BY DEF Question, Answer, Bubble
  <1> HIDE DEF q, a
  <1>8. /\ shown' \in Seq(Bubble) /\ Len(shown') = Len(shown) + 2 /\ Len(shown) \in Nat
        /\ \A i \in 1..Len(shown) : shown'[i] = shown[i]
        /\ shown'[Len(shown) + 1] = q /\ shown'[Len(shown) + 2] = a
    <2>1. shown \in Seq(Bubble) /\ <<q, a>> \in Seq(Bubble)
      BY <1>7 DEF ClientInv, TypeOK
    <2>2. QED
      BY <1>1, <2>1
  <1>9. \A i \in 1..Len(shown') :
          \/ i \in 1..Len(shown) /\ shown'[i] = shown[i]
          \/ shown'[i] = q
          \/ shown'[i] = a
    BY <1>8
  <1>10. Arrived(t)' = {}
    BY <1>1, <1>6 DEF Arrived
  <1>11. TypeOK' /\ OpFits'
    BY <1>1, <1>8 DEF ClientInv, TypeOK, OpFits, NoOp
  <1>12. AskingFits'
    <2>1. \A u \in Turns : taken'[u] <= 2 * Len(events'[u])
      BY <1>1, <1>3 DEF ClientInv, AskingFits
    <2>2. QED
      BY <1>1, <1>4, <1>10, <2>1 DEF AskingFits, Holds, pending
  <1>13. \A b \in Sound : b \in Sound'
    BY <1>2, SoundKept DEF ClientInv
  <1>14. BubblesTrue'
    <2>1. q \in Sound' /\ a \in Sound'
      BY <1>4, <1>7 DEF Sound
    <2>2. a \in Filling'
      <3>1. Tokens(t, {}) = 0
        BY FS_EmptySet DEF Tokens
      <3>2. (Tokens(t, Arrived(t)))' = 0
        <4>1. {i \in Arrived(t)' : events'[t][i] = "token"} = {}
          BY <1>10
        <4>2. QED
          BY <4>1, FS_EmptySet DEF Tokens
      <3>3. ~Holds(t, Arrived(t), "done")'
        BY <1>10 DEF Holds
      <3>4. QED
        BY <1>1, <1>7, <3>2, <3>3 DEF Filling
    <2>3. \A i \in 1..Len(shown) : shown[i] \in Sound' /\ ~shown[i].streaming
      BY <1>1, <1>13, NoneStreaming DEF pending
    <2>4. \A i \in 1..Len(shown') :
            shown'[i] \in Sound' /\ (shown'[i].streaming => shown'[i] \in Filling')
      BY <1>7, <1>9, <2>1, <2>2, <2>3
    <2>5. \A k \in 1..Len(loads) : \A j \in 1..Len(loads[k].messages) :
            loads[k].messages[j] \in Sound' /\ ~loads[k].messages[j].streaming
      BY <1>13 DEF ClientInv, BubblesTrue
    <2>6. QED
      BY <1>1, <2>4, <2>5 DEF BubblesTrue
  <1>15. ViewAgrees'
    <2> SUFFICES ASSUME ~disturbed'
                 PROVE  ViewAgrees'
      BY DEF ViewAgrees
    <2>1. ~disturbed /\ loads = <<>> /\ shown \in Agreeing /\ \A u \in Turns : ~Running(u)
      BY <1>1 DEF ClientInv, ViewAgrees
    <2>2. shown \in Agreeing'
      <3>1. \A i \in 1..Len(shown) : shown[i] \in Sound
        BY DEF ClientInv, BubblesTrue
      <3>2. \A u \in Turns : phase[u] # "running"
        BY <2>1 DEF Running
      <3>3. \A u \in Turns : DoneRead(u)' => DoneRead(u)
        BY <1>1, <1>3 DEF DoneRead
      <3>4. QED
        BY <1>1, <1>2, <2>1, <3>1, <3>2, <3>3, AgreeingKept DEF ClientInv
    <2>3. \A u, role : Has(shown, u, role) => Has(shown', u, role)
      BY <1>8 DEF Has
    <2>4. Has(shown', t, "user") /\ Has(shown', t, "assistant")
      <3>1. Len(shown) + 1 \in 1..Len(shown') /\ Len(shown) + 2 \in 1..Len(shown')
        BY <1>8
      <3>2. QED
        BY <1>7, <1>8, <3>1 DEF Has
    <2>5. \A i \in 1..Len(shown') : of'[shown'[i].turn] = active
      BY <1>3, <1>7, <1>9, <2>2, <1>1 DEF Agreeing
    <2>6. shown' \in Agreeing'
      BY <1>1, <1>8, <2>2, <2>3, <2>5 DEF Agreeing
    <2>7. \A u \in Turns : Running(u)' => u = t
      BY <1>4, <2>1 DEF Running
    <2>8. QED
      BY <1>1, <1>3, <2>1, <2>4, <2>6, <2>7 DEF ViewAgrees, pending, Has
  <1>16. QED
    BY <1>2, <1>5, <1>11, <1>12, <1>14, <1>15 DEF ClientInv

\* What ask does once it is over.
LEMMA ReturnFacts ==
  ASSUME ClientInv, pending, Return, UNCHANGED turnVars
  PROVE  /\ asking.turn \in Turns /\ asking' = NotAsking /\ ~pending'
         /\ taken' \in [Turns -> Nat] /\ AskingFits'
         /\ \A t \in Turns : DoneRead(t)' => DoneRead(t)
  <1>1. asking.turn \in Turns /\ asking' = NotAsking
    BY DEF ClientInv, AskingFits, Return
  <1>2. /\ taken' \in [Turns -> Nat]
        /\ \A t \in Turns : taken'[t] = taken[t] \/ taken'[t] = 0
    BY <1>1 DEF Return, ClientInv, TypeOK
  <1>3. \A t \in Turns : taken[t] \in Nat /\ Len(events[t]) \in Nat /\ taken[t] <= 2 * Len(events[t])
    BY DEF ClientInv, TypeOK, AskingFits, TurnsInOrder, TurnTypes
  <1>4. ~pending' /\ AskingFits'
    BY <1>1, <1>2, <1>3 DEF AskingFits, pending, NotAsking, turnVars
  <1>5. \A t \in Turns : DoneRead(t)' => DoneRead(t)
    BY <1>2 DEF DoneRead, turnVars
  <1>6. QED
    BY <1>1, <1>2, <1>4, <1>5

\* The unfinished bubble goes, and no other.
LEMMA CleanedView ==
  ASSUME ClientInv
  PROVE  /\ WithoutStreaming(shown) \in Seq(Bubble)
         /\ \A i \in 1..Len(WithoutStreaming(shown)) :
              WithoutStreaming(shown)[i] \in Sound /\ ~WithoutStreaming(shown)[i].streaming
         /\ shown \in Agreeing => WithoutStreaming(shown) \in Agreeing
         /\ \A t \in Turns : Has(shown, t, "user") => Has(WithoutStreaming(shown), t, "user")
  <1> DEFINE places == {i \in 1..Len(shown) : ~shown[i].streaming}
             view == Picked(shown, places)
  <1>1. WithoutStreaming(shown) = view
    BY DEF WithoutStreaming
  <1>2. shown \in Seq(Bubble) /\ places \in SUBSET (1..Len(shown))
        /\ \A i \in 1..Len(shown) : i \in places <=> ~shown[i].streaming
    BY DEF ClientInv, TypeOK
  <1> HIDE DEF places
  <1>3. /\ view \in Seq(Bubble)
        /\ \E at \in [1..Len(view) -> places] :
             /\ \A i \in 1..Len(view) : view[i] = shown[at[i]]
             /\ \A p \in places : \E i \in 1..Len(view) : at[i] = p
    BY <1>2, PickedPlaces
  <1> HIDE DEF view
  <1>4. PICK at \in [1..Len(view) -> places] :
             /\ \A i \in 1..Len(view) : view[i] = shown[at[i]]
             /\ \A p \in places : \E i \in 1..Len(view) : at[i] = p
    BY <1>3
  <1>5. \A i \in 1..Len(view) :
          \E j \in 1..Len(shown) : view[i] = shown[j] /\ ~shown[j].streaming
    BY <1>2, <1>4
  <1>6. \A j \in 1..Len(shown) : shown[j].streaming \/ \E i \in 1..Len(view) : view[i] = shown[j]
    BY <1>2, <1>4
  <1>7. \A i \in 1..Len(shown) :
          shown[i] \in Sound /\ (shown[i].streaming => shown[i] \in Filling)
    BY DEF ClientInv, BubblesTrue
  <1>8. ASSUME NEW t \in Turns, Has(shown, t, "user")
        PROVE  Has(view, t, "user")
    <2>1. PICK j \in 1..Len(shown) : shown[j].turn = t /\ shown[j].role = "user"
      BY <1>8 DEF Has
    <2>2. ~shown[j].streaming
      BY <1>7, <2>1 DEF Filling
    <2>3. QED
      BY <1>6, <2>1, <2>2 DEF Has
  <1>9. ASSUME NEW t \in Turns, DoneRead(t), Has(shown, t, "assistant")
        PROVE  Has(view, t, "assistant")
    <2>1. PICK j \in 1..Len(shown) : shown[j].turn = t /\ shown[j].role = "assistant"
      BY <1>9 DEF Has
    <2>2. taken[t] \in Nat /\ Len(events[t]) \in Nat
      BY DEF ClientInv, TypeOK, TurnsInOrder, TurnTypes
    <2>3. Len(events[t]) \in Arrived(t) /\ events[t][Len(events[t])] = "done"
      <3>1. taken[t] > 0 /\ taken[t] = 2 * Len(events[t]) /\ events[t][Len(events[t])] = "done"
        BY <1>9 DEF DoneRead, Last
      <3>2. taken[t] \div 2 = Len(events[t])
        BY <2>2, <3>1, HalfFacts
      <3>3. Len(events[t]) \in 1..Len(events[t])
        BY <2>2, <3>1
      <3>4. QED
        BY <3>1, <3>2, <3>3 DEF Arrived
    <2>4. ~shown[j].streaming
      BY <1>7, <2>1, <2>3 DEF Filling, Holds
    <2>5. QED
      BY <1>6, <2>1, <2>4 DEF Has
  <1>10. shown \in Agreeing => view \in Agreeing
    BY <1>3, <1>5, <1>8, <1>9 DEF Agreeing
  <1>11. QED
    BY <1>1, <1>3, <1>5, <1>7, <1>8, <1>10

\* No reading goes on any more: bubbles and views as they are left.
LEMMA ViewLeft ==
  ASSUME ClientInv, UNCHANGED <<turnVars, active, loads>>, asking'.step # "streaming",
         shown' \in Seq(Bubble),
         \A i \in 1..Len(shown') : shown'[i] \in Sound /\ ~shown'[i].streaming,
         \A t \in Turns : DoneRead(t)' => DoneRead(t),
         ~disturbed' => /\ ~disturbed
                        /\ \A t \in Turns : ~Running(t)
                        /\ loads = <<>> => shown' \in Agreeing
                        /\ pending' => /\ loads = <<>> /\ of[asking'.turn] = active
                                       /\ Has(shown', asking'.turn, "user")
  PROVE  BubblesTrue' /\ ViewAgrees'
  <1>1. TurnsInOrder' /\ TurnsMove /\ Sound' = Sound
        /\ \A t \in Turns : Running(t)' <=> Running(t)
    BY TurnsRest
  <1>2. BubblesTrue'
    BY <1>1 DEF ClientInv, BubblesTrue
  <1>3. \A view \in Agreeing : view \in Agreeing'
    BY DEF Agreeing, turnVars
  <1>4. ViewAgrees'
    <2> SUFFICES ASSUME ~disturbed'
                 PROVE  ViewAgrees'
      BY DEF ViewAgrees
    <2>1. /\ \A t \in Turns : ~Running(t)'
          /\ loads' = <<>> => shown' \in Agreeing'
          /\ pending' => /\ loads' = <<>> /\ of'[asking'.turn] = active'
                         /\ Has(shown', asking'.turn, "user")
      BY <1>1, <1>3 DEF turnVars
    <2>2. /\ loads' # <<>> => Len(loads') = 1 /\ loads'[1].session = active'
          /\ loads' # <<>> /\ loads'[1].served => loads'[1].messages \in Agreeing'
      BY <1>3 DEF ClientInv, ViewAgrees
    <2>3. QED
      BY <2>1, <2>2 DEF ViewAgrees, Has, pending
  <1>5. QED
    BY <1>2, <1>4

LEMMA AskRejectedKeeps == ClientInv /\ AskRejected => ClientInv'
  <1> SUFFICES ASSUME ClientInv, AskRejected
               PROVE  ClientInv'
    OBVIOUS
  <1>1. /\ pending /\ Return /\ shown' = WithoutStreaming(shown)
        /\ disturbed' = (disturbed \/ phase[asking.turn] \notin Ended)
        /\ UNCHANGED <<turnVars, list, active, loads, op>>
    BY DEF AskRejected
  <1>2. /\ asking.turn \in Turns /\ asking' = NotAsking /\ ~pending'
        /\ taken' \in [Turns -> Nat] /\ AskingFits'
        /\ \A t \in Turns : DoneRead(t)' => DoneRead(t)
    BY <1>1, ReturnFacts
  <1>3. /\ shown' \in Seq(Bubble)
        /\ \A i \in 1..Len(shown') : shown'[i] \in Sound /\ ~shown'[i].streaming
        /\ shown \in Agreeing => shown' \in Agreeing
    BY <1>1, CleanedView
  <1>4. ~disturbed' => /\ ~disturbed /\ (\A t \in Turns : ~Running(t))
                       /\ loads = <<>> /\ shown' \in Agreeing
    BY <1>1, <1>3 DEF ClientInv, ViewAgrees, Running, Ended
  <1>5. BubblesTrue' /\ ViewAgrees'
    BY <1>1, <1>2, <1>3, <1>4, ViewLeft DEF NotAsking
  <1>6. TypeOK' /\ OpFits'
    BY <1>1, <1>2, <1>3 DEF ClientInv, TypeOK, OpFits, NoOp, NotAsking
  <1>7. QED
    BY <1>1, <1>2, <1>5, <1>6, TurnsRest DEF ClientInv

LEMMA AskEndsKeeps == ClientInv /\ AskEnds => ClientInv'
  <1> SUFFICES ASSUME ClientInv, AskEnds
               PROVE  ClientInv'
    OBVIOUS
  <1>1. /\ pending /\ asking.step = "listing" /\ Return /\ list' = Listed
        /\ UNCHANGED <<turnVars, active, shown, loads, op, disturbed>>
    BY DEF AskEnds, pending
  <1>2. /\ asking.turn \in Turns /\ asking' = NotAsking /\ ~pending'
        /\ taken' \in [Turns -> Nat] /\ AskingFits'
        /\ \A t \in Turns : DoneRead(t)' => DoneRead(t)
    BY <1>1, ReturnFacts
  <1>3. phase[asking.turn] = "over"
    BY <1>1 DEF ClientInv, AskingFits
  <1>4. \A i \in 1..Len(shown) : shown[i] \in Sound /\ ~shown[i].streaming
    BY <1>1, NoneStreaming
  <1>5. ~disturbed => /\ \A t \in Turns : ~Running(t)
                      /\ loads = <<>> => shown \in Agreeing
    BY <1>1, <1>3 DEF ClientInv, ViewAgrees, Running
  <1>6. shown' \in Seq(Bubble)
    BY <1>1 DEF ClientInv, TypeOK
  <1>7. BubblesTrue' /\ ViewAgrees'
    BY <1>1, <1>2, <1>4, <1>5, <1>6, ViewLeft DEF NotAsking
  <1>8. TypeOK' /\ OpFits'
    BY <1>1, <1>2, <1>6 DEF ClientInv, TypeOK, OpFits, NoOp, NotAsking, Listed
  <1>9. QED
    BY <1>1, <1>2, <1>7, <1>8, TurnsRest DEF ClientInv

LEMMA StreamEndsKeeps == ClientInv /\ StreamEnds => ClientInv'
  <1> SUFFICES ASSUME ClientInv, StreamEnds
               PROVE  ClientInv'
    OBVIOUS
  <1> DEFINE t == asking.turn
  <1>1. /\ asking.step = "streaming" /\ pending /\ phase[t] = "over" /\ taken[t] = 2 * Len(events[t])
        /\ asking' = [asking EXCEPT !.step = "listing"]
        /\ shown' = IF asking.failed THEN WithoutStreaming(shown) ELSE shown
        /\ UNCHANGED <<turnVars, list, active, taken, loads, op, disturbed>>
    BY DEF StreamEnds, pending
  <1>2. t \in Turns /\ InOrder(t) /\ Len(events[t]) \in Nat
    BY <1>1 DEF ClientInv, AskingFits, TurnsInOrder, TurnTypes
  <1>3. asking'.step = "listing" /\ asking'.turn = t /\ pending'
        /\ asking' \in [step : {"none", "streaming", "listing"}, turn : Turns \cup {0}, failed : BOOLEAN]
    BY <1>1 DEF ClientInv, TypeOK, pending
  <1>4. ~asking.failed => Holds(t, Arrived(t), "done")
    <2>1. Arrived(t) = Sent(t)
      <3>1. taken[t] \in Nat
        BY <1>2 DEF ClientInv, TypeOK
      <3>2. taken[t] \div 2 = Len(events[t])
        BY <1>1, <1>2, <3>1, HalfFacts
      <3>3. QED
        BY <3>2 DEF Arrived, Sent
    <2>2. Len(events[t]) \in Sent(t) /\ events[t][Len(events[t])] \in {"done", "error"}
      <3>1. events[t] # <<>> /\ Last(events[t]) \in {"done", "error"} /\ events[t] \in Seq(Events)
        BY <1>1, <1>2 DEF InOrder, ClientInv, TurnsInOrder, TurnTypes
      <3>2. QED
        BY <3>1 DEF Sent, Last
    <2>3. ~asking.failed => ~Holds(t, Arrived(t), "error")
      BY <1>1 DEF ClientInv, AskingFits
    <2>4. QED
      BY <2>1, <2>2, <2>3 DEF Holds
  <1>5. /\ shown' \in Seq(Bubble)
        /\ \A i \in 1..Len(shown') : shown'[i] \in Sound /\ ~shown'[i].streaming
        /\ shown \in Agreeing => shown' \in Agreeing
    <2>1. CASE asking.failed
      BY <1>1, <2>1, CleanedView
    <2>2. CASE ~asking.failed
      <3>1. \A i \in 1..Len(shown) : shown[i] \in Sound /\ ~shown[i].streaming
        BY <1>4, <2>2 DEF ClientInv, BubblesTrue, Filling
      <3>2. QED
        BY <1>1, <2>2, <3>1 DEF ClientInv, TypeOK
    <2>3. QED
      BY <2>1, <2>2
  <1>6. AskingFits'
    BY <1>1, <1>2, <1>3 DEF ClientInv, AskingFits, turnVars
  <1>7. \A u \in Turns : DoneRead(u)' => DoneRead(u)
    BY <1>1 DEF DoneRead, turnVars
  <1>8. ~disturbed => /\ \A u \in Turns : ~Running(u)
                      /\ loads = <<>> /\ of[t] = active /\ shown' \in Agreeing
                      /\ Has(shown', t, "user")
    <2> SUFFICES ASSUME ~disturbed
                 PROVE  /\ \A u \in Turns : ~Running(u)
                        /\ loads = <<>> /\ of[t] = active /\ shown' \in Agreeing
                        /\ Has(shown', t, "user")
      OBVIOUS
    <2>1. /\ \A u \in Turns : ~Running(u)
          /\ loads = <<>> /\ of[t] = active /\ shown \in Agreeing /\ Has(shown, t, "user")
      BY <1>1 DEF ClientInv, ViewAgrees, Running
    <2>2. Has(shown', t, "user")
      BY <1>1, <1>2, <2>1, CleanedView
    <2>3. QED
      BY <1>5, <2>1, <2>2
  <1>9. BubblesTrue' /\ ViewAgrees'
    BY <1>1, <1>3, <1>5, <1>7, <1>8, ViewLeft
  <1>10. TypeOK' /\ OpFits'
    BY <1>1, <1>3, <1>5 DEF ClientInv, TypeOK, OpFits, NoOp
  <1>11. QED
    BY <1>1, <1>6, <1>9, <1>10, TurnsRest DEF ClientInv

LEMMA ArrivedThen == \A t : Arrived(t)' = 1..(taken'[t] \div 2)
  BY DEF Arrived

LEMMA ReadKeeps == ClientInv /\ Read => ClientInv'
  <1> SUFFICES ASSUME ClientInv, NEW k \in Nat, ReadChunk(k)
               PROVE  ClientInv'
    <2>1. Read => \E k \in Nat : ReadChunk(k)
      BY TurnsAssumption DEF Read
    <2>2. QED
      BY <2>1
  <1>t. PICK t : t = asking.turn
    OBVIOUS
  <1> DEFINE from == taken[t] \div 2
             to == (taken[t] + k) \div 2
             frames == Completed(t, k)
             fill(b) == IF b.turn = t /\ b.streaming
                        THEN [b EXCEPT !.text = @ + Tokens(t, frames),
                                       !.streaming = ~Holds(t, frames, "done")]
                        ELSE b
  <1>1. /\ asking.step = "streaming" /\ pending
        /\ taken[t] + k <= 2 * Len(events[t])
        /\ taken' = [taken EXCEPT ![t] = taken[t] + k]
        /\ UNCHANGED <<turnVars, list, active, loads, op, disturbed>>
    BY <1>t DEF ReadChunk, pending
  <1>1a. shown' = [i \in 1..Len(shown) |-> fill(shown[i])]
    BY <1>t DEF ReadChunk
  <1>1b. asking' = [asking EXCEPT !.failed = asking.failed \/ Holds(t, frames, "error")]
    BY <1>t DEF ReadChunk
  <1>2. t \in Turns /\ InOrder(t) /\ Len(events[t]) \in Nat /\ taken[t] \in Nat
    <2>1. t \in Turns
      BY <1>1, <1>t DEF ClientInv, AskingFits
    <2>2. InOrder(t) /\ events[t] \in Seq(Events)
      BY <2>1 DEF ClientInv, TurnsInOrder, TurnTypes
    <2>3. taken[t] \in Nat
      BY <2>1 DEF ClientInv, TypeOK
    <2>4. QED
      BY <2>1, <2>2, <2>3
  <1>3. /\ from \in Nat /\ to \in Nat /\ from <= to /\ to <= Len(events[t])
        /\ taken[t] + k = 2 * Len(events[t]) => to = Len(events[t])
    <2>1. taken[t] + k \in Nat
      BY <1>2
    <2>2. QED
      BY <1>1, <1>2, <2>1, HalfFacts
  <1>4. /\ taken' \in [Turns -> Nat] /\ taken'[t] = taken[t] + k
        /\ \A u \in Turns : u # t => taken'[u] = taken[u]
    <2>1. taken \in [Turns -> Nat]
      BY DEF ClientInv, TypeOK
    <2>2. taken[t] + k \in Nat
      BY <1>2
    <2>3. QED
      BY <1>1, <1>2, <2>1, <2>2
  <1>5. Arrived(t) = 1..from /\ Arrived(t)' = 1..to /\ frames = (from + 1)..to
        /\ Arrived(t)' = Arrived(t) \cup frames
    <2>1. Arrived(t) = 1..from /\ frames = (from + 1)..to
      BY DEF Arrived, Completed
    <2>2. Arrived(t)' = 1..to
      <3>1. Arrived(t)' = 1..(taken'[t] \div 2)
        BY ArrivedThen
      <3>2. QED
        BY <1>4, <3>1
    <2> HIDE DEF from, to, frames
    <2>3. 1..to = (1..from) \cup ((from + 1)..to)
      BY <1>3
    <2>4. QED
      BY <2>1, <2>2, <2>3
  <1>6. /\ Tokens(t, 1..to) = Tokens(t, Arrived(t)) + Tokens(t, frames)
        /\ Tokens(t, frames) \in Nat
        /\ \A e : Holds(t, 1..to, e) <=> Holds(t, Arrived(t), e) \/ Holds(t, frames, e)
    <2> HIDE DEF from, to, frames
    <2>1. Tokens(t, 1..to) = Tokens(t, 1..from) + Tokens(t, (from + 1)..to)
      BY <1>3, TokensAdd
    <2>2. Tokens(t, (from + 1)..to) \in Nat
      BY <1>3, TokensCount
    <2>3. \A e : Holds(t, 1..to, e) <=> Holds(t, Arrived(t), e) \/ Holds(t, frames, e)
      <3>1. 1..to = Arrived(t) \cup frames
        BY <1>5
      <3>2. QED
        BY <3>1 DEF Holds
    <2>4. QED
      BY <1>5, <2>1, <2>2, <2>3
  <1> HIDE DEF frames, from, to
  <1>7. asking'.step = "streaming" /\ asking'.turn = t /\ pending'
        /\ asking'.failed = (asking.failed \/ Holds(t, frames, "error"))
        /\ asking' \in [step : {"none", "streaming", "listing"}, turn : Turns \cup {0}, failed : BOOLEAN]
    BY <1>1, <1>t, <1>2, <1>1b DEF ClientInv, TypeOK, pending, Holds
  <1>8. TurnsInOrder' /\ AskedFinite' /\ Sound' = Sound /\ \A u \in Turns : Running(u)' <=> Running(u)
    BY <1>1, TurnsRest
  <1>9. AskingFits'
    <2>1. asking.failed <=> Holds(t, Arrived(t), "error")
      BY <1>1, <1>t DEF ClientInv, AskingFits
    <2>2. asking'.failed <=> Holds(t, 1..to, "error")
      BY <1>6, <1>7, <2>1
    <2>3. Holds(asking.turn, Arrived(asking.turn), "error")' <=> Holds(t, 1..to, "error")
      <3>1. events' = events /\ asking'.turn = t /\ Arrived(t)' = 1..to /\ Arrived(t)' = 1..(taken'[t] \div 2)
        BY <1>1, <1>5, <1>7, ArrivedThen DEF turnVars
      <3>2. QED
        BY <3>1 DEF Holds, Arrived
    <2>4. \A u \in Turns : taken'[u] <= 2 * Len(events'[u])
      BY <1>1, <1>2, <1>4 DEF ClientInv, AskingFits, turnVars
    <2>5. phase'[t] # "idle"
      BY <1>1, <1>t DEF ClientInv, AskingFits, turnVars
    <2>6. QED
      BY <1>2, <1>7, <2>2, <2>3, <2>4, <2>5 DEF AskingFits
  <1>10. ASSUME NEW b \in Bubble, b \in Sound, b.streaming => b \in Filling
         PROVE  /\ fill(b) \in Sound' /\ (fill(b).streaming => fill(b) \in Filling')
                /\ fill(b).turn = b.turn /\ fill(b).role = b.role
    <2>1. CASE ~b.streaming
      BY <1>8, <1>10, <2>1
    <2>2. CASE b.streaming
      <3>1. /\ b.turn = t /\ b.role = "assistant" /\ b.text = Tokens(t, Arrived(t))
            /\ ~Holds(t, Arrived(t), "done")
        BY <1>10, <1>t, <2>2 DEF Filling
      <3> DEFINE new == [b EXCEPT !.text = @ + Tokens(t, frames),
                                  !.streaming = ~Holds(t, frames, "done")]
      <3>2. /\ new \in Bubble /\ new.turn = t /\ new.role = "assistant"
            /\ new.text = Tokens(t, 1..to) /\ (new.streaming <=> ~Holds(t, 1..to, "done"))
        <4>1. b.text \in Nat /\ Tokens(t, frames) \in Nat /\ Holds(t, frames, "done") \in BOOLEAN
          BY <1>6 DEF Bubble, Holds
        <4> DEFINE n == b.text + Tokens(t, frames)
                   f == ~Holds(t, frames, "done")
        <4>5. n \in Nat /\ f \in BOOLEAN
          BY <4>1
        <4> HIDE DEF n, f
        <4> DEFINE g == [b EXCEPT !.text = n, !.streaming = f]
        <4>2. g \in Bubble
          BY <4>5 DEF Bubble
        <4>7. g.turn = b.turn
          BY <4>5 DEF Bubble
        <4>8. g.role = b.role
          BY <4>5 DEF Bubble
        <4>9. g.text = n
          BY <4>5 DEF Bubble
        <4>10. g.streaming = f
          BY <4>5 DEF Bubble
        <4> HIDE DEF g
        <4>6. new = g
          BY DEF n, f, g
        <4> HIDE DEF new
        <4>11. n = Tokens(t, 1..to)
          BY <1>6, <3>1 DEF n
        <4>12. f <=> ~Holds(t, 1..to, "done")
          BY <1>6, <3>1 DEF f
        <4> HIDE DEF n, f
        <4>4. QED
          BY <3>1, <4>2, <4>6, <4>7, <4>8, <4>9, <4>10, <4>11, <4>12
      <3>3. fill(b) = new
        BY <2>2, <3>1
      <3> HIDE DEF new
      <3>4. new.streaming => new \in Sound /\ new \in Filling'
        <4>1. phase[t] # "idle"
          BY <1>1, <1>t DEF ClientInv, AskingFits
        <4>2. new.streaming => new \in Sound
          BY <3>2, <4>1 DEF Sound
        <4>3. (Tokens(t, Arrived(t)))' = Tokens(t, 1..to)
          <5>1. events' = events /\ Arrived(t)' = 1..to
            BY <1>1, <1>5 DEF turnVars
          <5>2. QED
            BY <5>1, Zenon DEF Tokens
        <4>4. Holds(t, Arrived(t), "done")' <=> Holds(t, 1..to, "done")
          <5>1. events' = events /\ Arrived(t)' = 1..to
            BY <1>1, <1>5 DEF turnVars
          <5>2. QED
            BY <5>1, Zenon DEF Holds
        <4>5. new.streaming => new \in Filling'
          BY <1>7, <3>2, <4>3, <4>4 DEF Filling
        <4>6. QED
          BY <4>2, <4>5
      <3>5. ~new.streaming => new \in Sound
        <4> SUFFICES ASSUME ~new.streaming
                     PROVE  new \in Sound
          OBVIOUS
        <4>1. PICK i \in 1..to : events[t][i] = "done"
          BY <3>2 DEF Holds
        <4>2. i \in Sent(t) /\ i = Len(events[t]) /\ phase[t] = "over"
          BY <1>2, <1>3, <4>1 DEF InOrder, Sent
        <4>3. 1..to = Sent(t)
          BY <1>2, <1>3, <4>1, <4>2 DEF Sent
        <4>4. ~Holds(t, Sent(t), "error")
          BY <1>2, <4>1, <4>2 DEF Holds, InOrder
        <4>5. kept[t] = "answer" \/ Gone(t)
          BY <1>2, <4>1, <4>2 DEF InOrder, Holds
        <4>6. Whole(t, new.text)
          BY <3>2, <4>2, <4>3, <4>4, <4>5 DEF Whole, TokensOf, Late
        <4>7. QED
          BY <3>2, <4>2, <4>6 DEF Sound
      <3>6. QED
        BY <1>8, <3>1, <3>2, <3>3, <3>4, <3>5
    <2>3. QED
      BY <2>1, <2>2
  <1>11. /\ Len(shown) \in Nat
         /\ \A i \in 1..Len(shown) :
              shown[i] \in Bubble /\ shown[i] \in Sound /\ (shown[i].streaming => shown[i] \in Filling)
    BY DEF ClientInv, TypeOK, BubblesTrue
  <1> HIDE DEF fill
  <1>12. /\ shown' \in Seq(Bubble) /\ Len(shown') = Len(shown)
         /\ \A i \in 1..Len(shown) :
              /\ shown'[i] \in Sound' /\ (shown'[i].streaming => shown'[i] \in Filling')
              /\ shown'[i].turn = shown[i].turn /\ shown'[i].role = shown[i].role
    <2>1. \A i \in 1..Len(shown) :
            /\ fill(shown[i]) \in Sound' /\ (fill(shown[i]).streaming => fill(shown[i]) \in Filling')
            /\ fill(shown[i]).turn = shown[i].turn /\ fill(shown[i]).role = shown[i].role
      BY <1>10, <1>11
    <2>2. \A i \in 1..Len(shown) : fill(shown[i]) \in Bubble
      BY <2>1 DEF Sound
    <2>3. QED
      BY <1>1a, <1>11, <2>1, <2>2
  <1>13. BubblesTrue'
    BY <1>1, <1>8, <1>12 DEF ClientInv, BubblesTrue
  <1>14. TypeOK' /\ OpFits'
    BY <1>1, <1>4, <1>7, <1>12 DEF ClientInv, TypeOK, OpFits, NoOp
  <1>15. \A u, role : Has(shown', u, role) <=> Has(shown, u, role)
    BY <1>12 DEF Has
  <1>16. ViewAgrees'
    <2> SUFFICES ASSUME ~disturbed
                 PROVE  ViewAgrees'
      BY <1>1 DEF ViewAgrees
    <2>1. /\ \A u \in Turns : Running(u) => pending /\ asking.turn = u
          /\ loads = <<>> /\ of[t] = active /\ Has(shown, t, "user") /\ Has(shown, t, "assistant")
          /\ shown \in Agreeing
      BY <1>1, <1>t DEF ClientInv, ViewAgrees
    <2>2. ASSUME NEW u \in Turns, DoneRead(u)'
          PROVE  DoneRead(u) \/ u = t
      BY <1>1, <1>4, <2>2 DEF DoneRead, turnVars
    <2>3. \A i \in 1..Len(shown') : of[shown'[i].turn] = active
      BY <1>12, <2>1 DEF Agreeing
    <2>4. shown' \in Agreeing'
      BY <1>1, <1>12, <1>15, <2>1, <2>2, <2>3 DEF Agreeing, turnVars
    <2>5. Has(shown', t, "user") /\ Has(shown', t, "assistant")
      BY <1>15, <2>1
    <2>6. loads' = <<>> /\ of'[t] = active'
      BY <1>1, <2>1 DEF turnVars
    <2>8. \A u \in Turns : Running(u)' => asking'.turn = u
      BY <1>1, <1>7, <1>t, <2>1 DEF Running, turnVars
    <2>7. QED
      BY <1>7, <2>4, <2>5, <2>6, <2>8 DEF ViewAgrees, Has
  <1>17. QED
    BY <1>8, <1>9, <1>13, <1>14, <1>16 DEF ClientInv

-----------------------------------------------------------------------------
(* The theorems *)

LEMMA InitKeeps == ClientInit => ClientInv
  <1> SUFFICES ASSUME ClientInit
               PROVE  ClientInv
    OBVIOUS
  <1>1. TurnsInOrder /\ AskedFinite
    <2>1. TurnTypes
      BY DEF ClientInit, TurnInit, TurnTypes
    <2>2. \A t \in Turns : events[t] = <<>> /\ Sent(t) = {} /\ kept[t] = "nothing"
                          /\ phase[t] = "idle" /\ of[t] = NoSession
      BY DEF ClientInit, TurnInit, Sent
    <2>3. Asked = {}
      BY <2>2 DEF Asked
    <2>4. QED
      BY <2>1, <2>2, <2>3, FS_EmptySet DEF TurnsInOrder, AskedFinite, InOrder, Holds
  <1>2. TypeOK
    <2>1. list \subseteq Sessions /\ active \in Sessions \cup {NoSession} /\ disturbed \in BOOLEAN
      BY DEF ClientInit
    <2>2. shown \in Seq(Bubble) /\ loads \in Seq(Load) /\ taken \in [Turns -> Nat]
      BY DEF ClientInit
    <2>3. /\ asking \in [step : {"none", "streaming", "listing"}, turn : Turns \cup {0}, failed : BOOLEAN]
          /\ op \in [step : {"none", "created", "removing", "removed"},
                     session : Sessions \cup {NoSession}, ours : BOOLEAN]
      BY DEF ClientInit, NotAsking, NoOp
    <2>4. QED
      BY <2>1, <2>2, <2>3 DEF TypeOK
  <1>3. /\ shown = <<>> /\ loads = <<>> /\ asking.step = "none" /\ ~pending /\ op = NoOp
        /\ active = NoSession /\ \A t \in Turns : taken[t] = 0 /\ Len(events[t]) = 0 /\ ~Running(t)
    BY DEF ClientInit, TurnInit, NotAsking, pending, Running
  <1>4. shown \in Agreeing
    BY <1>3, TurnsAssumption DEF Agreeing
  <1>5. BubblesTrue /\ AskingFits /\ OpFits /\ ViewAgrees
    BY <1>3, <1>4 DEF BubblesTrue, AskingFits, OpFits, ViewAgrees
  <1>6. QED
    BY <1>1, <1>2, <1>5 DEF ClientInv

LEMMA NextKeeps == ClientInv /\ [ClientNext]_vars => ClientInv'
  <1> SUFFICES ASSUME ClientInv, [ClientNext]_vars
               PROVE  ClientInv'
    OBVIOUS
  <1>1. CASE UNCHANGED vars
    <2>1. UNCHANGED turnVars /\ UNCHANGED <<list, active, shown, asking, taken, loads, op, disturbed>>
      BY <1>1 DEF vars, browserVars
    <2>2. /\ TurnsInOrder' /\ TurnsMove /\ AskedFinite'
          /\ \A t \in Turns : Running(t)' <=> Running(t)
      BY <2>1, TurnsRest
    <2>3. TypeOK' /\ OpFits'
      BY <2>1 DEF ClientInv, TypeOK, OpFits, NoOp
    <2>4. BubblesTrue' /\ AskingFits' /\ ViewAgrees'
      BY <2>1, <2>2, ViewRests
    <2>5. QED
      BY <2>2, <2>3, <2>4 DEF ClientInv
  <1>2. CASE ClientNext
    BY <1>2, SelectKeeps, OperationKeeps, ServeLoadKeeps, LoadArrivesKeeps, LoadFailsKeeps, OpEndsKeeps,
       AskQuestionKeeps, ReadKeeps, StreamEndsKeeps, AskRejectedKeeps, AskEndsKeeps, ServerStepKeeps
       DEF ClientNext
  <1>3. QED
    BY <1>1, <1>2

LEMMA ClientAlways == ClientSpec => []ClientInv
  BY InitKeeps, NextKeeps, PTL DEF ClientSpec

\* The variables are of their types.
THEOREM TypeCorrect == ClientSpec => []TypeOK
  <1>1. ClientInv => TypeOK
    BY DEF ClientInv
  <1>2. QED
    BY <1>1, ClientAlways, PTL

\* However the stream is cut into chunks, and whatever is loaded meanwhile, a
\* bubble not marked as streaming holds the whole answer, and none waits for
\* tokens when the composer is free.
THEOREM FinishedIsWholeAlways == ClientSpec => []FinishedIsWhole
  <1>1. ClientInv => FinishedIsWhole
    <2> SUFFICES ASSUME ClientInv, NEW i \in 1..Len(shown)
                 PROVE  /\ shown[i].role = "assistant" /\ ~shown[i].streaming
                            => /\ shown[i].text = TokensOf(shown[i].turn)
                               /\ ~Holds(shown[i].turn, Sent(shown[i].turn), "error")
                        /\ ~pending => ~shown[i].streaming
      BY DEF FinishedIsWhole
    <2>1. shown[i] \in Sound /\ (shown[i].streaming => shown[i] \in Filling)
      BY DEF ClientInv, BubblesTrue
    <2>2. QED
      BY <2>1 DEF Sound, Filling, Whole, pending
  <1>2. QED
    BY <1>1, ClientAlways, PTL

\* What is shown once everything has settled agrees with what is stored.
THEOREM SettledViewIsStoredAlways == ClientSpec => []SettledViewIsStored
  <1>1. ClientInv => SettledViewIsStored
    <2> SUFFICES ASSUME ClientInv, ~disturbed, ~pending, loads = <<>>, active # NoSession,
                        session[active] = "open"
                 PROVE  /\ \A i \in 1..Len(shown) : of[shown[i].turn] = active
                        /\ \A t \in {u \in Turns : of[u] = active /\ phase[u] \in Ended} :
                             /\ kept[t] # "nothing" => Shows(t, "user")
                             /\ Shows(t, "assistant") => kept[t] = "answer"
                             /\ DoneRead(t) => Shows(t, "assistant")
      BY DEF SettledViewIsStored
    <2>1. shown \in Agreeing
      BY DEF ClientInv, ViewAgrees
    <2>2. active \in Sessions
      BY DEF ClientInv, TypeOK
    <2>3. \A i \in 1..Len(shown) : shown[i] \in Sound /\ ~shown[i].streaming
      BY NoneStreaming DEF pending
    <2>4. ASSUME NEW t \in Turns, of[t] = active, Shows(t, "assistant")
          PROVE  kept[t] = "answer"
      <3>1. PICK i \in 1..Len(shown) : shown[i].turn = t /\ shown[i].role = "assistant"
        BY <2>4 DEF Shows
      <3>2. QED
        BY <2>3, <2>4, <3>1 DEF Sound, Whole, Gone
    <2>5. QED
      BY <2>1, <2>2, <2>4 DEF Agreeing, Shows, Has
  <1>2. QED
    BY <1>1, ClientAlways, PTL
===============================================================================
