------------------------------ MODULE ChatTurns ------------------------------
(***************************************************************************)
(* What a client of the chat API is promised about a turn, whatever the    *)
(* server does in between.  A turn is a question and its answer in one     *)
(* session.  It is refused, or answered; a streamed answer is meta, then   *)
(* tokens, then done, or error instead of done; the stream may be cut at   *)
(* any point.  The answer is kept before it is reported and never both     *)
(* kept and reported as failed.  A turn comes to an end.                   *)
(***************************************************************************)
EXTENDS Naturals, Sequences, SequencesExt

CONSTANTS
  Sessions,  \* chat sessions
  Turns,     \* turns, of every session
  MaxPieces, \* bound: pieces in an answer
  NoSession  \* "asked nowhere yet"

ASSUME TurnsAssumption == NoSession \notin Sessions /\ MaxPieces \in Nat \ {0}

VARIABLES
  session, \* session[s]: absent, open, deleted
  of,      \* of[t]: the session turn t was asked in
  how,     \* how[t]: query (one response) or stream
  kept,    \* kept[t]: what the session holds of t: nothing, question, answer
  phase,   \* phase[t]: how far t is
  events   \* events[t]: the events sent to the client so far

turnVars == <<session, of, how, kept, phase, events>>

Ended == {"over", "refused", "cut"}
Running(t) == phase[t] \in {"running", "reporting"}
Begun(t) == events[t] # <<>>

TurnInit ==
  /\ session = [s \in Sessions |-> "absent"]
  /\ of = [t \in Turns |-> NoSession]
  /\ how = [t \in Turns |-> "query"]
  /\ kept = [t \in Turns |-> "nothing"]
  /\ phase = [t \in Turns |-> "idle"]
  /\ events = [t \in Turns |-> <<>>]

-----------------------------------------------------------------------------

OpenSession(s) ==
  /\ session[s] = "absent"
  /\ session' = [session EXCEPT ![s] = "open"]
  /\ UNCHANGED <<of, how, kept, phase, events>>

\* The messages go with their session.
CloseSession(s) ==
  /\ session[s] = "open"
  /\ session' = [session EXCEPT ![s] = "deleted"]
  /\ kept' = [t \in Turns |-> IF of[t] = s THEN "nothing" ELSE kept[t]]
  /\ UNCHANGED <<of, how, phase, events>>

Ask(t, s, k) ==
  /\ phase[t] = "idle"
  /\ of' = [of EXCEPT ![t] = s]
  /\ how' = [how EXCEPT ![t] = k]
  /\ phase' = [phase EXCEPT ![t] = "running"]
  /\ UNCHANGED <<session, kept, events>>

KeepQuestion(t) ==
  /\ phase[t] = "running"
  /\ session[of[t]] = "open" /\ kept[t] = "nothing"
  /\ ~Begun(t)
  /\ kept' = [kept EXCEPT ![t] = "question"]
  /\ UNCHANGED <<session, of, how, phase, events>>

\* An HTTP error: nothing of a stream was sent.
Refuse(t) ==
  /\ phase[t] = "running"
  /\ ~Begun(t)
  /\ phase' = [phase EXCEPT ![t] = "refused"]
  /\ UNCHANGED <<session, of, how, kept, events>>

\* The question was kept when an answer begins; the session may be gone since.
Answerable(t) == kept[t] = "question" \/ session[of[t]] = "deleted"

Send(t, event) == events' = [events EXCEPT ![t] = Append(@, event)]

SendMeta(t) ==
  /\ phase[t] = "running" /\ how[t] = "stream"
  /\ Answerable(t) /\ ~Begun(t)
  /\ Send(t, "meta")
  /\ UNCHANGED <<session, of, how, kept, phase>>

SendToken(t) ==
  /\ phase[t] = "running"
  /\ Begun(t) /\ Len(events[t]) <= MaxPieces
  /\ Send(t, "token")
  /\ UNCHANGED <<session, of, how, kept, phase>>

SendError(t) ==
  /\ phase[t] = "running" /\ how[t] = "stream"
  /\ Answerable(t)
  /\ Send(t, "error")
  /\ phase' = [phase EXCEPT ![t] = "over"]
  /\ UNCHANGED <<session, of, how, kept>>

\* A streamed answer has a token at least.
KeepAnswer(t) ==
  /\ phase[t] = "running"
  /\ kept[t] = "question"
  /\ how[t] = "stream" => Begun(t) /\ Last(events[t]) = "token"
  /\ kept' = [kept EXCEPT ![t] = "answer"]
  /\ phase' = [phase EXCEPT ![t] = "reporting"]
  /\ UNCHANGED <<session, of, how, events>>

\* The answer is reported: by done, or as the response of a plain query.
Report(t) ==
  /\ phase[t] = "reporting"
  /\ phase' = [phase EXCEPT ![t] = "over"]
  /\ IF how[t] = "stream" THEN Send(t, "done") ELSE UNCHANGED events
  /\ UNCHANGED <<session, of, how, kept>>

\* Connections break: a client leaves, or the server fails and all break.
Break(T) ==
  /\ T # {} /\ \A t \in T : Running(t)
  /\ phase' = [t \in Turns |-> IF t \in T THEN "cut" ELSE phase[t]]
  /\ UNCHANGED <<session, of, how, kept, events>>

Serve(t) ==
  \/ KeepQuestion(t) \/ Refuse(t)
  \/ SendMeta(t) \/ SendToken(t) \/ SendError(t)
  \/ KeepAnswer(t) \/ Report(t)

TurnNext ==
  \/ \E s \in Sessions : OpenSession(s) \/ CloseSession(s)
  \/ \E t \in Turns : Serve(t) \/ \E s \in Sessions, k \in {"query", "stream"} : Ask(t, s, k)
  \/ \E T \in SUBSET Turns : Break(T)

\* What no step may do.
Safety == TurnInit /\ [][TurnNext]_turnVars

\* A turn comes to an end.
Spec == Safety /\ \A t \in Turns : WF_turnVars(Serve(t) \/ Break({t}))
=============================================================================
