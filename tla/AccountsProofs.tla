---------------------------- MODULE AccountsProofs ----------------------------
(* Theorems about Accounts, for all values of its constants: the tab and its *)
(* cookie, then the limiters.                                              *)
EXTENDS Accounts, FiniteSetTheorems, SequenceTheorems, WellFoundedInduction, TLAPS

-----------------------------------------------------------------------------
(* The invariant *)

Kinds == {"none", "me", "login", "register", "logout"}
Request == [pc : Pcs, kind : Kinds, email : Emails \cup {NoEmail}, now : Nat, tab : BOOLEAN]
Responses == {"granted", "refused"}

\* What holds of a request, given the accounts, the cookie and whether the tab
\* is checking its session: only the tab waits for an answer, what is granted
\* is an account's, and a check of the session is about the cookie's owner.
Sound(r, known, owner, waiting) ==
  /\ r.pc \in Responses \cup {"answering"} => r.tab
  /\ r.kind \in {"me", "logout"} => r.pc \in Responses \cup {"answering"}
  /\ r.pc = "answering" => r.kind \in {"me", "logout"}
  /\ r.kind = "logout" => r.email = NoEmail /\ r.pc # "refused"
  /\ r.pc # "idle" /\ r.kind \notin {"me", "logout"} => r.email \in Emails
  /\ r.kind # "logout" /\ r.pc \in {"matched", "granted"} => r.email \in known
  /\ r.tab => (r.kind = "me" <=> waiting)
  /\ r.tab /\ r.kind = "me" => r.email = owner
  /\ r.kind = "me" /\ r.pc = "refused" => owner = NoEmail

\* What makes ViewMatchesCookie inductive: the tab awaits one answer at most,
\* so that nothing changes the cookie between a request and its answer, and
\* whoever has a cookie has an account.
SignInInv ==
  /\ handler \in [Handlers -> Request]
  /\ clock \in Nat /\ checking \in BOOLEAN /\ lost \in BOOLEAN
  /\ accounts \subseteq Emails /\ cookie \in accounts \cup {NoEmail}
  /\ \A g, h \in Handlers : handler[g].tab /\ handler[h].tab => g = h
  /\ \A h \in Handlers : Sound(handler[h], accounts, cookie, checking)
  /\ checking => user = NoEmail
  /\ ~checking /\ ~lost => user = cookie

-----------------------------------------------------------------------------
(* One handler goes on *)

\* At first nobody is signed in and nothing is asked.
LEMMA InitSignIn == Init => SignInInv
  <1> SUFFICES ASSUME Init
               PROVE  SignInInv
    OBVIOUS
  <1>1. Idle \in Request /\ Idle.tab = FALSE /\ Idle.pc = "idle" /\ Idle.kind = "none"
    BY DEF Idle, Request, Pcs, Kinds
  <1>2. \A h \in Handlers : handler[h] = Idle
    BY DEF Init
  <1>3. \A h \in Handlers : Sound(handler[h], accounts, cookie, checking)
    BY <1>1, <1>2 DEF Sound, Responses
  <1>4. QED
    BY <1>1, <1>2, <1>3 DEF Init, SignInInv

\* An idle handler is sound, whoever is signed in.
LEMMA IdleIsSound ==
  /\ Idle \in Request /\ Idle.tab = FALSE
  /\ \A known, owner, waiting : Sound(Idle, known, owner, waiting)
  BY DEF Idle, Request, Pcs, Kinds, Sound, Responses

\* A handler that goes on alone, to a sound request, while the tab keeps its
\* cookie and its state, keeps the invariant.
LEMMA OneGoesOn ==
  ASSUME SignInInv, NEW h \in Handlers, NEW r \in Request,
         handler' = [handler EXCEPT ![h] = r],
         r.tab => handler[h].tab \/ OfTab = {},
         accounts \subseteq accounts', accounts' \subseteq Emails,
         clock' = clock, UNCHANGED <<cookie, user, checking, lost>>,
         Sound(r, accounts', cookie, checking)
  PROVE  SignInInv'
  <1>1. /\ handler' \in [Handlers -> Request] /\ handler'[h] = r
        /\ \A g \in Handlers \ {h} : handler'[g] = handler[g]
    BY DEF SignInInv
  <1>2. \A g \in Handlers : Sound(handler'[g], accounts', cookie, checking)
    BY <1>1 DEF SignInInv, Sound
  <1>3. \A g, k \in Handlers : handler'[g].tab /\ handler'[k].tab => g = k
    BY <1>1 DEF SignInInv, OfTab
  <1>4. QED
    BY <1>1, <1>2, <1>3 DEF SignInInv

\* Ending a request that is neither a check of the session nor a logout.
LEMMA EndKeeps ==
  ASSUME SignInInv, NEW h \in Handlers, NEW outcome \in Responses, End(h, outcome),
         handler[h].pc # "idle", handler[h].kind \notin {"me", "logout"},
         outcome = "granted" => handler[h].email \in accounts',
         accounts \subseteq accounts', accounts' \subseteq Emails,
         clock' = clock, UNCHANGED <<cookie, user, checking, lost>>
  PROVE  SignInInv'
  <1>1. handler[h] \in Request /\ Sound(handler[h], accounts, cookie, checking)
    BY DEF SignInInv
  <1>2. CASE handler[h].tab
    <2> DEFINE r == [handler[h] EXCEPT !.pc = outcome, !.now = 0]
    <2>1. r \in Request
      BY <1>1 DEF Request, Responses, Pcs
    <2>2. /\ r.pc = outcome /\ r.tab = handler[h].tab
          /\ r.kind = handler[h].kind /\ r.email = handler[h].email
      BY <1>1 DEF Request
    <2>3. handler' = [handler EXCEPT ![h] = r]
      BY <1>2 DEF End
    <2> HIDE DEF r
    <2>4. Sound(r, accounts', cookie, checking)
      BY <1>1, <1>2, <2>2 DEF Sound, Responses
    <2>5. QED
      BY <1>2, <2>1, <2>2, <2>3, <2>4, OneGoesOn
  <1>3. CASE ~handler[h].tab
    <2>1. handler' = [handler EXCEPT ![h] = Idle]
      BY <1>3 DEF End
    <2>2. QED
      BY <2>1, IdleIsSound, OneGoesOn
  <1>4. QED
    BY <1>2, <1>3

\* Going on to a step before the response.
LEMMA GotoKeeps ==
  ASSUME SignInInv, NEW h \in Handlers,
         NEW pc \in Pcs \ (Responses \cup {"answering"}), Goto(h, pc),
         handler[h].pc # "idle", handler[h].kind \notin {"me", "logout"},
         pc = "matched" => handler[h].email \in accounts,
         UNCHANGED <<clock, accounts, cookie, user, checking, lost>>
  PROVE  SignInInv'
  <1> DEFINE r == [handler[h] EXCEPT !.pc = pc]
  <1>1. handler[h] \in Request /\ Sound(handler[h], accounts, cookie, checking)
    BY DEF SignInInv
  <1>2. r \in Request
    BY <1>1 DEF Request
  <1>3. /\ r.pc = pc /\ r.tab = handler[h].tab
        /\ r.kind = handler[h].kind /\ r.email = handler[h].email
    BY <1>1 DEF Request
  <1>4. handler' = [handler EXCEPT ![h] = r]
    BY DEF Goto
  <1> HIDE DEF r
  <1>5. Sound(r, accounts, cookie, checking)
    BY <1>1, <1>3 DEF Sound, Responses
  <1>6. accounts \subseteq accounts' /\ accounts' \subseteq Emails
        /\ Sound(r, accounts', cookie, checking)
    BY <1>5 DEF SignInInv
  <1>7. QED
    BY <1>2, <1>3, <1>4, <1>6, OneGoesOn

-----------------------------------------------------------------------------
(* The actions *)

\* A request starts: the tab's, when it awaits nothing, or another's.
LEMMA StartKeeps ==
  ASSUME SignInInv, NEW h \in Handlers, NEW kind \in Kinds \ {"none"},
         NEW email \in Emails \cup {NoEmail}, NEW tab \in BOOLEAN,
         Start(h, kind, email, tab),
         tab => OfTab = {},
         kind \in {"me", "logout"} => tab,
         tab => (kind = "me" <=> checking),
         kind = "me" => email = cookie,
         kind = "logout" => email = NoEmail,
         kind \notin {"me", "logout"} => email \in Emails,
         UNCHANGED <<clock, accounts, cookie, user, checking, lost>>
  PROVE  SignInInv'
  <1> DEFINE r == [pc |-> IF kind \in {"me", "logout"} THEN "answering" ELSE "arrived",
                   kind |-> kind, email |-> email, now |-> 0, tab |-> tab]
  <1>1. r \in Request
    BY DEF Request, Pcs
  <1>2. /\ r.pc = IF kind \in {"me", "logout"} THEN "answering" ELSE "arrived"
        /\ r.kind = kind /\ r.email = email /\ r.tab = tab
    OBVIOUS
  <1>3. handler' = [handler EXCEPT ![h] = r]
    BY DEF Start
  <1> HIDE DEF r
  <1>4. Sound(r, accounts', cookie, checking)
    BY <1>2 DEF Sound, Responses, Kinds
  <1>5. accounts \subseteq accounts' /\ accounts' \subseteq Emails
    BY DEF SignInInv
  <1>6. QED
    BY <1>1, <1>2, <1>3, <1>4, <1>5, OneGoesOn

\* Everything that starts a request.
LEMMA Starts ==
  ASSUME SignInInv, NEW h \in Handlers,
         \/ \E kind \in {"login", "register"}, email \in Emails :
              OtherRequest(h, kind, email) \/ Submit(h, kind, email)
         \/ CheckSession(h) \/ SignOut(h)
  PROVE  SignInInv'
  <1>1. ASSUME NEW kind \in {"login", "register"}, NEW email \in Emails,
               OtherRequest(h, kind, email)
        PROVE  SignInInv'
    BY <1>1, StartKeeps DEF OtherRequest, tabVars, Kinds
  <1>2. ASSUME NEW kind \in {"login", "register"}, NEW email \in Emails,
               Submit(h, kind, email)
        PROVE  SignInInv'
    BY <1>2, StartKeeps DEF Submit, tabVars, Kinds
  <1>3. CASE CheckSession(h)
    <2>1. cookie \in Emails \cup {NoEmail}
      BY DEF SignInInv
    <2>2. QED
      BY <1>3, <2>1, StartKeeps DEF CheckSession, tabVars, Kinds
  <1>4. CASE SignOut(h)
    <2>1. ~checking
      BY <1>4 DEF SignOut, SignInInv
    <2>2. QED
      BY <1>4, <2>1, StartKeeps DEF SignOut, tabVars, Kinds
  <1>5. QED
    BY <1>1, <1>2, <1>3, <1>4

\* The limiter: the clock is read, and the attempt admitted or refused.
LEMMA LimiterKeeps ==
  ASSUME SignInInv, NEW h \in Handlers, ReadClock(h) \/ CheckLimit(h)
  PROVE  SignInInv'
  <1>1. handler[h] \in Request /\ Sound(handler[h], accounts, cookie, checking)
    BY DEF SignInInv
  <1>2. /\ handler[h].pc \in {"arrived", "timed"}
        /\ handler[h].kind \notin {"me", "logout"}
    BY <1>1 DEF ReadClock, CheckLimit, Sound, Responses
  <1>3. UNCHANGED <<clock, accounts, cookie, user, checking, lost>>
    BY DEF ReadClock, CheckLimit, tabVars
  <1>4. accounts \subseteq accounts' /\ accounts' \subseteq Emails
    BY <1>3 DEF SignInInv
  <1>5. CASE ReadClock(h)
    <2> DEFINE r == [handler[h] EXCEPT !.pc = "timed", !.now = clock]
    <2>1. r \in Request
      BY <1>1 DEF Request, Pcs, SignInInv
    <2>2. /\ r.pc = "timed" /\ r.tab = handler[h].tab
          /\ r.kind = handler[h].kind /\ r.email = handler[h].email
      BY <1>1 DEF Request
    <2>3. handler' = [handler EXCEPT ![h] = r]
      BY <1>5 DEF ReadClock
    <2> HIDE DEF r
    <2>4. Sound(r, accounts', cookie, checking)
      BY <1>1, <1>2, <2>2 DEF Sound, Responses
    <2>5. QED
      BY <1>3, <1>4, <2>1, <2>2, <2>3, <2>4, OneGoesOn
  <1>6. CASE CheckLimit(h)
    <2>1. End(h, "refused") \/ Goto(h, "admitted")
      BY <1>6 DEF CheckLimit, Record
    <2>2. CASE End(h, "refused")
      BY <1>2, <1>3, <1>4, <2>2, EndKeeps DEF Responses
    <2>3. CASE Goto(h, "admitted")
      BY <1>2, <1>3, <2>3, GotoKeeps DEF Responses, Pcs
    <2>4. QED
      BY <2>1, <2>2, <2>3
  <1>7. QED
    BY <1>5, <1>6

\* Register and login: who is granted a session has an account.
LEMMA AccountKeeps ==
  ASSUME SignInInv, NEW h \in Handlers, LookUp(h) \/ CreateUser(h) \/ Reset(h)
  PROVE  SignInInv'
  <1>1. handler[h] \in Request /\ Sound(handler[h], accounts, cookie, checking)
    BY DEF SignInInv
  <1>2. /\ handler[h].pc \in {"admitted", "creating", "matched"}
        /\ handler[h].kind \notin {"me", "logout"}
    BY <1>1 DEF LookUp, CreateUser, Reset, Sound, Responses
  <1>3. UNCHANGED <<clock, cookie, user, checking, lost>>
    BY DEF LookUp, CreateUser, Reset, tabVars
  <1>4. accounts \subseteq Emails
    BY DEF SignInInv
  <1>5. CASE LookUp(h)
    <2>1. accounts' = accounts
      BY <1>5 DEF LookUp
    <2>2. \/ handler[h].email \in accounts /\ Goto(h, "matched")
          \/ End(h, "refused") \/ Goto(h, "creating")
      BY <1>5 DEF LookUp
    <2>3. CASE handler[h].email \in accounts /\ Goto(h, "matched")
      BY <1>2, <1>3, <2>1, <2>3, GotoKeeps DEF Responses, Pcs
    <2>4. CASE End(h, "refused")
      BY <1>2, <1>3, <1>4, <2>1, <2>4, EndKeeps DEF Responses
    <2>5. CASE Goto(h, "creating")
      BY <1>2, <1>3, <2>1, <2>5, GotoKeeps DEF Responses, Pcs
    <2>6. QED
      BY <2>2, <2>3, <2>4, <2>5
  <1>6. CASE CreateUser(h)
    <2>1. accounts' = accounts \cup {handler[h].email}
      BY <1>6 DEF CreateUser
    <2>2. handler[h].email \in Emails
      BY <1>1, <1>2 DEF Sound
    <2>3. QED
      BY <1>2, <1>3, <1>4, <1>6, <2>1, <2>2, EndKeeps DEF CreateUser, Responses
  <1>7. CASE Reset(h)
    <2>1. handler[h].email \in accounts
      BY <1>1, <1>2, <1>7 DEF Reset, Sound
    <2>2. accounts' = accounts /\ End(h, "granted")
      BY <1>7 DEF Reset
    <2>3. QED
      BY <1>2, <1>3, <1>4, <2>1, <2>2, EndKeeps DEF Responses
  <1>8. QED
    BY <1>5, <1>6, <1>7

\* The check of the session and the logout are answered.
LEMMA AnswerKeeps ==
  ASSUME SignInInv, NEW h \in Handlers, Answer(h)
  PROVE  SignInInv'
  <1> DEFINE outcome == IF handler[h].kind = "logout" \/ handler[h].email \in accounts
                        THEN "granted" ELSE "refused"
             r == [handler[h] EXCEPT !.pc = outcome, !.now = 0]
  <1>1. /\ handler[h] \in Request /\ Sound(handler[h], accounts, cookie, checking)
        /\ handler[h].pc = "answering" /\ handler[h].tab
        /\ handler[h].kind \in {"me", "logout"}
    BY DEF SignInInv, Sound, Answer, Responses
  <1>2. /\ outcome \in Responses
        /\ outcome = "refused" => handler[h].kind = "me" /\ handler[h].email \notin accounts
        /\ outcome = "granted" /\ handler[h].kind = "me" => handler[h].email \in accounts
    BY <1>1 DEF Responses
  <1>3. handler' = [handler EXCEPT ![h] = r]
    BY <1>1 DEF Answer, End
  <1> HIDE DEF outcome
  <1>4. r \in Request
    BY <1>1, <1>2 DEF Request, Responses, Pcs
  <1>5. /\ r.pc = outcome /\ r.tab = handler[h].tab
        /\ r.kind = handler[h].kind /\ r.email = handler[h].email
    BY <1>1 DEF Request
  <1> HIDE DEF r
  <1>6. UNCHANGED <<clock, accounts, cookie, user, checking, lost>>
    BY DEF Answer, tabVars
  <1>7. handler[h].email = cookie /\ outcome = "refused" => cookie = NoEmail
    BY <1>2 DEF SignInInv
  <1>8. Sound(r, accounts, cookie, checking)
    BY <1>1, <1>2, <1>5, <1>7 DEF Sound, Responses
  <1>9. accounts \subseteq accounts' /\ accounts' \subseteq Emails
        /\ Sound(r, accounts', cookie, checking)
    BY <1>6, <1>8 DEF SignInInv
  <1>10. QED
    BY <1>1, <1>3, <1>4, <1>5, <1>6, <1>9, OneGoesOn

-----------------------------------------------------------------------------
(* The tab *)

\* After an answer, or without one, the tab awaits nothing and every handler is
\* sound whatever the cookie has become.
LEMMA NothingAwaited ==
  ASSUME SignInInv,
         handler' \in [Handlers -> Request],
         \A h \in Handlers : ~handler'[h].tab,
         \A h \in Handlers : handler'[h] = handler[h] \/ handler'[h] = Idle
           \/ /\ handler'[h].pc = handler[h].pc /\ handler'[h].kind = handler[h].kind
              /\ handler'[h].email = handler[h].email
              /\ handler[h].pc \notin Responses \cup {"answering"},
         UNCHANGED <<clock, accounts>>,
         cookie' \in accounts \cup {NoEmail},
         checking' \in BOOLEAN, lost' \in BOOLEAN,
         checking' => user' = NoEmail,
         ~checking' /\ ~lost' => user' = cookie'
  PROVE  SignInInv'
  <1>1. ASSUME NEW h \in Handlers
        PROVE  Sound(handler'[h], accounts, cookie', checking')
    <2>1. Sound(handler[h], accounts, cookie, checking)
      BY DEF SignInInv
    <2>2. CASE handler'[h] = Idle
      BY <2>2, IdleIsSound
    <2>3. CASE handler'[h] # Idle
      BY <2>1, <2>3 DEF Sound, Responses
    <2>4. QED
      BY <2>2, <2>3
  <1>2. QED
    BY <1>1 DEF SignInInv

\* The response sets the cookie and the user together.
LEMMA RespondKeeps ==
  ASSUME SignInInv, NEW h \in Handlers, Respond(h)
  PROVE  SignInInv'
  <1>1. /\ handler[h] \in Request /\ Sound(handler[h], accounts, cookie, checking)
        /\ handler[h].pc \in Responses /\ handler[h].tab
    BY DEF SignInInv, Sound, Respond, Responses
  <1>2. /\ handler' = [handler EXCEPT ![h] = Idle]
        /\ checking' = FALSE /\ UNCHANGED <<clock, accounts, lost>>
    BY DEF Respond
  <1>3. /\ handler' \in [Handlers -> Request]
        /\ \A g \in Handlers : ~handler'[g].tab
        /\ \A g \in Handlers : handler'[g] = handler[g] \/ handler'[g] = Idle
    BY <1>1, <1>2, IdleIsSound DEF SignInInv
  <1>4. CASE handler[h].pc = "granted"
    <2>1. user' = handler[h].email /\ cookie' = handler[h].email
      BY <1>1, <1>4 DEF Respond, CookieAfter, Sound
    <2>2. cookie' \in accounts \cup {NoEmail}
      BY <1>1, <1>4, <2>1 DEF Sound
    <2>3. QED
      BY <1>2, <1>3, <2>1, <2>2, NothingAwaited DEF SignInInv
  <1>5. CASE handler[h].pc = "refused"
    <2>1. /\ cookie' = cookie
          /\ user' = IF handler[h].kind = "me" THEN NoEmail ELSE user
      BY <1>1, <1>5 DEF Respond, CookieAfter, Sound
    <2>2. ~lost => user' = cookie'
      BY <1>1, <1>5, <2>1 DEF Sound, SignInInv
    <2>3. QED
      BY <1>2, <1>3, <2>1, <2>2, NothingAwaited DEF SignInInv
  <1>6. QED
    BY <1>1, <1>4, <1>5 DEF Responses

\* Requests that are abandoned are no longer the tab's.
LEMMA AbandonedTypes ==
  ASSUME SignInInv, NEW H \in SUBSET Handlers, handler' = Abandoned(H)
  PROVE  /\ handler' \in [Handlers -> Request]
         /\ \A h \in H : ~handler'[h].tab
         /\ \A h \in Handlers \ H : handler'[h] = handler[h]
         /\ \A h \in Handlers : handler'[h] = handler[h] \/ handler'[h] = Idle
              \/ /\ handler'[h].pc = handler[h].pc /\ handler'[h].kind = handler[h].kind
                 /\ handler'[h].email = handler[h].email
                 /\ handler[h].pc \notin Responses \cup {"answering"}
  <1>1. ASSUME NEW h \in Handlers
        PROVE  LET r == Abandoned(H)[h] IN
               /\ r \in Request /\ (h \in H => ~r.tab) /\ (h \notin H => r = handler[h])
               /\ r = handler[h] \/ r = Idle
                    \/ /\ r.pc = handler[h].pc /\ r.kind = handler[h].kind
                       /\ r.email = handler[h].email
                       /\ handler[h].pc \notin Responses \cup {"answering"}
    <2>1. handler[h] \in Request
      BY DEF SignInInv
    <2>2. CASE h \notin H
      BY <2>1, <2>2 DEF Abandoned
    <2>3. CASE h \in H /\ handler[h].pc \in {"granted", "refused", "answering"}
      BY <2>3, IdleIsSound DEF Abandoned
    <2>4. CASE h \in H /\ handler[h].pc \notin {"granted", "refused", "answering"}
      <3> DEFINE r == [handler[h] EXCEPT !.tab = FALSE]
      <3>1. /\ r \in Request /\ r.tab = FALSE /\ r.pc = handler[h].pc
            /\ r.kind = handler[h].kind /\ r.email = handler[h].email
        BY <2>1 DEF Request
      <3>2. Abandoned(H)[h] = r
        BY <2>4 DEF Abandoned
      <3> HIDE DEF r
      <3>3. QED
        BY <2>4, <3>1, <3>2 DEF Responses
    <2>5. QED
      BY <2>2, <2>3, <2>4
  <1>2. handler' = [h \in Handlers |-> Abandoned(H)[h]]
    BY DEF Abandoned
  <1>3. QED
    BY <1>1, <1>2

\* The network fails, or the page is loaded again.
LEMMA ForgetKeeps ==
  ASSUME SignInInv, (\E h \in Handlers : Fail(h)) \/ Reload
  PROVE  SignInInv'
  <1>1. CASE \E h \in Handlers : Fail(h)
    <2>1. PICK h \in Handlers : Fail(h)
      BY <1>1
    <2>2. /\ handler[h].tab /\ handler' = Abandoned({h}) /\ {h} \in SUBSET Handlers
          /\ Sound(handler[h], accounts, cookie, checking)
          /\ UNCHANGED <<clock, accounts>> /\ checking' = FALSE
      BY <2>1 DEF Fail, SignInInv
    <2>3. /\ handler' \in [Handlers -> Request] /\ ~handler'[h].tab
          /\ \A g \in Handlers \ {h} : handler'[g] = handler[g]
          /\ \A g \in Handlers : handler'[g] = handler[g] \/ handler'[g] = Idle
               \/ /\ handler'[g].pc = handler[g].pc /\ handler'[g].kind = handler[g].kind
                  /\ handler'[g].email = handler[g].email
                  /\ handler[g].pc \notin Responses \cup {"answering"}
      BY <2>2, AbandonedTypes
    <2>4. \A g \in Handlers : ~handler'[g].tab
      BY <2>2, <2>3 DEF SignInInv
    <2>5. lost' \in BOOLEAN /\ (~lost' => user' = cookie')
      <3>1. CASE handler[h].kind \in {"me", "logout"}
        BY <2>1, <3>1 DEF Fail
      <3>2. CASE handler[h].kind \notin {"me", "logout"}
        <4>1. lost' = (lost \/ cookie' # cookie) /\ user' = user
          BY <2>1, <3>2 DEF Fail
        <4>2. ~checking
          BY <2>2, <3>2 DEF Sound
        <4>3. QED
          BY <4>1, <4>2 DEF SignInInv
      <3>3. QED
        BY <3>1, <3>2
    <2>6. cookie' \in accounts \cup {NoEmail}
      <3>1. cookie' = cookie \/ (handler[h].pc = "granted" /\ cookie' = CookieAfter(h))
        BY <2>1 DEF Fail
      <3>2. CASE handler[h].pc = "granted" /\ cookie' = CookieAfter(h)
        BY <2>2, <3>2 DEF CookieAfter, Sound
      <3>3. QED
        BY <3>1, <3>2 DEF SignInInv
    <2>7. QED
      BY <2>2, <2>3, <2>4, <2>5, <2>6, NothingAwaited
  <1>2. CASE Reload
    <2>1. /\ handler' = Abandoned(OfTab) /\ OfTab \in SUBSET Handlers
          /\ UNCHANGED <<clock, accounts, cookie>>
          /\ checking' = TRUE /\ lost' = FALSE /\ user' = NoEmail
      BY <1>2 DEF Reload, OfTab
    <2>2. /\ handler' \in [Handlers -> Request]
          /\ \A g \in OfTab : ~handler'[g].tab
          /\ \A g \in Handlers \ OfTab : handler'[g] = handler[g]
          /\ \A g \in Handlers : handler'[g] = handler[g] \/ handler'[g] = Idle
               \/ /\ handler'[g].pc = handler[g].pc /\ handler'[g].kind = handler[g].kind
                  /\ handler'[g].email = handler[g].email
                  /\ handler[g].pc \notin Responses \cup {"answering"}
      BY <2>1, AbandonedTypes
    <2>3. \A g \in Handlers : ~handler'[g].tab
      <3>1. \A g \in Handlers \ OfTab : ~handler[g].tab
        BY DEF OfTab, SignInInv, Request
      <3>2. QED
        BY <2>2, <3>1
    <2>4. cookie' \in accounts \cup {NoEmail}
      BY <2>1 DEF SignInInv
    <2>5. QED
      BY <2>1, <2>2, <2>3, <2>4, NothingAwaited
  <1>3. QED
    BY <1>1, <1>2

\* SignInInv is inductive.
LEMMA SignInStep == SignInInv /\ [Next]_vars => SignInInv'
  <1> SUFFICES ASSUME SignInInv, [Next]_vars
               PROVE  SignInInv'
    OBVIOUS
  <1>1. CASE Tick
    BY <1>1 DEF Tick, tabVars, SignInInv
  <1>2. CASE Reload
    BY <1>2, ForgetKeeps
  <1>3. ASSUME NEW h \in Handlers,
               \/ \E kind \in {"login", "register"}, email \in Emails :
                    OtherRequest(h, kind, email) \/ Submit(h, kind, email)
               \/ CheckSession(h) \/ SignOut(h)
        PROVE  SignInInv'
    BY <1>3, Starts
  <1>4. ASSUME NEW h \in Handlers, ReadClock(h) \/ CheckLimit(h)
        PROVE  SignInInv'
    BY <1>4, LimiterKeeps
  <1>5. ASSUME NEW h \in Handlers, LookUp(h) \/ CreateUser(h) \/ Reset(h)
        PROVE  SignInInv'
    BY <1>5, AccountKeeps
  <1>6. ASSUME NEW h \in Handlers, Answer(h)
        PROVE  SignInInv'
    BY <1>6, AnswerKeeps
  <1>7. ASSUME NEW h \in Handlers, Respond(h)
        PROVE  SignInInv'
    BY <1>7, RespondKeeps
  <1>8. ASSUME NEW h \in Handlers, Fail(h)
        PROVE  SignInInv'
    BY <1>8, ForgetKeeps
  <1>9. CASE UNCHANGED vars
    BY <1>9 DEF vars, tabVars, SignInInv
  <1>10. QED
    BY <1>1, <1>2, <1>3, <1>4, <1>5, <1>6, <1>7, <1>8, <1>9 DEF Next

-----------------------------------------------------------------------------
(* The sliding window *)

Times == 0..MaxTime

\* What makes WindowBound inductive: the recorded attempts of a key are the
\* last of all that were admitted, in the order of their times, and those that
\* are no longer recorded have expired.
Tracks(recent, all, last) ==
  /\ \A i, j \in 1..Len(all) : i <= j => all[i] <= all[j]
  /\ \A i \in 1..Len(all) : all[i] <= last
  /\ Len(recent) <= Len(all)
  /\ \A i \in 1..Len(recent) : recent[i] = all[Len(all) - Len(recent) + i]
  /\ \A i \in 1..Len(all) - Len(recent) : Expired(all[i], last)

\* The attempts of a sequence that lie in the window from a time.
InWindow(all, from) ==
  {i \in 1..Len(all) : from <= all[i] /\ all[i] <= from + Window}

LimiterInv ==
  /\ SignInInv
  /\ user \in Emails \cup {NoEmail} /\ tabOpen \in BOOLEAN
  /\ clock \in Times /\ \A h \in Handlers : handler[h].now \in Times
  /\ hits \in [Keys -> Seq(Times)] /\ \A k \in Keys : Len(hits[k]) <= MaxAttempts
  /\ admitted \in [Keys -> Seq(Times)]
  /\ latest \in [{"login", "register"} -> Times] /\ ordered \in BOOLEAN
  /\ ordered => \A k \in Keys :
       /\ Tracks(hits[k], admitted[k], latest[k[1]])
       /\ \A from \in Times : Cardinality(InWindow(admitted[k], from)) <= MaxAttempts

\* A set of numbers with a member has a least one.
LEMMA LeastOf ==
  ASSUME NEW S \in SUBSET Nat, S # {}
  PROVE  Min(S) \in S /\ \A i \in S : Min(S) <= i
  <1> DEFINE UpTo(i) == 0..i
             T == {UpTo(i) : i \in S}
  <1>1. \A i \in S : UpTo(i) \in FiniteSubsetsOf(Nat) /\ UpTo(i) \in T
    BY FS_Interval DEF FiniteSubsetsOf
  <1>2. T # {} /\ T \subseteq FiniteSubsetsOf(Nat)
    BY <1>1
  <1>3. PICK low \in T : \A other \in T : ~(<<other, low>> \in StrictSubsetOrdering(Nat))
    <2> HIDE DEF T
    <2>1. QED
      BY <1>2, FS_StrictSubsetOrderingWellFounded, WFMin
  <1>4. PICK x \in S : low = UpTo(x)
    BY <1>3
  <1>5. ASSUME NEW y \in S
        PROVE  x =< y
    <2>1. UpTo(y) \in T /\ UpTo(y) \in SUBSET Nat /\ low \in SUBSET Nat
      BY <1>1, <1>4
    <2>2. ~(UpTo(y) \subseteq low /\ UpTo(y) # low)
      BY <1>3, <2>1 DEF StrictSubsetOrdering
    <2>3. CASE y < x
      <3>1. UpTo(y) \subseteq UpTo(x) /\ x \in UpTo(x) /\ x \notin UpTo(y)
        BY <2>3
      <3>2. QED
        BY <1>4, <2>2, <3>1
    <2>4. QED
      BY <2>3
  <1>6. \E z \in S : \A y \in S : z =< y
    BY <1>5
  <1>7. QED
    BY <1>6 DEF Min

\* A sequence of times.
LEMMA TimesAreNumbers ==
  ASSUME NEW s \in Seq(Times)
  PROVE  Len(s) \in Nat /\ \A i \in 1..Len(s) : s[i] \in Times /\ s[i] \in Nat
  <1>1. Len(s) \in Nat /\ \A i \in 1..Len(s) : s[i] \in Times
    OBVIOUS
  <1>2. QED
    BY <1>1 DEF Times

\* Time goes by: what was forgotten has still expired.
LEMMA LaterTracks ==
  ASSUME NEW recent \in Seq(Times), NEW all \in Seq(Times), NEW last \in Times,
         NEW now \in Times, last <= now, Tracks(recent, all, last)
  PROVE  Tracks(recent, all, now)
  <1>1. /\ Len(all) \in Nat /\ \A i \in 1..Len(all) : all[i] \in Nat
        /\ last \in Nat /\ now \in Nat /\ Window \in Nat /\ Len(recent) \in Nat
    BY TimesAreNumbers, AccountsAssumption DEF Times
  <1>2. \A i \in 1..Len(all) : all[i] <= now
    BY <1>1 DEF Tracks
  <1>3. \A i \in 1..Len(all) - Len(recent) : i \in 1..Len(all)
    BY <1>1
  <1>4. \A i \in 1..Len(all) - Len(recent) : Expired(all[i], now)
    BY <1>1, <1>3 DEF Tracks, Expired
  <1>5. QED
    BY <1>2, <1>4 DEF Tracks

\* A key whose last attempt has expired can be forgotten.
LEMMA EvictedTracks ==
  ASSUME NEW recent \in Seq(Times), NEW all \in Seq(Times), NEW now \in Times,
         Tracks(recent, all, now), recent # <<>>, Expired(recent[Len(recent)], now)
  PROVE  Tracks(<<>>, all, now)
  <1>1. /\ \A i \in 1..Len(all) : all[i] \in Nat
        /\ Len(recent) \in Nat \ {0} /\ Len(all) \in Nat /\ Len(recent) <= Len(all)
    BY TimesAreNumbers DEF Tracks
  <1>2. recent[Len(recent)] = all[Len(all)]
    BY <1>1 DEF Tracks
  <1>3. ASSUME NEW i \in 1..Len(all)
        PROVE  Expired(all[i], now)
    <2>1. all[i] <= all[Len(all)] /\ all[i] \in Nat /\ all[Len(all)] \in Nat
      BY <1>1 DEF Tracks
    <2>2. now \in Nat /\ Window \in Nat
      BY AccountsAssumption DEF Times
    <2>3. QED
      BY <1>2, <2>1, <2>2 DEF Expired
  <1>4. QED
    BY <1>1, <1>3 DEF Tracks

\* The rest of a sequence, from a place on.
LEMMA From ==
  ASSUME NEW S, NEW s \in Seq(S), NEW p \in 1..Len(s)
  PROVE  LET rest == SubSeq(s, p, Len(s)) IN
         /\ rest \in Seq(S) /\ Len(rest) = Len(s) - p + 1
         /\ \A i \in 1..Len(rest) : rest[i] = s[p + i - 1]
  <1>1. Len(s) \in Nat /\ p \in Int /\ Len(s) \in Int /\ \A i \in p..Len(s) : s[i] \in S
    OBVIOUS
  <1>2. QED
    BY <1>1, SubSeqProperties

\* Trimming drops some of the attempts.
LEMMA TrimmedTypes ==
  ASSUME NEW recent \in Seq(Times), NEW now \in Times
  PROVE  /\ Trimmed(recent, now) \in Seq(Times)
         /\ Len(Trimmed(recent, now)) <= Len(recent)
  <1> DEFINE fresh == {i \in 1..Len(recent) : ~Expired(recent[i], now)}
  <1>1. Len(recent) \in Nat /\ fresh \in SUBSET Nat /\ fresh \subseteq 1..Len(recent)
    BY TimesAreNumbers
  <1>2. CASE fresh = {}
    BY <1>1, <1>2 DEF Trimmed
  <1>3. CASE fresh # {}
    <2>1. Min(fresh) \in 1..Len(recent)
      BY <1>1, <1>3, LeastOf
    <2>2. Trimmed(recent, now) = SubSeq(recent, Min(fresh), Len(recent))
      BY <1>3 DEF Trimmed
    <2> HIDE DEF fresh
    <2>3. /\ SubSeq(recent, Min(fresh), Len(recent)) \in Seq(Times)
          /\ Len(SubSeq(recent, Min(fresh), Len(recent))) = Len(recent) - Min(fresh) + 1
      BY <2>1, From
    <2>4. QED
      BY <1>1, <2>1, <2>2, <2>3
  <1>4. QED
    BY <1>2, <1>3

\* It drops what has expired, and nothing else, because the attempts are in
\* order.
LEMMA TrimmedTracks ==
  ASSUME NEW recent \in Seq(Times), NEW all \in Seq(Times), NEW now \in Times,
         Tracks(recent, all, now)
  PROVE  /\ Tracks(Trimmed(recent, now), all, now)
         /\ \A i \in 1..Len(Trimmed(recent, now)) : ~Expired(Trimmed(recent, now)[i], now)
  <1> DEFINE fresh == {i \in 1..Len(recent) : ~Expired(recent[i], now)}
             left == Trimmed(recent, now)
             dropped == Len(all) - Len(recent)
  <1>1. /\ Len(recent) \in Nat /\ Len(all) \in Nat /\ Len(recent) <= Len(all)
        /\ \A i \in 1..Len(all) : all[i] \in Nat
        /\ \A i \in 1..Len(recent) : recent[i] = all[dropped + i] /\ dropped + i \in 1..Len(all)
        /\ dropped \in Nat
    BY TimesAreNumbers DEF Tracks
  <1>2. CASE fresh = {}
    <2>1. left = <<>> /\ \A i \in 1..Len(recent) : Expired(recent[i], now)
      BY <1>2 DEF Trimmed
    <2>2. ASSUME NEW i \in 1..Len(all)
          PROVE  Expired(all[i], now)
      <3>1. CASE i <= dropped
        BY <1>1, <3>1 DEF Tracks
      <3>2. CASE i > dropped
        <4>1. i - dropped \in 1..Len(recent) /\ dropped + (i - dropped) = i
          BY <1>1, <3>2
        <4>2. QED
          BY <1>1, <2>1, <4>1
      <3>3. QED
        BY <1>1, <3>1, <3>2
    <2>3. QED
      BY <1>1, <2>1, <2>2 DEF Tracks
  <1>3. CASE fresh # {}
    <2>1. PICK p \in fresh : left = SubSeq(recent, p, Len(recent)) /\ \A i \in fresh : p <= i
      <3>1. fresh \in SUBSET Nat
        BY <1>1
      <3>2. Min(fresh) \in fresh /\ \A i \in fresh : Min(fresh) <= i
        BY <1>3, <3>1, LeastOf
      <3>3. left = SubSeq(recent, Min(fresh), Len(recent))
        BY <1>3 DEF Trimmed
      <3>4. QED
        BY <3>2, <3>3
    <2>2. p \in 1..Len(recent) /\ ~Expired(recent[p], now)
      BY <2>1
    <2>3. /\ left \in Seq(Times) /\ Len(left) = Len(recent) - p + 1
          /\ \A i \in 1..Len(left) : left[i] = recent[p + i - 1]
      BY <2>1, <2>2, From
    <2>4. \A i \in 1..p - 1 : Expired(recent[i], now)
      <3>1. ASSUME NEW i \in 1..p - 1, ~Expired(recent[i], now)
            PROVE  FALSE
        <4>1. i \in 1..Len(recent) /\ i < p
          BY <1>1, <2>2
        <4>2. i \in fresh
          BY <3>1, <4>1
        <4>3. QED
          BY <2>1, <2>2, <4>1, <4>2
      <3>2. QED
        BY <3>1
    <2> HIDE DEF fresh, left, dropped
    <2>5. ASSUME NEW i \in 1..Len(left)
          PROVE  left[i] = all[Len(all) - Len(left) + i] /\ ~Expired(left[i], now)
      <3>1. /\ p + i - 1 \in 1..Len(recent) /\ p <= p + i - 1
            /\ left[i] = recent[p + i - 1]
        BY <1>1, <2>2, <2>3
      <3>2. left[i] = all[dropped + (p + i - 1)]
        BY <1>1, <3>1
      <3>3. dropped + (p + i - 1) = Len(all) - Len(left) + i
        BY <1>1, <2>2, <2>3 DEF dropped
      <3>4. /\ dropped + p \in 1..Len(all) /\ dropped + (p + i - 1) \in 1..Len(all)
            /\ dropped + p <= dropped + (p + i - 1)
        BY <1>1, <2>2, <3>1 DEF dropped
      <3>5. recent[p] <= left[i] /\ recent[p] \in Nat /\ left[i] \in Nat
        <4>1. all[dropped + p] <= all[dropped + (p + i - 1)]
          BY <3>4 DEF Tracks
        <4>2. recent[p] = all[dropped + p]
          BY <1>1, <2>2
        <4>3. QED
          BY <1>1, <3>2, <3>4, <4>1, <4>2
      <3>6. now \in Nat /\ Window \in Nat
        BY AccountsAssumption DEF Times
      <3>7. QED
        BY <2>2, <3>2, <3>3, <3>5, <3>6 DEF Expired
    <2>6. ASSUME NEW i \in 1..Len(all) - Len(left)
          PROVE  Expired(all[i], now)
      <3>1. CASE i <= dropped
        BY <1>1, <2>3, <3>1 DEF Tracks, dropped
      <3>2. CASE i > dropped
        <4>1. i - dropped \in 1..p - 1 /\ i - dropped \in 1..Len(recent)
              /\ dropped + (i - dropped) = i
          BY <1>1, <2>2, <2>3, <3>2 DEF dropped
        <4>2. recent[i - dropped] = all[i]
          BY <1>1, <4>1
        <4>3. QED
          BY <2>4, <4>1, <4>2
      <3>3. i \in Int /\ dropped \in Int
        BY <1>1
      <3>4. QED
        BY <3>1, <3>2, <3>3
    <2>7. Tracks(left, all, now)
      <3>1. Len(left) <= Len(all)
        BY <1>1, <2>2, <2>3
      <3>2. /\ \A i, j \in 1..Len(all) : i <= j => all[i] <= all[j]
            /\ \A i \in 1..Len(all) : all[i] <= now
        BY DEF Tracks
      <3>3. QED
        BY <2>5, <2>6, <3>1, <3>2 DEF Tracks
    <2>8. QED
      BY <2>5, <2>7 DEF left
  <1>4. QED
    BY <1>2, <1>3

\* An attempt that is admitted is recorded at the end of both.
LEMMA AdmittedTracks ==
  ASSUME NEW recent \in Seq(Times), NEW all \in Seq(Times), NEW now \in Times,
         Tracks(recent, all, now)
  PROVE  Tracks(Append(recent, now), Append(all, now), now)
  <1>1. /\ Len(recent) \in Nat /\ Len(all) \in Nat /\ Len(recent) <= Len(all) /\ now \in Nat
        /\ \A i \in 1..Len(all) : all[i] \in Nat /\ all[i] <= now
    BY TimesAreNumbers DEF Tracks, Times
  <1>2. /\ Len(Append(recent, now)) = Len(recent) + 1 /\ Len(Append(all, now)) = Len(all) + 1
        /\ \A i \in 1..Len(recent) : Append(recent, now)[i] = recent[i]
        /\ \A i \in 1..Len(all) : Append(all, now)[i] = all[i]
        /\ Append(recent, now)[Len(recent) + 1] = now
        /\ Append(all, now)[Len(all) + 1] = now
    BY AppendProperties
  <1> DEFINE more == Append(recent, now)
             every == Append(all, now)
  <1> HIDE DEF more, every
  <1>3. \A i, j \in 1..Len(every) : i <= j => every[i] <= every[j]
    <2>1. ASSUME NEW i \in 1..Len(every), NEW j \in 1..Len(every), i <= j
          PROVE  every[i] <= every[j]
      <3>1. CASE j = Len(all) + 1
        BY <1>1, <1>2, <2>1, <3>1 DEF every
      <3>2. CASE j # Len(all) + 1
        BY <1>1, <1>2, <2>1, <3>2 DEF every, Tracks
      <3>3. QED
        BY <3>1, <3>2
    <2>2. QED
      BY <2>1
  <1>4. \A i \in 1..Len(every) : every[i] <= now
    BY <1>1, <1>2 DEF every
  <1>5. \A i \in 1..Len(more) : more[i] = every[Len(every) - Len(more) + i]
    <2>1. ASSUME NEW i \in 1..Len(more)
          PROVE  more[i] = every[Len(every) - Len(more) + i]
      <3>1. CASE i = Len(recent) + 1
        BY <1>1, <1>2, <3>1 DEF more, every
      <3>2. CASE i # Len(recent) + 1
        <4>1. /\ i \in 1..Len(recent) /\ Len(all) - Len(recent) + i \in 1..Len(all)
              /\ Len(every) - Len(more) + i = Len(all) - Len(recent) + i
          BY <1>1, <1>2, <3>2 DEF more, every
        <4>2. QED
          BY <1>2, <4>1 DEF more, every, Tracks
      <3>3. QED
        BY <3>1, <3>2
    <2>2. QED
      BY <2>1
  <1>6. \A i \in 1..Len(every) - Len(more) : Expired(every[i], now)
    BY <1>1, <1>2 DEF more, every, Tracks
  <1>7. Len(more) <= Len(every)
    BY <1>1, <1>2 DEF more, every
  <1>8. QED
    BY <1>3, <1>4, <1>5, <1>6, <1>7 DEF Tracks, more, every

\* A window that holds the new attempt holds, of the others, only recorded
\* ones: no window comes to hold more than are recorded.
LEMMA WindowStays ==
  ASSUME NEW recent \in Seq(Times), NEW all \in Seq(Times), NEW now \in Times,
         Tracks(recent, all, now), Len(recent) < MaxAttempts, NEW from \in Times,
         Cardinality(InWindow(all, from)) <= MaxAttempts
  PROVE  Cardinality(InWindow(Append(all, now), from)) <= MaxAttempts
  <1> DEFINE every == Append(all, now)
             low == Len(all) - Len(recent) + 1
             high == Len(all) + 1
  <1>1. /\ Len(recent) \in Nat /\ Len(all) \in Nat /\ Len(recent) <= Len(all)
        /\ now \in Nat /\ from \in Nat /\ Window \in Nat /\ MaxAttempts \in Nat
        /\ \A i \in 1..Len(all) : all[i] \in Nat /\ all[i] <= now
    BY TimesAreNumbers, AccountsAssumption DEF Tracks, Times
  <1>2. /\ Len(every) = Len(all) + 1 /\ every[Len(all) + 1] = now
        /\ \A i \in 1..Len(all) : every[i] = all[i]
    BY AppendProperties
  <1> HIDE DEF every
  <1>3. CASE ~(from <= now /\ now <= from + Window)
    <2>1. InWindow(every, from) = InWindow(all, from)
      BY <1>1, <1>2, <1>3 DEF InWindow
    <2>2. QED
      BY <2>1 DEF every
  <1>4. CASE now <= from + Window
    <2>1. ASSUME NEW i \in InWindow(every, from)
          PROVE  i \in low..high
      <3>1. i \in 1..Len(all) + 1 /\ from <= every[i]
        BY <1>2 DEF InWindow
      <3>2. CASE i \in 1..Len(all)
        <4>1. ~Expired(all[i], now)
          BY <1>1, <1>2, <1>4, <3>1, <3>2 DEF Expired
        <4>2. i \notin 1..Len(all) - Len(recent)
          BY <4>1 DEF Tracks
        <4>3. QED
          BY <1>1, <3>2, <4>2
      <3>3. QED
        BY <1>1, <3>1, <3>2
    <2>2. /\ IsFiniteSet(low..high) /\ Cardinality(low..high) = Len(recent) + 1
      BY <1>1, FS_Interval
    <2>3. Cardinality(InWindow(every, from)) <= Cardinality(low..high)
          /\ Cardinality(InWindow(every, from)) \in Nat
      BY <2>1, <2>2, FS_Subset, FS_CardinalityType
    <2>4. QED
      BY <1>1, <2>2, <2>3 DEF every
  <1>5. QED
    BY <1>3, <1>4

\* As many attempts count against a key as are recorded and have not expired.
LEMMA RecordedCount ==
  ASSUME NEW recent \in Seq(Times), NEW all \in Seq(Times), NEW now \in Times,
         Tracks(recent, all, now), \A i \in 1..Len(recent) : ~Expired(recent[i], now)
  PROVE  Cardinality({i \in 1..Len(all) : ~Expired(all[i], now)}) >= Len(recent)
  <1> DEFINE low == Len(all) - Len(recent) + 1
             counted == {i \in 1..Len(all) : ~Expired(all[i], now)}
  <1>1. Len(recent) \in Nat /\ Len(all) \in Nat /\ Len(recent) <= Len(all)
    BY TimesAreNumbers DEF Tracks
  <1>2. ASSUME NEW i \in low..Len(all)
        PROVE  i \in counted
    <2>1. /\ i - (low - 1) \in 1..Len(recent) /\ i \in 1..Len(all)
          /\ Len(all) - Len(recent) + (i - (low - 1)) = i
      BY <1>1
    <2>2. recent[i - (low - 1)] = all[i]
      BY <2>1 DEF Tracks
    <2>3. QED
      BY <2>1, <2>2
  <1>3. Cardinality(low..Len(all)) = Len(recent)
    <2>1. low \in Int /\ Len(all) \in Int
          /\ (IF low > Len(all) THEN 0 ELSE Len(all) - low + 1) = Len(recent)
      BY <1>1
    <2> HIDE DEF low
    <2>2. QED
      BY <2>1, FS_Interval
  <1>4. IsFiniteSet(1..Len(all)) /\ counted \in SUBSET (1..Len(all))
    BY <1>1, FS_Interval
  <1>5. IsFiniteSet(counted) /\ low..Len(all) \in SUBSET counted
    BY <1>2, <1>4, FS_Subset
  <1>6. Cardinality(low..Len(all)) <= Cardinality(counted)
    BY <1>5, FS_Subset
  <1>7. Cardinality(counted) \in Nat
    BY <1>5, FS_CardinalityType
  <1>8. QED
    BY <1>1, <1>3, <1>6, <1>7

-----------------------------------------------------------------------------
(* LimiterInv is inductive *)

\* Whoever is before the limiter, or past it, has a key.
LEMMA KeyIs ==
  ASSUME SignInInv, NEW h \in Handlers, handler[h].pc \in {"timed", "matched"}
  PROVE  KeyOf(h) \in Keys /\ KeyOf(h)[1] \in {"login", "register"}
  <1>1. handler[h] \in Request /\ Sound(handler[h], accounts, cookie, checking)
    BY DEF SignInInv
  <1>2. handler[h].email \in Emails
    BY <1>1 DEF Sound, Responses
  <1>3. QED
    BY <1>2 DEF KeyOf, Keys

\* A key is of one of the limiters.
LEMMA KeysOfLimiters == \A k \in Keys : k[1] \in {"login", "register"}
  BY DEF Keys

\* The history after a check.
LEMMA RememberTypes ==
  ASSUME LimiterInv, NEW k \in Keys, NEW now \in Times, NEW attempts \in Seq(Times),
         Remember(k, now, attempts)
  PROVE  /\ admitted' \in [Keys -> Seq(Times)] /\ ordered' \in BOOLEAN
         /\ latest' \in [{"login", "register"} -> Times]
         /\ ordered' =>
              /\ ordered /\ latest[k[1]] <= now
              /\ \A l \in Keys : latest'[l[1]] = IF l[1] = k[1] THEN now ELSE latest[l[1]]
              /\ admitted'[k] = admitted[k] \o attempts
              /\ \A l \in Keys \ {k} : admitted'[l] = admitted[l]
  <1>1. k[1] \in {"login", "register"} /\ \A l \in Keys : l[1] \in {"login", "register"}
    BY KeysOfLimiters
  <1>2. 0 \in Times
    BY AccountsAssumption DEF Times
  <1>3. admitted[k] \o attempts \in Seq(Times)
    BY ConcatProperties DEF LimiterInv
  <1>4. CASE InOrder(k, now)
    BY <1>1, <1>3, <1>4 DEF Remember, InOrder, LimiterInv
  <1>5. CASE ~InOrder(k, now)
    <2>1. Nothing \in [Keys -> Seq(Times)]
      BY DEF Nothing
    <2>2. Beginning \in [{"login", "register"} -> Times]
      BY <1>2 DEF Beginning
    <2>3. ordered' = FALSE /\ admitted' = Nothing /\ latest' = Beginning
      BY <1>5 DEF Remember, InOrder, LimiterInv
    <2>4. QED
      BY <2>1, <2>2, <2>3
  <1>6. QED
    BY <1>4, <1>5

\* Eviction drops whole keys of this limiter, whose last attempt has expired.
LEMMA EvictedIs ==
  ASSUME LimiterInv, NEW k \in Keys, NEW now \in Times
  PROVE  /\ EvictStale(k, now) \in [Keys -> Seq(Times)]
         /\ \A l \in Keys :
              \/ EvictStale(k, now)[l] = hits[l]
              \/ /\ EvictStale(k, now)[l] = <<>> /\ hits[l] # <<>> /\ l[1] = k[1]
                 /\ Expired(hits[l][Len(hits[l])], now)
  <1> DEFINE tracked == {l \in Keys : l[1] = k[1] /\ hits[l] # <<>>}
  <1>1. hits \in [Keys -> Seq(Times)]
    BY DEF LimiterInv
  <1>2. CASE Cardinality(tracked) <= MaxTracked
    BY <1>1, <1>2 DEF EvictStale
  <1>3. CASE ~(Cardinality(tracked) <= MaxTracked)
    <2>1. EvictStale(k, now) =
            [l \in Keys |-> IF l \in tracked /\ Expired(hits[l][Len(hits[l])], now)
                            THEN <<>> ELSE hits[l]]
      BY <1>3 DEF EvictStale
    <2>2. \A l \in tracked : l[1] = k[1] /\ hits[l] # <<>>
      OBVIOUS
    <2> HIDE DEF tracked
    <2>3. QED
      BY <1>1, <2>1, <2>2
  <1>4. QED
    BY <1>2, <1>3

\* What check keeps of the recorded attempts.
Kept(k, now) == [EvictStale(k, now) EXCEPT ![k] = Trimmed(@, now)]

\* It is well typed, no longer than before, and for a check in order still the
\* end of what was admitted; of this key, what has not expired.
LEMMA KeptIs ==
  ASSUME LimiterInv, NEW k \in Keys, NEW now \in Times
  PROVE  /\ Kept(k, now) \in [Keys -> Seq(Times)]
         /\ \A l \in Keys : Len(Kept(k, now)[l]) <= MaxAttempts
         /\ InOrder(k, now) => \A l \in Keys :
              Tracks(Kept(k, now)[l], admitted[l], IF l[1] = k[1] THEN now ELSE latest[l[1]])
         /\ InOrder(k, now) =>
              \A i \in 1..Len(Kept(k, now)[k]) : ~Expired(Kept(k, now)[k][i], now)
  <1> DEFINE evicted == EvictStale(k, now)
             kept == Kept(k, now)
  <1>1. /\ evicted \in [Keys -> Seq(Times)]
        /\ \A l \in Keys :
             \/ evicted[l] = hits[l]
             \/ /\ evicted[l] = <<>> /\ hits[l] # <<>> /\ l[1] = k[1]
                /\ Expired(hits[l][Len(hits[l])], now)
    BY EvictedIs
  <1>2. /\ hits \in [Keys -> Seq(Times)] /\ admitted \in [Keys -> Seq(Times)]
        /\ \A l \in Keys : Len(hits[l]) \in Nat /\ Len(hits[l]) <= MaxAttempts
        /\ MaxAttempts \in Nat
    BY AccountsAssumption DEF LimiterInv
  <1> HIDE DEF evicted
  <1>3. \A l \in Keys : Len(evicted[l]) \in Nat /\ Len(evicted[l]) <= MaxAttempts
    BY <1>1, <1>2
  <1>4. /\ Trimmed(evicted[k], now) \in Seq(Times)
        /\ Len(Trimmed(evicted[k], now)) <= Len(evicted[k])
        /\ Len(Trimmed(evicted[k], now)) \in Nat
    BY <1>1, TrimmedTypes
  <1>5. /\ kept \in [Keys -> Seq(Times)] /\ kept[k] = Trimmed(evicted[k], now)
        /\ \A l \in Keys \ {k} : kept[l] = evicted[l]
    BY <1>1, <1>4 DEF Kept, evicted
  <1>6. ASSUME NEW l \in Keys
        PROVE  Len(kept[l]) <= MaxAttempts
    <2>1. CASE l = k
      <3>1. /\ Len(evicted[k]) \in Nat /\ Len(evicted[k]) <= MaxAttempts
            /\ Len(kept[l]) = Len(Trimmed(evicted[k], now))
        BY <1>3, <1>5, <2>1
      <3>2. QED
        BY <1>2, <1>4, <3>1
    <2>2. CASE l # k
      BY <1>3, <1>5, <2>2
    <2>3. QED
      BY <2>1, <2>2
  <1>7. ASSUME InOrder(k, now), NEW l \in Keys
        PROVE  Tracks(evicted[l], admitted[l], IF l[1] = k[1] THEN now ELSE latest[l[1]])
    <2>1. /\ Tracks(hits[l], admitted[l], latest[l[1]])
          /\ latest[l[1]] \in Times /\ latest[k[1]] <= now
      BY <1>7, KeysOfLimiters DEF LimiterInv, InOrder
    <2>2. CASE l[1] # k[1]
      BY <1>1, <2>1, <2>2
    <2>3. CASE l[1] = k[1]
      <3>1. Tracks(hits[l], admitted[l], now)
        BY <1>2, <2>1, <2>3, LaterTracks
      <3>2. CASE evicted[l] = hits[l]
        BY <2>3, <3>1, <3>2
      <3>3. CASE evicted[l] = <<>> /\ hits[l] # <<>> /\ Expired(hits[l][Len(hits[l])], now)
        BY <1>2, <2>3, <3>1, <3>3, EvictedTracks
      <3>4. QED
        BY <1>1, <3>2, <3>3
    <2>4. QED
      BY <2>2, <2>3
  <1>8. ASSUME InOrder(k, now)
        PROVE  /\ Tracks(kept[k], admitted[k], now)
               /\ \A i \in 1..Len(kept[k]) : ~Expired(kept[k][i], now)
    <2>1. Tracks(evicted[k], admitted[k], now)
      BY <1>7, <1>8
    <2>2. evicted[k] \in Seq(Times) /\ admitted[k] \in Seq(Times)
      BY <1>1, <1>2
    <2>3. QED
      BY <1>5, <2>1, <2>2, TrimmedTracks
  <1> HIDE DEF kept
  <1>9. ASSUME InOrder(k, now), NEW l \in Keys
        PROVE  Tracks(kept[l], admitted[l], IF l[1] = k[1] THEN now ELSE latest[l[1]])
    BY <1>5, <1>7, <1>8, <1>9
  <1>10. QED
    BY <1>5, <1>6, <1>8, <1>9 DEF kept

\* A check in order leaves the end of the attempts recorded, and no window with
\* more than the allowance.
LEMMA CheckTracks ==
  ASSUME LimiterInv, NEW h \in Handlers, CheckLimit(h)
  PROVE  /\ hits' \in [Keys -> Seq(Times)] /\ \A l \in Keys : Len(hits'[l]) <= MaxAttempts
         /\ admitted' \in [Keys -> Seq(Times)]
         /\ latest' \in [{"login", "register"} -> Times] /\ ordered' \in BOOLEAN
         /\ ordered' => \A l \in Keys :
              /\ Tracks(hits'[l], admitted'[l], latest'[l[1]])
              /\ \A from \in Times : Cardinality(InWindow(admitted'[l], from)) <= MaxAttempts
  <1> DEFINE k == KeyOf(h)
             now == handler[h].now
             kept == Kept(k, now)
  <1>1. k \in Keys /\ now \in Times /\ handler[h].pc = "timed"
    BY KeyIs DEF CheckLimit, LimiterInv
  <1>2. Record(h, kept, k)
    BY DEF CheckLimit, Kept
  <1>3. /\ kept \in [Keys -> Seq(Times)] /\ \A l \in Keys : Len(kept[l]) <= MaxAttempts
        /\ InOrder(k, now) => \A l \in Keys :
             Tracks(kept[l], admitted[l], IF l[1] = k[1] THEN now ELSE latest[l[1]])
    BY <1>1, KeptIs
  <1>4. /\ \A l \in Keys : kept[l] \in Seq(Times) /\ admitted[l] \in Seq(Times)
        /\ \A l \in Keys : Len(kept[l]) \in Nat /\ MaxAttempts \in Nat
        /\ ordered => \A l \in Keys : \A from \in Times :
             Cardinality(InWindow(admitted[l], from)) <= MaxAttempts
    BY <1>3, AccountsAssumption DEF LimiterInv
  <1>5. now = handler[h].now /\ k = KeyOf(h)
    OBVIOUS
  <1> HIDE DEF kept, k, now
  <1>6. CASE Len(kept[k]) >= MaxAttempts
    <2>1. hits' = kept /\ Remember(k, now, <<>>) /\ <<>> \in Seq(Times)
      BY <1>2, <1>5, <1>6 DEF Record
    <2>2. /\ admitted' \in [Keys -> Seq(Times)] /\ ordered' \in BOOLEAN
          /\ latest' \in [{"login", "register"} -> Times]
          /\ ordered' =>
               /\ ordered /\ latest[k[1]] <= now
               /\ \A l \in Keys : latest'[l[1]] = IF l[1] = k[1] THEN now ELSE latest[l[1]]
               /\ admitted'[k] = admitted[k] \o <<>>
               /\ \A l \in Keys \ {k} : admitted'[l] = admitted[l]
      BY <1>1, <2>1, RememberTypes
    <2>3. admitted[k] \o <<>> = admitted[k]
      BY <1>1, <1>4, ConcatEmptySeq
    <2>4. ASSUME ordered', NEW l \in Keys
          PROVE  /\ Tracks(hits'[l], admitted'[l], latest'[l[1]])
                 /\ \A from \in Times : Cardinality(InWindow(admitted'[l], from)) <= MaxAttempts
      <3>1. admitted'[l] = admitted[l] /\ InOrder(k, now) /\ ordered
        BY <2>2, <2>3, <2>4 DEF InOrder
      <3>2. latest'[l[1]] = IF l[1] = k[1] THEN now ELSE latest[l[1]]
        BY <2>2, <2>4
      <3>3. QED
        BY <1>3, <1>4, <2>1, <3>1, <3>2
    <2>5. QED
      BY <1>3, <2>1, <2>2, <2>4
  <1>7. CASE ~(Len(kept[k]) >= MaxAttempts)
    <2>1. /\ hits' = [kept EXCEPT ![k] = Append(@, now)] /\ Remember(k, now, <<now>>)
          /\ <<now>> \in Seq(Times)
      BY <1>1, <1>2, <1>5, <1>7 DEF Record
    <2>2. /\ admitted' \in [Keys -> Seq(Times)] /\ ordered' \in BOOLEAN
          /\ latest' \in [{"login", "register"} -> Times]
          /\ ordered' =>
               /\ ordered /\ latest[k[1]] <= now
               /\ \A l \in Keys : latest'[l[1]] = IF l[1] = k[1] THEN now ELSE latest[l[1]]
               /\ admitted'[k] = admitted[k] \o <<now>>
               /\ \A l \in Keys \ {k} : admitted'[l] = admitted[l]
      BY <1>1, <2>1, RememberTypes
    <2>3. admitted[k] \o <<now>> = Append(admitted[k], now)
      BY <1>1, <1>4, AppendIsConcat
    <2>4. /\ Append(kept[k], now) \in Seq(Times)
          /\ Len(Append(kept[k], now)) = Len(kept[k]) + 1
          /\ Len(kept[k]) < MaxAttempts
      BY <1>1, <1>4, <1>7, AppendProperties
    <2>5. /\ hits' \in [Keys -> Seq(Times)] /\ hits'[k] = Append(kept[k], now)
          /\ \A l \in Keys \ {k} : hits'[l] = kept[l]
      BY <1>1, <1>3, <2>1, <2>4
    <2>6. \A l \in Keys : Len(hits'[l]) <= MaxAttempts
      <3>1. Len(hits'[k]) <= MaxAttempts
        BY <1>1, <1>4, <2>4, <2>5
      <3>2. QED
        BY <1>3, <2>5, <3>1
    <2>7. ASSUME ordered', NEW l \in Keys
          PROVE  /\ Tracks(hits'[l], admitted'[l], latest'[l[1]])
                 /\ \A from \in Times : Cardinality(InWindow(admitted'[l], from)) <= MaxAttempts
      <3>1. /\ InOrder(k, now) /\ ordered
            /\ latest'[l[1]] = IF l[1] = k[1] THEN now ELSE latest[l[1]]
        BY <2>2, <2>7 DEF InOrder
      <3>2. CASE l # k
        <4>1. hits'[l] = kept[l] /\ admitted'[l] = admitted[l]
          BY <2>2, <2>5, <2>7, <3>2
        <4>2. QED
          BY <1>3, <1>4, <3>1, <4>1
      <3>3. CASE l = k
        <4>1. /\ hits'[l] = Append(kept[k], now) /\ admitted'[l] = Append(admitted[k], now)
              /\ latest'[l[1]] = now
          BY <2>2, <2>3, <2>5, <2>7, <3>1, <3>3
        <4>2. Tracks(kept[k], admitted[k], now)
          BY <1>1, <1>3, <3>1
        <4>3. kept[k] \in Seq(Times) /\ admitted[k] \in Seq(Times)
          BY <1>1, <1>4
        <4>4. Tracks(Append(kept[k], now), Append(admitted[k], now), now)
          BY <1>1, <4>2, <4>3, AdmittedTracks
        <4>5. \A from \in Times :
                Cardinality(InWindow(Append(admitted[k], now), from)) <= MaxAttempts
          BY <1>1, <1>4, <2>4, <3>1, <4>2, <4>3, WindowStays
        <4>6. QED
          BY <4>1, <4>4, <4>5
      <3>4. QED
        BY <3>2, <3>3
    <2>8. QED
      BY <2>2, <2>5, <2>6, <2>7
  <1>8. QED
    BY <1>6, <1>7

\* A success forgets the attempts of its key.
LEMMA ResetTracks ==
  ASSUME LimiterInv, NEW h \in Handlers, Reset(h)
  PROVE  /\ hits' \in [Keys -> Seq(Times)] /\ \A l \in Keys : Len(hits'[l]) <= MaxAttempts
         /\ admitted' \in [Keys -> Seq(Times)]
         /\ ordered => \A l \in Keys :
              /\ Tracks(hits'[l], admitted'[l], latest[l[1]])
              /\ \A from \in Times : Cardinality(InWindow(admitted'[l], from)) <= MaxAttempts
  <1> DEFINE k == KeyOf(h)
  <1>1. k \in Keys
    BY KeyIs DEF Reset, LimiterInv
  <1>2. /\ hits' = [hits EXCEPT ![k] = <<>>] /\ admitted' = [admitted EXCEPT ![k] = <<>>]
    BY DEF Reset
  <1> HIDE DEF k
  <1>3. /\ hits'[k] = <<>> /\ admitted'[k] = <<>>
        /\ \A l \in Keys \ {k} : hits'[l] = hits[l] /\ admitted'[l] = admitted[l]
    BY <1>1, <1>2 DEF LimiterInv
  <1>4. hits' \in [Keys -> Seq(Times)] /\ admitted' \in [Keys -> Seq(Times)]
    BY <1>1, <1>2 DEF LimiterInv
  <1>5. Len(<<>>) <= MaxAttempts /\ MaxAttempts \in Nat
    BY AccountsAssumption
  <1>6. Tracks(<<>>, <<>>, latest[k[1]])
    BY DEF Tracks
  <1>7. ASSUME NEW from \in Times
        PROVE  Cardinality(InWindow(<<>>, from)) <= MaxAttempts
    <2>1. InWindow(<<>>, from) = {}
      BY DEF InWindow
    <2>2. QED
      BY <1>5, <2>1, FS_EmptySet
  <1>8. QED
    BY <1>3, <1>4, <1>5, <1>6, <1>7 DEF LimiterInv

\* The times of the handlers, when one goes on.
LEMMA OneTimed ==
  ASSUME LimiterInv, NEW h \in Handlers, NEW r, handler' = [handler EXCEPT ![h] = r],
         r.now \in Times
  PROVE  \A g \in Handlers : handler'[g].now \in Times
  BY DEF LimiterInv, SignInInv

\* A handler that ends, or goes on, tells no new time.
LEMMA EndTimed ==
  ASSUME LimiterInv, NEW h \in Handlers,
         (\E outcome \in Responses : End(h, outcome)) \/ \E pc \in Pcs : Goto(h, pc)
  PROVE  \A g \in Handlers : handler'[g].now \in Times
  <1>1. handler[h] \in Request /\ handler[h].now \in Times /\ 0 \in Times
    BY AccountsAssumption DEF LimiterInv, SignInInv, Times
  <1>2. ASSUME NEW outcome \in Responses, End(h, outcome)
        PROVE  \A g \in Handlers : handler'[g].now \in Times
    <2> DEFINE r == IF handler[h].tab THEN [handler[h] EXCEPT !.pc = outcome, !.now = 0]
                    ELSE Idle
    <2>1. handler' = [handler EXCEPT ![h] = r]
      BY <1>2 DEF End
    <2>2. r.now = 0
      BY <1>1 DEF Request, Idle
    <2> HIDE DEF r
    <2>3. QED
      BY <1>1, <2>1, <2>2, OneTimed
  <1>3. ASSUME NEW pc \in Pcs, Goto(h, pc)
        PROVE  \A g \in Handlers : handler'[g].now \in Times
    <2> DEFINE r == [handler[h] EXCEPT !.pc = pc]
    <2>1. handler' = [handler EXCEPT ![h] = r]
      BY <1>3 DEF Goto
    <2>2. r.now = handler[h].now
      BY <1>1 DEF Request
    <2> HIDE DEF r
    <2>3. QED
      BY <1>1, <2>1, <2>2, OneTimed
  <1>4. QED
    BY <1>2, <1>3

\* A request that starts has no time yet.
LEMMA StartTimed ==
  ASSUME LimiterInv, NEW h \in Handlers, NEW kind, NEW email, NEW tab,
         Start(h, kind, email, tab)
  PROVE  \A g \in Handlers : handler'[g].now \in Times
  <1> DEFINE r == [pc |-> IF kind \in {"me", "logout"} THEN "answering" ELSE "arrived",
                   kind |-> kind, email |-> email, now |-> 0, tab |-> tab]
  <1>1. handler' = [handler EXCEPT ![h] = r] /\ r.now = 0 /\ 0 \in Times
    BY AccountsAssumption DEF Start, Times
  <1> HIDE DEF r
  <1>2. QED
    BY <1>1, OneTimed

\* Requests that are abandoned keep their times.
LEMMA AbandonedTimed ==
  ASSUME LimiterInv, NEW H \in SUBSET Handlers, handler' = Abandoned(H)
  PROVE  \A g \in Handlers : handler'[g].now \in Times
  <1>1. ASSUME NEW g \in Handlers
        PROVE  handler'[g].now \in Times
    <2>1. handler[g] \in Request /\ handler[g].now \in Times /\ Idle.now \in Times
      BY AccountsAssumption DEF LimiterInv, SignInInv, Times, Idle
    <2>2. handler'[g] \in {handler[g], Idle, [handler[g] EXCEPT !.tab = FALSE]}
      BY DEF Abandoned
    <2>3. [handler[g] EXCEPT !.tab = FALSE].now = handler[g].now
      BY <2>1 DEF Request
    <2>4. QED
      BY <2>1, <2>2, <2>3
  <1>2. QED
    BY <1>1

\* A step that does not touch the limiters keeps what they are known to do.
LEMMA QuietKeeps ==
  ASSUME LimiterInv, SignInInv', UNCHANGED <<clock, limiterVars, tabOpen>>,
         user' \in Emails \cup {NoEmail}, \A h \in Handlers : handler'[h].now \in Times
  PROVE  LimiterInv'
  BY DEF LimiterInv, limiterVars

\* Everything that starts or ends a request, but for the limiter.
LEMMA RequestsKeep ==
  ASSUME LimiterInv, SignInInv', NEW h \in Handlers,
         \/ \E kind \in {"login", "register"}, email \in Emails :
              OtherRequest(h, kind, email) \/ Submit(h, kind, email)
         \/ CheckSession(h) \/ SignOut(h)
         \/ ReadClock(h) \/ LookUp(h) \/ CreateUser(h) \/ Answer(h)
  PROVE  LimiterInv'
  <1>1. UNCHANGED <<clock, limiterVars, tabOpen>> /\ user' \in Emails \cup {NoEmail}
    BY DEF OtherRequest, Submit, CheckSession, SignOut, ReadClock, LookUp, CreateUser, Answer,
           tabVars, limiterVars, LimiterInv
  <1>2. CASE \/ \E kind \in {"login", "register"}, email \in Emails :
                  OtherRequest(h, kind, email) \/ Submit(h, kind, email)
             \/ CheckSession(h) \/ SignOut(h)
    BY <1>1, <1>2, StartTimed, QuietKeeps DEF OtherRequest, Submit, CheckSession, SignOut
  <1>3. CASE ReadClock(h)
    <2> DEFINE r == [handler[h] EXCEPT !.pc = "timed", !.now = clock]
    <2>1. handler[h] \in Request /\ clock \in Times
      BY DEF LimiterInv, SignInInv
    <2>2. handler' = [handler EXCEPT ![h] = r] /\ r.now = clock
      BY <1>3, <2>1 DEF ReadClock, Request
    <2> HIDE DEF r
    <2>3. QED
      BY <1>1, <2>1, <2>2, OneTimed, QuietKeeps
  <1>4. CASE LookUp(h) \/ CreateUser(h) \/ Answer(h)
    <2>1. (\E outcome \in Responses : End(h, outcome)) \/ \E pc \in Pcs : Goto(h, pc)
      BY <1>4 DEF LookUp, CreateUser, Answer, Responses, Pcs
    <2>2. QED
      BY <1>1, <2>1, EndTimed, QuietKeeps
  <1>5. QED
    BY <1>2, <1>3, <1>4

\* The response, a failure and a reload.
LEMMA TabKeeps ==
  ASSUME LimiterInv, SignInInv', (\E h \in Handlers : Respond(h) \/ Fail(h)) \/ Reload
  PROVE  LimiterInv'
  <1>1. UNCHANGED <<clock, limiterVars, tabOpen>>
    BY DEF Respond, Fail, Reload
  <1>2. ASSUME NEW h \in Handlers, Respond(h)
        PROVE  LimiterInv'
    <2>1. handler[h].email \in Emails \cup {NoEmail} /\ Idle.now \in Times
      BY AccountsAssumption DEF LimiterInv, SignInInv, Request, Idle, Times
    <2>2. user' \in Emails \cup {NoEmail} /\ handler' = [handler EXCEPT ![h] = Idle]
      BY <1>2, <2>1 DEF Respond, LimiterInv
    <2>3. QED
      BY <1>1, <2>1, <2>2, OneTimed, QuietKeeps
  <1>3. ASSUME NEW h \in Handlers, Fail(h)
        PROVE  LimiterInv'
    <2>1. user' \in Emails \cup {NoEmail} /\ handler' = Abandoned({h})
          /\ {h} \in SUBSET Handlers
      BY <1>3 DEF Fail, LimiterInv
    <2>2. QED
      BY <1>1, <2>1, AbandonedTimed, QuietKeeps
  <1>4. CASE Reload
    <2>1. user' \in Emails \cup {NoEmail} /\ handler' = Abandoned(OfTab)
          /\ OfTab \in SUBSET Handlers
      BY <1>4 DEF Reload, OfTab
    <2>2. QED
      BY <1>1, <2>1, AbandonedTimed, QuietKeeps
  <1>5. QED
    BY <1>2, <1>3, <1>4

\* At first nothing is recorded.
LEMMA InitLimiter == Init => LimiterInv
  <1> SUFFICES ASSUME Init
               PROVE  LimiterInv
    OBVIOUS
  <1>1. 0 \in Times /\ MaxAttempts \in Nat /\ SignInInv
    BY AccountsAssumption, InitSignIn DEF Times
  <1>2. hits \in [Keys -> Seq(Times)] /\ admitted \in [Keys -> Seq(Times)]
    BY DEF Init, Nothing
  <1>3. \A k \in Keys : hits[k] = <<>> /\ admitted[k] = <<>>
    BY DEF Init, Nothing
  <1>4. latest \in [{"login", "register"} -> Times]
    BY <1>1 DEF Init, Beginning
  <1>5. \A k \in Keys : Tracks(hits[k], admitted[k], latest[k[1]])
    <2>1. \A last : Tracks(<<>>, <<>>, last)
      BY DEF Tracks
    <2>2. QED
      BY <1>3, <2>1
  <1>6. ASSUME NEW k \in Keys, NEW from \in Times
        PROVE  Cardinality(InWindow(admitted[k], from)) <= MaxAttempts
    <2>1. InWindow(admitted[k], from) = {}
      BY <1>3 DEF InWindow
    <2>2. QED
      BY <1>1, <2>1, FS_EmptySet
  <1>7. \A h \in Handlers : handler[h].now \in Times
    BY <1>1 DEF Init, Idle
  <1>8. QED
    BY <1>1, <1>2, <1>3, <1>4, <1>5, <1>6, <1>7 DEF Init, LimiterInv

\* LimiterInv is inductive.
LEMMA LimiterStep == LimiterInv /\ [Next]_vars => LimiterInv'
  <1> SUFFICES ASSUME LimiterInv, [Next]_vars
               PROVE  LimiterInv'
    OBVIOUS
  <1>1. SignInInv'
    BY SignInStep DEF LimiterInv
  <1>2. CASE Tick
    <2>1. clock' \in Times
      BY <1>2, AccountsAssumption DEF Tick, LimiterInv, Times
    <2>2. QED
      BY <1>1, <1>2, <2>1 DEF Tick, LimiterInv, limiterVars, tabVars
  <1>3. ASSUME NEW h \in Handlers,
               \/ \E kind \in {"login", "register"}, email \in Emails :
                    OtherRequest(h, kind, email) \/ Submit(h, kind, email)
               \/ CheckSession(h) \/ SignOut(h)
               \/ ReadClock(h) \/ LookUp(h) \/ CreateUser(h) \/ Answer(h)
        PROVE  LimiterInv'
    BY <1>1, <1>3, RequestsKeep
  <1>4. CASE Reload \/ \E h \in Handlers : Respond(h) \/ Fail(h)
    BY <1>1, <1>4, TabKeeps
  <1>5. ASSUME NEW h \in Handlers, CheckLimit(h)
        PROVE  LimiterInv'
    <2>1. End(h, "refused") \/ Goto(h, "admitted")
      BY <1>5 DEF CheckLimit, Record
    <2>2. \A g \in Handlers : handler'[g].now \in Times
      BY <2>1, EndTimed DEF Responses, Pcs
    <2>3. UNCHANGED <<clock, user, tabOpen>>
      BY <1>5 DEF CheckLimit, tabVars
    <2>4. QED
      BY <1>1, <1>5, <2>2, <2>3, CheckTracks DEF LimiterInv
  <1>6. ASSUME NEW h \in Handlers, Reset(h)
        PROVE  LimiterInv'
    <2>1. \A g \in Handlers : handler'[g].now \in Times
      BY <1>6, EndTimed DEF Reset, Responses
    <2>2. UNCHANGED <<clock, latest, ordered, user, tabOpen>>
      BY <1>6 DEF Reset, tabVars
    <2>3. QED
      BY <1>1, <1>6, <2>1, <2>2, ResetTracks DEF LimiterInv
  <1>7. CASE UNCHANGED vars
    <2>1. UNCHANGED <<clock, limiterVars, tabOpen, user, handler>>
      BY <1>7 DEF vars, tabVars
    <2>2. QED
      BY <1>1, <2>1, QuietKeeps DEF LimiterInv
  <1>8. QED
    BY <1>2, <1>3, <1>4, <1>5, <1>6, <1>7 DEF Next

\* LimiterInv, for every behaviour.
LEMMA LimiterAlways == Spec => []LimiterInv
  BY InitLimiter, LimiterStep, PTL DEF Spec

\* Only a check ends a request that waits for the limiter.
LEMMA OnlyCheckRefuses ==
  ASSUME LimiterInv, Next, NEW h \in Handlers, handler[h].pc = "timed",
         handler'[h].pc \notin {"timed", "admitted"}
  PROVE  CheckLimit(h) /\ End(h, "refused")
  <1>0. /\ handler \in [Handlers -> Request] /\ Idle.pc # "timed"
        /\ Sound(handler[h], accounts, cookie, checking)
    BY DEF LimiterInv, SignInInv, Idle
  <1>1. handler'[h] # handler[h]
    OBVIOUS
  <1>2. ASSUME NEW g \in Handlers, g # h, NEW r, handler' = [handler EXCEPT ![g] = r]
        PROVE  FALSE
    BY <1>0, <1>1, <1>2
  <1>3. ASSUME NEW H \in SUBSET Handlers, handler' = Abandoned(H)
        PROVE  FALSE
    <2>1. handler'[h] = handler[h] \/ handler'[h] = [handler[h] EXCEPT !.tab = FALSE]
      BY <1>3 DEF Abandoned
    <2>2. [handler[h] EXCEPT !.tab = FALSE].pc = "timed"
      BY <1>0 DEF Request
    <2>3. QED
      BY <2>1, <2>2
  <1>4. CASE Tick
    BY <1>1, <1>4 DEF Tick
  <1>5. CASE Reload \/ \E g \in Handlers : Fail(g)
    <2>1. \E H \in SUBSET Handlers : handler' = Abandoned(H)
      BY <1>5 DEF Reload, Fail, OfTab
    <2>2. QED
      BY <1>3, <2>1
  <1>6. ASSUME NEW g \in Handlers,
               \/ \E kind \in {"login", "register"}, email \in Emails :
                    OtherRequest(g, kind, email) \/ Submit(g, kind, email)
               \/ CheckSession(g) \/ SignOut(g)
        PROVE  FALSE
    <2>1. handler[g] = Idle /\ \E r : handler' = [handler EXCEPT ![g] = r]
      BY <1>6 DEF OtherRequest, Submit, CheckSession, SignOut, Start
    <2>2. QED
      BY <1>0, <1>2, <2>1
  <1>7. ASSUME NEW g \in Handlers,
               ReadClock(g) \/ LookUp(g) \/ CreateUser(g) \/ Reset(g) \/ Answer(g) \/ Respond(g)
        PROVE  FALSE
    <2>1. handler[g].pc # "timed"
      BY <1>7 DEF ReadClock, LookUp, CreateUser, Reset, Answer, Respond
    <2>2. \E r : handler' = [handler EXCEPT ![g] = r]
      BY <1>7 DEF ReadClock, LookUp, CreateUser, Reset, Answer, Respond, Goto, End
    <2>3. QED
      BY <1>2, <2>1, <2>2
  <1>8. ASSUME NEW g \in Handlers, CheckLimit(g)
        PROVE  CheckLimit(h) /\ End(h, "refused")
    <2>1. End(g, "refused") \/ Goto(g, "admitted")
      BY <1>8 DEF CheckLimit, Record
    <2>2. g = h
      BY <1>2, <2>1 DEF End, Goto
    <2>3. Goto(h, "admitted") => handler'[h].pc = "admitted"
      BY <1>0 DEF Goto, Request
    <2>4. QED
      BY <1>8, <2>1, <2>2, <2>3
  <1>9. QED
    BY <1>4, <1>5, <1>6, <1>7, <1>8 DEF Next

\* Who is refused has used up the allowance.
LEMMA RefusalIsDue ==
  ASSUME LimiterInv, NEW h \in Handlers, CheckLimit(h), handler'[h].pc # "admitted",
         InOrder(KeyOf(h), handler[h].now)
  PROVE  Cardinality({i \in 1..Len(admitted[KeyOf(h)]) :
           ~Expired(admitted[KeyOf(h)][i], handler[h].now)}) >= MaxAttempts
  <1> DEFINE k == KeyOf(h)
             now == handler[h].now
             kept == Kept(k, now)
  <1>1. k \in Keys /\ now \in Times
    BY KeyIs DEF CheckLimit, LimiterInv
  <1>2. ~Goto(h, "admitted")
    BY DEF Goto, LimiterInv, SignInInv, Request
  <1>3. Len(kept[k]) >= MaxAttempts
    BY <1>2 DEF CheckLimit, Record, Kept
  <1>4. /\ kept[k] \in Seq(Times) /\ admitted[k] \in Seq(Times)
        /\ Tracks(kept[k], admitted[k], now)
        /\ \A i \in 1..Len(kept[k]) : ~Expired(kept[k][i], now)
    BY <1>1, KeptIs DEF LimiterInv
  <1> DEFINE counted == {i \in 1..Len(admitted[k]) : ~Expired(admitted[k][i], now)}
  <1>5. Cardinality(counted) >= Len(kept[k])
    BY <1>1, <1>4, RecordedCount
  <1>6. Cardinality(counted) \in Nat /\ Len(kept[k]) \in Nat /\ MaxAttempts \in Nat
    <2>1. IsFiniteSet(1..Len(admitted[k])) /\ counted \in SUBSET (1..Len(admitted[k]))
      BY <1>4, FS_Interval
    <2>2. QED
      BY <1>4, <2>1, FS_Subset, FS_CardinalityType, AccountsAssumption
  <1>7. QED
    BY <1>3, <1>5, <1>6

-----------------------------------------------------------------------------
(* Theorems *)

\* When nothing is awaited the page shows whoever the cookie signs in, unless a
\* logout or the check of the session failed: for any number of handlers,
\* addresses and seconds.
THEOREM ViewMatchesCookieAlways == Spec => []ViewMatchesCookie
  <1>1. SignInInv => ViewMatchesCookie
    BY DEF SignInInv, ViewMatchesCookie
  <1>2. QED
    BY InitSignIn, SignInStep, <1>1, PTL DEF Spec

\* Accounts, handlers and limiters are well typed at all times, and no key has
\* more attempts recorded than allowed.
THEOREM TypeCorrect == Spec => []TypeOK
  <1>1. LimiterInv => TypeOK
    BY DEF LimiterInv, SignInInv, TypeOK, Request, Kinds, Times
  <1>2. QED
    BY LimiterAlways, <1>1, PTL

\* In no window of time are more attempts of a key admitted than allowed,
\* whatever is trimmed and evicted and for any number of threads, as long as
\* they take the lock in the order in which they read the clock (WindowBound).
THEOREM WindowBoundAlways == Spec => []WindowBound
  <1>1. LimiterInv => WindowBound
    BY DEF LimiterInv, WindowBound, Within, InWindow, Times
  <1>2. QED
    BY LimiterAlways, <1>1, PTL

\* Under the same condition the limiter refuses only who has used up the
\* allowance (RefusalsAreDue).
THEOREM RefusalsAreDueAlways == Spec => RefusalsAreDue
  <1> DEFINE Due == \A h \in {g \in Handlers : handler[g].pc = "timed"
                                /\ handler'[g].pc \notin {"timed", "admitted"}} :
                      InOrder(KeyOf(h), handler[h].now)
                        => Cardinality({i \in 1..Len(admitted[KeyOf(h)]) :
                             ~Expired(admitted[KeyOf(h)][i], handler[h].now)}) >= MaxAttempts
  <1>1. LimiterInv /\ [Next]_vars => [Due]_vars
    <2> SUFFICES ASSUME LimiterInv, Next
                 PROVE  Due
      OBVIOUS
    <2>1. QED
      BY OnlyCheckRefuses, RefusalIsDue
  <1>2. QED
    BY LimiterAlways, <1>1, PTL DEF Spec, RefusalsAreDue
=============================================================================
