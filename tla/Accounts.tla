------------------------------ MODULE Accounts ------------------------------
(***************************************************************************)
(* Accounts and sign-in: the sliding-window limiters                       *)
(* (security/rate_limit.py), the auth handlers (api/routes/auth.py,        *)
(* stores/user_repository.py, security/tokens.py) and one browser tab      *)
(* (frontend/src/hooks/useAuth.js, App.jsx).                               *)
(*                                                                         *)
(* Handlers run in threads.  Each reads the clock before it takes the lock *)
(* of a limiter, so an attempt may be recorded after one with a later      *)
(* time.  All requests come from one address.  Tokens and cookies expire   *)
(* together, after more time than is modelled.                             *)
(***************************************************************************)
EXTENDS Naturals, FiniteSets, Sequences, FiniteSetsExt

CONSTANTS
  Emails,      \* email addresses, in lower case
  NoEmail,     \* "nobody"
  Handlers,    \* requests served at the same time
  MaxAttempts, \* LOGIN_ and REGISTER_RATE_LIMIT_ATTEMPTS
  Window,      \* LOGIN_ and REGISTER_RATE_LIMIT_WINDOW_SECONDS
  MaxTracked,  \* RATE_LIMIT_MAX_TRACKED_KEYS
  MaxTime      \* bound: the last second

ASSUME AccountsAssumption ==
  NoEmail \notin Emails /\ {MaxAttempts, Window, MaxTracked, MaxTime} \subseteq Nat \ {0}

VARIABLES
  clock,     \* time.monotonic
  hits,      \* hits[k]: the recorded attempts; <<>> if the key is not tracked
  admitted,  \* history: the attempts of k admitted since its last success, kept
             \* as long as `ordered`
  ordered,   \* history: no check was overtaken
  latest,    \* history: the latest time a check has used, by limiter, likewise
  accounts,  \* the emails in the table users
  handler,   \* handler[h]: the request h serves, and how far it is
  cookie,    \* the browser's cookie: whose token it is
  user,      \* useAuth's user
  checking,  \* useAuth's checking
  tabOpen,   \* bound: there is a tab, or time passes
  lost       \* history: an answer that tells the cookie's state was lost

limiterVars == <<hits, admitted, latest, ordered>>
tabVars == <<cookie, user, checking, tabOpen, lost>>
vars == <<clock, limiterVars, accounts, handler, tabVars>>

-----------------------------------------------------------------------------

\* Sign-in is limited per address and email, registration per address.
Keys == {"login"} \X Emails \cup {<<"register", NoEmail>>}
KeyOf(h) == IF handler[h].kind = "login" THEN <<"login", handler[h].email>>
            ELSE <<"register", NoEmail>>

Nothing == [k \in Keys |-> <<>>]
Beginning == [limiter \in {"login", "register"} |-> 0]

Idle == [pc |-> "idle", kind |-> "none", email |-> NoEmail, now |-> 0, tab |-> FALSE]
Goto(h, pc) == handler' = [handler EXCEPT ![h].pc = pc]
\* A response to the tab is on its way; what others do with theirs is not seen.
End(h, outcome) ==
  handler' = [handler EXCEPT ![h] = IF @.tab THEN [@ EXCEPT !.pc = outcome, !.now = 0] ELSE Idle]
OfTab == {h \in Handlers : handler[h].tab}

Init ==
  /\ clock = 0
  /\ hits = Nothing /\ admitted = Nothing
  /\ ordered = TRUE /\ latest = Beginning
  /\ accounts = {}
  /\ handler = [h \in Handlers |-> Idle]
  /\ cookie = NoEmail /\ user = NoEmail /\ lost = FALSE
  /\ tabOpen \in BOOLEAN /\ checking = tabOpen

Tick ==
  /\ clock < MaxTime /\ ~tabOpen
  /\ clock' = clock + 1
  /\ UNCHANGED <<limiterVars, accounts, handler, tabVars>>

-----------------------------------------------------------------------------
(* Requests *)

Start(h, kind, email, tab) ==
  /\ handler[h] = Idle
  /\ handler' = [handler EXCEPT ![h] =
       [pc |-> IF kind \in {"me", "logout"} THEN "answering" ELSE "arrived",
        kind |-> kind, email |-> email, now |-> 0, tab |-> tab]]

\* From elsewhere: only what goes through a limiter matters.
OtherRequest(h, kind, email) ==
  /\ Start(h, kind, email, FALSE)
  /\ UNCHANGED <<clock, limiterVars, accounts, tabVars>>

\* The login page: a form at a time.
Submit(h, kind, email) ==
  /\ tabOpen /\ ~checking /\ user = NoEmail /\ OfTab = {}
  /\ Start(h, kind, email, TRUE)
  /\ UNCHANGED <<clock, limiterVars, accounts, tabVars>>

\* The effect of the first render: the cookie is sent.
CheckSession(h) ==
  /\ checking /\ OfTab = {}
  /\ Start(h, "me", cookie, TRUE)
  /\ UNCHANGED <<clock, limiterVars, accounts, tabVars>>

SignOut(h) ==
  /\ user # NoEmail /\ OfTab = {}
  /\ Start(h, "logout", NoEmail, TRUE)
  /\ UNCHANGED <<clock, limiterVars, accounts, tabVars>>

-----------------------------------------------------------------------------
(* The limiter *)

ReadClock(h) ==
  /\ handler[h].pc = "arrived"
  /\ handler' = [handler EXCEPT ![h].pc = "timed", ![h].now = clock]
  /\ UNCHANGED <<clock, limiterVars, accounts, tabVars>>

Expired(time, now) == now > time + Window

\* Above the cap, keys whose last attempt has expired are dropped.
EvictStale(k, now) ==
  LET tracked == {l \in Keys : l[1] = k[1] /\ hits[l] # <<>>} IN
    IF Cardinality(tracked) <= MaxTracked THEN hits
    ELSE [l \in Keys |-> IF l \in tracked /\ Expired(hits[l][Len(hits[l])], now)
                         THEN <<>> ELSE hits[l]]

\* Mutant: one expired attempt drops the whole history.
TrimmedWhole(times, now) ==
  IF times # <<>> /\ Expired(times[1], now) THEN <<>> ELSE times

\* From the left, up to the first that has not expired.
Trimmed(times, now) ==
  LET fresh == {i \in 1..Len(times) : ~Expired(times[i], now)} IN
    IF fresh = {} THEN <<>> ELSE SubSeq(times, Min(fresh), Len(times))

\* The history of a check with this time, which admits an attempt or none.
InOrder(k, now) == ordered /\ latest[k[1]] <= now
Remember(k, now, attempts) ==
  /\ ordered' = InOrder(k, now)
  /\ admitted' = IF InOrder(k, now) THEN [admitted EXCEPT ![k] = @ \o attempts] ELSE Nothing
  /\ latest' = IF InOrder(k, now) THEN [latest EXCEPT ![k[1]] = now] ELSE Beginning

\* Mutant: a refused attempt is recorded, and who keeps trying is locked out.
RecordAlways(h, kept, k) ==
  /\ hits' = [kept EXCEPT ![k] = Append(@, handler[h].now)]
  /\ IF Len(kept[k]) >= MaxAttempts
     THEN End(h, "refused") /\ Remember(k, handler[h].now, <<>>)
     ELSE Goto(h, "admitted") /\ Remember(k, handler[h].now, <<handler[h].now>>)

\* Refused attempts are not recorded.
Record(h, kept, k) ==
  IF Len(kept[k]) >= MaxAttempts
  THEN hits' = kept /\ End(h, "refused") /\ Remember(k, handler[h].now, <<>>)
  ELSE /\ hits' = [kept EXCEPT ![k] = Append(@, handler[h].now)]
       /\ Goto(h, "admitted") /\ Remember(k, handler[h].now, <<handler[h].now>>)

\* check, under the lock.
CheckLimit(h) ==
  LET k == KeyOf(h)
      evicted == EvictStale(k, handler[h].now)
  IN
  /\ handler[h].pc = "timed"
  /\ Record(h, [evicted EXCEPT ![k] = Trimmed(@, handler[h].now)], k)
  /\ UNCHANGED <<clock, accounts, tabVars>>

-----------------------------------------------------------------------------
(* The handlers *)

\* find_by_email, and for a login the password, which is right or wrong.
LookUp(h) ==
  /\ handler[h].pc = "admitted"
  /\ LET known == handler[h].email \in accounts IN
       IF handler[h].kind = "login"
       THEN (known /\ Goto(h, "matched")) \/ End(h, "refused")
       ELSE IF known THEN End(h, "refused") ELSE Goto(h, "creating")
  /\ UNCHANGED <<clock, limiterVars, accounts, tabVars>>

\* The unique constraint refuses a second account: a 500.
CreateUser(h) ==
  /\ handler[h].pc = "creating"
  /\ accounts' = accounts \cup {handler[h].email}
  /\ End(h, IF handler[h].email \in accounts THEN "refused" ELSE "granted")
  /\ UNCHANGED <<clock, limiterVars, tabVars>>

\* login_limiter.reset
Reset(h) ==
  /\ handler[h].pc = "matched"
  /\ hits' = [hits EXCEPT ![KeyOf(h)] = <<>>]
  /\ admitted' = [admitted EXCEPT ![KeyOf(h)] = <<>>]
  /\ End(h, "granted")
  /\ UNCHANGED <<clock, latest, ordered, accounts, tabVars>>

\* /auth/me and /auth/logout: a token is good while its account exists, and
\* accounts are not deleted.
Answer(h) ==
  /\ handler[h].pc = "answering"
  /\ End(h, IF handler[h].kind = "logout" \/ handler[h].email \in accounts
             THEN "granted" ELSE "refused")
  /\ UNCHANGED <<clock, limiterVars, accounts, tabVars>>

\* Mutant: the cookie is left to expire.
CookieAfterKept(h) ==
  IF handler[h].kind \in {"login", "register"} /\ handler[h].pc = "granted"
  THEN handler[h].email ELSE cookie

\* What the response does to the cookie.
CookieAfter(h) ==
  CASE handler[h].pc = "refused" -> cookie
    [] handler[h].kind = "logout" -> NoEmail
    [] OTHER -> handler[h].email

\* The response reaches the tab.
Respond(h) ==
  /\ handler[h].pc \in {"granted", "refused"}
  /\ cookie' = CookieAfter(h)
  /\ user' = IF handler[h].pc = "granted" THEN handler[h].email
             ELSE IF handler[h].kind = "me" THEN NoEmail ELSE user
  /\ checking' = FALSE
  /\ handler' = [handler EXCEPT ![h] = Idle]
  /\ UNCHANGED <<clock, limiterVars, accounts, tabOpen, lost>>

\* The handlers go on; nobody waits for them.
Abandoned(H) ==
  [h \in Handlers |-> IF h \notin H THEN handler[h]
    ELSE IF handler[h].pc \in {"granted", "refused", "answering"} THEN Idle
    ELSE [handler[h] EXCEPT !.tab = FALSE]]

\* The network fails: a failed logout signs out all the same, and a failed
\* check of the session counts as none.  A response cut short in its body has
\* brought its cookie already, but the page does not learn of it.
Fail(h) ==
  /\ handler[h].tab
  /\ cookie' \in {cookie} \cup (IF handler[h].pc = "granted" THEN {CookieAfter(h)} ELSE {})
  /\ user' = IF handler[h].kind \in {"me", "logout"} THEN NoEmail ELSE user
  /\ lost' = (lost \/ handler[h].kind \in {"me", "logout"} \/ cookie' # cookie)
  /\ checking' = FALSE
  /\ handler' = Abandoned({h})
  /\ UNCHANGED <<clock, limiterVars, accounts, tabOpen>>

\* What was asked for before is not waited for.
Reload ==
  /\ tabOpen /\ ~checking
  /\ user' = NoEmail /\ checking' = TRUE /\ lost' = FALSE
  /\ handler' = Abandoned(OfTab)
  /\ UNCHANGED <<clock, limiterVars, accounts, tabOpen, cookie>>

-----------------------------------------------------------------------------

Next ==
  \/ Tick \/ Reload
  \/ \E h \in Handlers :
       \/ \E kind \in {"login", "register"}, email \in Emails :
            OtherRequest(h, kind, email) \/ Submit(h, kind, email)
       \/ CheckSession(h) \/ SignOut(h)
       \/ ReadClock(h) \/ CheckLimit(h) \/ LookUp(h) \/ CreateUser(h) \/ Reset(h)
       \/ Answer(h) \/ Respond(h) \/ Fail(h)

Spec == Init /\ [][Next]_vars

-----------------------------------------------------------------------------
(* Properties *)

Pcs == {"idle", "arrived", "timed", "admitted", "creating", "matched",
        "answering", "granted", "refused"}

TypeOK ==
  /\ clock \in 0..MaxTime
  /\ hits \in [Keys -> Seq(0..MaxTime)]
  /\ \A k \in Keys : Len(hits[k]) <= MaxAttempts
  /\ admitted \in [Keys -> Seq(0..MaxTime)]
  /\ accounts \subseteq Emails
  /\ handler \in [Handlers -> [pc : Pcs, kind : {"none", "me", "login", "register", "logout"},
       email : Emails \cup {NoEmail}, now : 0..MaxTime, tab : BOOLEAN]]
  /\ {cookie, user} \subseteq Emails \cup {NoEmail}
  /\ latest \in [{"login", "register"} -> 0..MaxTime]
  /\ {checking, tabOpen, lost, ordered} \subseteq BOOLEAN

Within(k, from) ==
  {i \in 1..Len(admitted[k]) : from <= admitted[k][i] /\ admitted[k][i] <= from + Window}

\* In no window of time are more attempts of a key admitted than allowed,
\* counted from its last success (rate_limit.py:54), whatever is trimmed and
\* evicted meanwhile, as long as threads take the lock in the order in which
\* they read the clock.
WindowBound ==
  ordered => \A k \in Keys, from \in 0..MaxTime : Cardinality(Within(k, from)) <= MaxAttempts

\* The limiter refuses only a key that has used its allowance up: attempts that
\* are refused, expired or forgiven by a success do not count
\* (rate_limit.py:63, :71).
RefusalsAreDue ==
  [][\A h \in {g \in Handlers : handler[g].pc = "timed" /\ handler'[g].pc \notin {"timed", "admitted"}} :
       InOrder(KeyOf(h), handler[h].now)
         => Cardinality({i \in 1..Len(admitted[KeyOf(h)]) :
              ~Expired(admitted[KeyOf(h)][i], handler[h].now)}) >= MaxAttempts]_vars

\* When nothing is awaited the page shows whoever the cookie signs in, nobody
\* included (useAuth.js:12, :39), unless a logout or the check of the session
\* failed, or the answer that set the cookie was lost: then a reload may undo a
\* sign-out, or sign in.
ViewMatchesCookie ==
  ~checking /\ OfTab = {} /\ ~lost => user = cookie
=============================================================================
