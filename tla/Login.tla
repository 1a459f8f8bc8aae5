-------------------------------- MODULE Login --------------------------------
(***************************************************************************)
(* Signing in with Google and signing out, in the tabs of one browser: the *)
(* cookies the tabs share, the callback and logout handlers of the backend *)
(* (internal/handlers/auth.go), and in each tab the query that says who is *)
(* signed in (AuthProvider.tsx) with the pages that follow it (App.tsx,    *)
(* RequireAuth.tsx, LoginPage, LogoutPage, AuthCallbackPage, AuthError).   *)
(*                                                                         *)
(* Logins are numbered in the order they are begun; a number stands for    *)
(* the state, the nonce and the code of its login, the account the user    *)
(* picks and the session it creates, 0 for no cookie.  The browser sends   *)
(* its cookies when a request leaves and applies those of the answer when  *)
(* it arrives, so both may be out of date by then.                         *)
(***************************************************************************)
EXTENDS ApiClient, Naturals, FiniteSets

CONSTANTS
  Tabs,
  SignIn,      \* the tabs where the user signs in
  SignOut,     \* the tabs where the user signs out
  MaxLogins,   \* bound on the logins that are begun
  MaxLogouts,  \* bound on the logouts of a tab that are on their way
  Anonymous,   \* null: the query knows that nobody is signed in
  None

ASSUME TabsAssumption   == SignIn \subseteq Tabs /\ SignOut \subseteq Tabs
ASSUME LoginsAssumption == MaxLogins \in Nat \ {0}
ASSUME LogoutsAssumption == MaxLogouts \in Nat \ {0}

VARIABLES
  begun,    \* how many logins were begun
  login,    \* whether the code of each login is spent, and its session
  cookie,   \* the cookies of the browser
  tab       \* what each tab shows and waits for

vars == <<begun, login, cookie, tab>>

Logins == 1..MaxLogins

ASSUME ValuesAssumption ==
  /\ Anonymous \notin Logins /\ None \notin Logins
  /\ None \notin {Anonymous, "callback", "error"}

-----------------------------------------------------------------------------
(* Who is signed in, as a tab knows it *)

NoFetch == [phase |-> "idle", session |-> 0, value |-> None]

\* A fetch leaves with the session cookie of the moment; without one the answer is
\* that nobody is signed in, whenever it is given.
FetchSent(session) ==
  IF session = 0 THEN [phase |-> "answered", session |-> 0, value |-> Anonymous]
  ELSE [phase |-> "sent", session |-> session, value |-> None]

\* The query of a page that has just loaded: it is asked at once.
Asked(session) == [data |-> None, error |-> FALSE, fetch |-> FetchSent(session)]

\* A tab that is not at a page of the frontend.
NoQuery == [data |-> None, error |-> FALSE, fetch |-> NoFetch]

\* The query is asked again, in place of a fetch that is in flight.
Refetched(me) ==
  [me EXCEPT !.error = @ /\ me.data # None,
             !.fetch = FetchSent(cookie.session)]

AuthStatus(me) ==
  IF me.error THEN "error"
  ELSE IF me.data = None THEN "loading"
  ELSE IF me.data = Anonymous THEN "anonymous" ELSE "authenticated"

User(t) == IF AuthStatus(tab[t].me) = "authenticated" THEN tab[t].me.data ELSE None

\* Mutant: only a query that was never answered is fetched.
DueUnanswered(me) == me.fetch.phase = "idle" /\ me.data = None

\* A window that gets the focus fetches what is stale.
Due(me) == me.fetch.phase = "idle"

-----------------------------------------------------------------------------
(* Pages *)

Outside == {"google", "waiting", "broken"}
Private == {"app", "logout"}
Pages   == Outside \cup Private \cup {"login", "callback", "error"}

\* Where each page leads, for what the query says.
LoginPage(status) == IF status = "authenticated" THEN "app" ELSE "login"

\* Mutant: the page waits for somebody to be signed in.
CallbackPageWaiting(status) == IF status = "authenticated" THEN "app" ELSE "callback"

AuthCallbackPage(status) ==
  CASE status = "authenticated" -> "app"
    [] status = "anonymous"     -> "error"
    [] OTHER                    -> "callback"

RequireAuth(page, status) == IF status = "anonymous" THEN "login" ELSE page

Redirect(page, me) ==
  LET status == AuthStatus(me) IN
  CASE page = "login"    -> LoginPage(status)
    [] page = "callback" -> AuthCallbackPage(status)
    [] page \in Private  -> RequireAuth(page, status)
    [] OTHER             -> page

\* A logout on its way; LogoutPage that sent it is still there, at first.
LogoutSent == [phase |-> "sent", session |-> cookie.session, here |-> TRUE,
               thrown |-> FALSE, clears |-> FALSE]

\* LogoutPage goes, and its logouts go on without it.
Left(logouts) == {[o EXCEPT !.here = FALSE] : o \in logouts}

\* One more logout is sent.  Bound: if it is one too many, no earlier one gets an
\* answer.
OneMore(logouts) ==
  {LogoutSent} \cup IF Cardinality(logouts) < MaxLogouts THEN logouts ELSE {}

\* LogoutPage is on the screen.
AtLogout(page, me) == page = "logout" /\ AuthStatus(me) = "authenticated"

\* What becomes of tab t when it turns to a page or its query changes: the
\* redirects, then the effect of LogoutPage if it has just come up, and the end of
\* that effect and of its error if it goes.
Render(t, page, me, logouts, out) ==
  LET shown == Redirect(page, me)
      was   == AtLogout(tab[t].page, tab[t].me)
      at    == AtLogout(shown, me)
  IN  [tab[t] EXCEPT
        !.page    = shown,
        !.me      = me,
        !.logouts = CASE at /\ ~was -> OneMore(logouts)
                      [] ~at        -> Left(logouts)
                      [] OTHER      -> logouts,
        !.out     = IF \/ out = "failed" /\ ~at
                       \/ out = "done" /\ me.fetch # tab[t].me.fetch
                    THEN "none" ELSE out]

Renders(t, page, me, logouts, out) ==
  tab' = [tab EXCEPT ![t] = Render(t, page, me, logouts, out)]

\* The query changes and nothing else but the rendering of it.
Knows(t, me) == Renders(t, tab[t].page, me, tab[t].logouts, tab[t].out)

\* The way of a tab through Google and back: whether the user has agreed, whether
\* the ten minutes of the login are over, the state cookie its callback was sent
\* with, and where the answer leads.
NoRequest == [agreed |-> FALSE, old |-> FALSE, oauth |-> 0, target |-> None]

\* Tab t turns to something else than the frontend.
Leaves(t, page, l, request) ==
  tab' = [tab EXCEPT ![t] = [page |-> page, login |-> l, request |-> request,
                             me |-> NoQuery, logouts |-> {}, out |-> "none"]]

\* Tab t loads a page of the frontend.
Loaded(page, session) ==
  [page |-> page, login |-> 0, request |-> NoRequest,
   me |-> Asked(session), logouts |-> {}, out |-> "none"]

Loads(t, page, session) == tab' = [tab EXCEPT ![t] = Loaded(page, session)]

Init ==
  /\ begun = 0
  /\ login = [l \in Logins |-> [spent |-> FALSE, session |-> "none"]]
  /\ cookie = [oauth |-> 0, session |-> 0]
  /\ tab = [t \in Tabs |-> Loaded("login", 0)]

-----------------------------------------------------------------------------
(* Signing in *)

\* The link of LoginPage, and the redirect to Google of StartGoogleLogin.
Begin(t) ==
  /\ t \in SignIn
  /\ tab[t].page = "login"
  /\ AuthStatus(tab[t].me) = "anonymous"
  /\ begun < MaxLogins
  /\ begun' = begun + 1
  /\ cookie' = [cookie EXCEPT !.oauth = begun + 1]
  /\ Leaves(t, "google", begun + 1, NoRequest)
  /\ UNCHANGED login

\* The browser calls the callback, with a code or an error and the cookies it has.
Calls(t, agreed) ==
  Leaves(t, "waiting", tab[t].login,
         [tab[t].request EXCEPT !.agreed = agreed, !.oauth = cookie.oauth])

\* The user agrees, and Google sends the browser back with a code.
Approve(t) ==
  /\ tab[t].page = "google"
  /\ Calls(t, TRUE)
  /\ UNCHANGED <<begun, login, cookie>>

\* The user declines, and Google sends the browser back with an error.
Decline(t) ==
  /\ tab[t].page = "google"
  /\ Calls(t, FALSE)
  /\ UNCHANGED <<begun, login, cookie>>

\* The ten minutes of a login are over, which matters until its code is spent.
Expire(t) ==
  /\ tab[t].login # 0
  /\ ~tab[t].request.old /\ ~login[tab[t].login].spent
  /\ tab' = [tab EXCEPT ![t].request.old = TRUE]
  /\ UNCHANGED <<begun, login, cookie>>

\* Mutant: a state cookie is good for any callback of its login.
StateHoldsEvenOld(request, l) == request.oauth # 0 /\ request.oauth = l

\* The state cookie a callback came with is there, young, and of its login.
StateHolds(request, l) == request.oauth # 0 /\ ~request.old /\ request.oauth = l

\* The code of a login is exchanged.
Spent(l) == [login[l] EXCEPT !.spent = TRUE]

\* HandleGoogleCallback: what it answers and what is left of the login.
CallbackEnds(l, request, outcome, after) ==
  LET now == login[l] IN
  \/ /\ ~request.agreed
     /\ outcome = "OAUTH_CALLBACK_FAILED" /\ after = now
  \/ /\ request.agreed /\ ~StateHolds(request, l)
     /\ outcome = "OAUTH_STATE_INVALID" /\ after = now
  \/ /\ request.agreed /\ StateHolds(request, l)
     /\ \/ /\ now.spent                          \* the exchange is refused
           /\ outcome = "OAUTH_CALLBACK_FAILED" /\ after = now
        \/ /\ ~now.spent                         \* it fails, before or after Google
           /\ outcome = "SERVICE_UNAVAILABLE"
           /\ after \in {now, Spent(l)}
        \/ /\ ~now.spent                         \* the identity, the user or the
           /\ outcome \in handleGoogleCallback   \* session is refused
                \ {"OK", "OAUTH_STATE_INVALID", "SERVICE_UNAVAILABLE"}
           /\ after = Spent(l)
        \/ /\ ~now.spent
           /\ outcome = "OK"
           /\ after = [Spent(l) EXCEPT !.session = "live"]

HandleGoogleCallback(t) ==
  /\ tab[t].page = "waiting"
  /\ tab[t].request.target = None
  /\ LET l == tab[t].login IN
     \E outcome \in handleGoogleCallback,
        after \in {login[l], Spent(l), [Spent(l) EXCEPT !.session = "live"]} :
       /\ CallbackEnds(l, tab[t].request, outcome, after)
       /\ login' = [login EXCEPT ![l] = after]
       /\ tab' = [tab EXCEPT ![t].request.oauth = 0,
                             ![t].request.target =
                               IF outcome = "OK" THEN "callback" ELSE "error"]
  /\ UNCHANGED <<begun, cookie>>

\* The redirect arrives, to return_to or to the error page.  Either way the
\* state cookie is cleared, whichever login it is of by now.
Redirected(t) ==
  /\ tab[t].page = "waiting"
  /\ tab[t].request.target # None
  /\ IF tab[t].request.target = "callback"
     THEN /\ cookie' = [oauth |-> 0, session |-> tab[t].login]
          /\ Loads(t, "callback", tab[t].login)
     ELSE /\ cookie' = [cookie EXCEPT !.oauth = 0]
          /\ Loads(t, "error", cookie.session)
  /\ UNCHANGED <<begun, login>>

\* The connection breaks before the answer, which the user may ask for again.
CallbackLost(t) ==
  /\ tab[t].page = "waiting"
  /\ Leaves(t, "broken", tab[t].login,
            [tab[t].request EXCEPT !.oauth = 0, !.target = None])
  /\ UNCHANGED <<begun, login, cookie>>

CallAgain(t) ==
  /\ tab[t].page = "broken"
  /\ Calls(t, tab[t].request.agreed)
  /\ UNCHANGED <<begun, login, cookie>>

-----------------------------------------------------------------------------
(* Who is signed in *)

\* GET /auth/me: the user of the session it was sent with, or nobody (401).
GetCurrentUser(t) ==
  /\ tab[t].me.fetch.phase = "sent"
  /\ LET s == tab[t].me.fetch.session IN
     tab' = [tab EXCEPT ![t].me.fetch =
               [NoFetch EXCEPT !.phase = "answered",
                               !.value = IF login[s].session = "live" THEN s
                                         ELSE Anonymous]]
  /\ UNCHANGED <<begun, login, cookie>>

\* The answer arrives.
Arrive(t) ==
  /\ tab[t].me.fetch.phase = "answered"
  /\ Knows(t, [data |-> tab[t].me.fetch.value, error |-> FALSE, fetch |-> NoFetch])
  /\ UNCHANGED <<begun, login, cookie>>

\* The fetch fails: any of Failures(getCurrentUser) but 401, which is an answer.
FetchFails(t) ==
  /\ tab[t].me.fetch.phase # "idle"
  /\ Knows(t, [tab[t].me EXCEPT !.error = TRUE, !.fetch = NoFetch])
  /\ UNCHANGED <<begun, login, cookie>>

\* The user comes back to the window after 30 seconds or more.
Focus(t) ==
  /\ tab[t].page \notin Outside
  /\ Due(tab[t].me)
  /\ Knows(t, Refetched(tab[t].me))
  /\ UNCHANGED <<begun, login, cookie>>

\* The button of the error: refresh().  AuthErrorPage has none, its error is not
\* that of the query.
Retry(t) ==
  /\ AuthStatus(tab[t].me) = "error"
  /\ tab[t].page # "error"
  /\ Knows(t, Refetched(tab[t].me))
  /\ UNCHANGED <<begun, login, cookie>>

-----------------------------------------------------------------------------
(* Signing out *)

\* What answers POST /auth/logout without reaching its handler: requireAuth and
\* requireCSRF.
Stopped(session) ==
  IF session # 0 /\ login[session].session = "live"
  THEN Failures(logout) \ (Unauthorized \cup {"NETWORK"}) ELSE Unauthorized

\* Mutant: any answer of the backend but a failure of its own will do.
SignedOutBy4xx(outcome) == outcome \in {"OK"} \cup Unauthorized \cup Forbidden

\* logout() of AuthProvider does not throw.
SignedOut(outcome) == outcome \in {"OK"} \cup Unauthorized

\* Logout: the cookies are cleared even when the session cannot be revoked.
Logout(t) ==
  /\ \E o \in tab[t].logouts :
       LET s == o.session
           Answers(outcome, clears) ==
             tab' = [tab EXCEPT ![t].logouts = (@ \ {o}) \cup
                       {[o EXCEPT !.phase = "answered", !.clears = clears,
                                  !.thrown = ~SignedOut(outcome)]}]
       IN  /\ o.phase = "sent"
           /\ \/ /\ \E outcome \in Stopped(s) : Answers(outcome, FALSE)
                 /\ UNCHANGED login
              \/ /\ s # 0 /\ login[s].session = "live"
                 /\ \/ /\ login' = [login EXCEPT ![s].session = "dead"]
                       /\ Answers("OK", TRUE)
                    \/ /\ Answers("INTERNAL_ERROR", TRUE)
                       /\ UNCHANGED login
  /\ UNCHANGED <<begun, cookie>>

\* The page that sent logout o shows its error, if it is still there.
Fails(t, o) ==
  Renders(t, tab[t].page, tab[t].me, tab[t].logouts \ {o},
          IF o.here THEN "failed" ELSE tab[t].out)

\* The answer arrives.  The state of the query is set to null, which leaves a
\* fetch that is in flight alone, whether the page is still there or not.
LoggedOut(t) ==
  /\ \E o \in tab[t].logouts :
       /\ o.phase = "answered"
       /\ cookie' = IF o.clears THEN [cookie EXCEPT !.session = 0] ELSE cookie
       /\ IF o.thrown THEN Fails(t, o)
          ELSE Renders(t, tab[t].page, [tab[t].me EXCEPT !.data = Anonymous, !.error = FALSE],
                       tab[t].logouts \ {o},
                       IF tab[t].me.fetch = NoFetch THEN "none" ELSE "done")
  /\ UNCHANGED <<begun, login>>

\* No answer comes.
LogoutLost(t) ==
  /\ \E o \in tab[t].logouts : Fails(t, o)
  /\ UNCHANGED <<begun, login, cookie>>

\* The button of the error of LogoutPage.
LogoutAgain(t) ==
  /\ tab[t].out = "failed"
  /\ Renders(t, tab[t].page, tab[t].me, OneMore(tab[t].logouts), "none")
  /\ UNCHANGED <<begun, login, cookie>>

-----------------------------------------------------------------------------
(* Moving about *)

\* The links of the pages for somebody who is signed in, and back.
Links == {<<"app", "logout">>, <<"logout", "app">>}

Go(t, page) ==
  /\ <<tab[t].page, page>> \in Links
  /\ page = "logout" => t \in SignOut
  /\ AuthStatus(tab[t].me) = "authenticated"
  /\ Renders(t, page, tab[t].me, tab[t].logouts, tab[t].out)
  /\ UNCHANGED <<begun, login, cookie>>

\* "Вернуться ко входу".  The error page shows nothing of the query, which is
\* first looked at here.
BackToLogin(t) ==
  /\ tab[t].page = "error"
  /\ Renders(t, "login", tab[t].me, tab[t].logouts, tab[t].out)
  /\ UNCHANGED <<begun, login, cookie>>

\* An address of the frontend is opened or loaded again.  Bound: not while the page
\* that is there waits for its first answer.
Open(t, page) ==
  /\ page = "logout" => t \in SignOut
  /\ AuthStatus(tab[t].me) # "loading" \/ tab[t].page \in Outside \cup {"error"}
  /\ Loads(t, page, cookie.session)
  /\ UNCHANGED <<begun, login, cookie>>

\* A session expires or is revoked elsewhere.
SessionEnds(l) ==
  /\ login[l].session = "live"
  /\ login' = [login EXCEPT ![l].session = "dead"]
  /\ UNCHANGED <<begun, cookie, tab>>

Next ==
  \/ \E t \in Tabs :
       \/ Begin(t)
       \/ Approve(t)
       \/ Decline(t)
       \/ Expire(t)
       \/ HandleGoogleCallback(t)
       \/ Redirected(t)
       \/ CallbackLost(t)
       \/ CallAgain(t)
       \/ GetCurrentUser(t)
       \/ Arrive(t)
       \/ FetchFails(t)
       \/ Focus(t)
       \/ Retry(t)
       \/ Logout(t)
       \/ LoggedOut(t)
       \/ LogoutLost(t)
       \/ LogoutAgain(t)
       \/ \E page \in Private : Go(t, page)
       \/ BackToLogin(t)
       \/ \E page \in Private : Open(t, page)
  \/ \E l \in Logins : SessionEnds(l)

Spec == Init /\ [][Next]_vars

\* A fetch is answered and ends, and a user whose window has none under way comes
\* back to it.
Fairness ==
  \A t \in Tabs : WF_vars(GetCurrentUser(t) \/ Arrive(t) \/ FetchFails(t) \/ Focus(t))

FairSpec == Spec /\ Fairness

-----------------------------------------------------------------------------
(* Properties *)

\* The cookies, the fetches and the pages of the tabs are what the handlers and
\* the routes make of them; who is signed in is known at every page that needs
\* it, and is shown by the pages inside alone; LogoutPage waits for its own logout
\* or shows its error only as long as it is there.
TypeOK ==
  /\ begun \in 0..MaxLogins
  /\ login \in [Logins -> [spent : BOOLEAN, session : {"none", "live", "dead"}]]
  /\ cookie \in [oauth : 0..begun, session : {0} \cup {l \in Logins : login[l].spent}]
  /\ \A t \in Tabs :
       /\ tab[t].page \in Pages
       /\ tab[t].login \in 0..begun
       /\ tab[t].request \in [agreed : BOOLEAN, old : BOOLEAN, oauth : 0..begun,
                             target : {"callback", "error", None}]
       /\ tab[t].me.data \in Logins \cup {Anonymous, None}
       /\ tab[t].me.error \in BOOLEAN
       /\ tab[t].me.fetch.phase \in {"idle", "sent", "answered"}
       /\ tab[t].out \in {"none", "failed", "done"}
       /\ \A o \in tab[t].logouts :
            /\ o.phase \in {"sent", "answered"}
            /\ o.session = 0 \/ login[o.session].spent
       /\ AuthStatus(tab[t].me) = "anonymous" => tab[t].page \notin Private \cup {"callback"}
       /\ AuthStatus(tab[t].me) = "authenticated" =>
            tab[t].page \in Private \cup {"error"}
       /\ tab[t].out = "failed" \/ (\E o \in tab[t].logouts : o.here) =>
            AtLogout(tab[t].page, tab[t].me)

\* A callback makes a session only of a login the browser still holds the state
\* of, within the ten minutes, whatever other tabs began, expired or repeated in
\* the meantime, and of each login at most once (HandleGoogleCallback).
SessionsAreEarned ==
  [][\A l \in Logins :
       login'[l].session = "live" /\ login[l].session # "live" =>
         /\ login[l].session = "none"
         /\ \E t \in Tabs :
              /\ tab[t].login = l /\ tab[t].request.oauth = l
              /\ tab[t].request.agreed /\ ~tab[t].request.old]_vars

\* When logout() of AuthProvider ends without an error, the session it was sent
\* with is over, although 401 counts as success.
SignedOutIsRevoked ==
  [][\A t \in Tabs : \A o \in tab[t].logouts :
       o.phase = "answered" /\ ~o.thrown /\ o \notin tab'[t].logouts =>
         o.session = 0 \/ login[o.session].session = "dead"]_vars

\* What tab t shows agrees with the session of the browser: it is a page inside
\* with the user of the session, or the login page and there is none.
Agrees(t) ==
  LET s == cookie.session IN
  IF s # 0 /\ login[s].session = "live"
  THEN tab[t].page \in Private /\ User(t) = s
  ELSE tab[t].page = "login" /\ AuthStatus(tab[t].me) = "anonymous"

\* Whatever ends a session or begins one in another tab, and however late the
\* answers are, each tab comes to agree with the session of the browser again
\* and again, unless it is elsewhere or says that something went wrong: nobody
\* goes on seeing the pages of a session that ended (AuthProvider, staleTime and
\* refetchOnWindowFocus).
TabsCatchUp ==
  \A t \in Tabs :
    []<>(Agrees(t) \/ tab[t].page \in Outside \cup {"error"}
                   \/ AuthStatus(tab[t].me) = "error")

\* AuthProvider.test.tsx:124: logout clears the state; the user who logged out is
\* not shown again without a session.
LoggedOutStaysOut ==
  [][\A t \in Tabs :
       /\ tab[t].out = "done" /\ AuthStatus(tab[t].me) = "anonymous"
       /\ AuthStatus(tab'[t].me) = "authenticated"
       => \E l \in Logins : login[l].session = "live"]_vars

=============================================================================
