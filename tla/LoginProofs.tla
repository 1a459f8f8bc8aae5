------------------------------ MODULE LoginProofs ------------------------------
(***************************************************************************)
(* Theorems about Login: for any number of tabs and of logins, a session   *)
(* is made once, of a login whose state the browser still held, and when a *)
(* tab says that its user is signed out, the session it asked to end is    *)
(* over.                                                                   *)
(***************************************************************************)
EXTENDS Login, TLAPS

-----------------------------------------------------------------------------
(* The invariant *)

Steps == [spent : BOOLEAN, session : {"none", "live", "dead"}]

\* A login has a session only if its code was exchanged.
LoginInv ==
  /\ begun \in 0..MaxLogins
  /\ login \in [Logins -> Steps]
  /\ \A l \in Logins : login[l].session # "none" => login[l].spent

\* The sessions a cookie can be of, 0 for none: those that were created.
Created == {0} \cup {l \in Logins : login[l].session # "none"}

CookieInv == cookie \in [oauth : 0..begun, session : Created]

Users == Logins \cup {Anonymous, None}

\* A fetch that is to be served was sent with a cookie.
Fetches == {f \in [phase   : {"idle", "sent", "answered"},
                   session : 0..MaxLogins,
                   value   : Users] : f.phase = "sent" => f.session # 0}

Queries == [data : Users, error : BOOLEAN, fetch : Fetches]

Logouts == [phase   : {"sent", "answered"},
            session : 0..MaxLogins,
            here    : BOOLEAN,
            thrown  : BOOLEAN,
            clears  : BOOLEAN]

Outs == {"none", "failed", "done"}

Requests(n) == [agreed : BOOLEAN, old : BOOLEAN, oauth : 0..n,
                target : {"callback", "error", None}]

\* A logout is sent with a session that was created; one that is answered and does
\* not throw was sent with none or has left the session dead.
LogoutOK(o) ==
  /\ o \in Logouts
  /\ o.session \in Created
  /\ o.phase = "answered" /\ ~o.thrown =>
       o.session = 0 \/ login[o.session].session = "dead"

\* What the query says decides which pages can be on the screen.
ShownOK(page, me) ==
  /\ AuthStatus(me) = "anonymous" => page \notin Private \cup {"callback"}
  /\ AuthStatus(me) = "authenticated" => page \in Private \cup {"error"}

\* A tab on its way through Google is about a login that was begun; one that is told
\* to go to the callback page has had its session created.  One that is not at the
\* frontend waits for nothing of it.
TabOK(r) ==
  /\ r \in [page    : Pages,
            login   : 0..begun,
            request : Requests(begun),
            me      : Queries,
            logouts : SUBSET Logouts,
            out     : Outs]
  /\ r.page \in {"google", "waiting", "broken"} => r.login # 0
  /\ r.page \in {"google", "broken"} => r.request.target = None
  /\ r.request.target = "callback" => r.login \in Created
  /\ r.page \in Outside => r.me = NoQuery /\ r.logouts = {} /\ r.out = "none"
  /\ \A o \in r.logouts : LogoutOK(o)
  /\ ShownOK(r.page, r.me)
  /\ r.out = "failed" \/ (\E o \in r.logouts : o.here) => AtLogout(r.page, r.me)

TabInv ==
  /\ tab = [t \in Tabs |-> tab[t]]
  /\ \A t \in Tabs : TabOK(tab[t])

IInv == LoginInv /\ CookieInv /\ TabInv

-----------------------------------------------------------------------------
(* Queries and pages *)

LEMMA BegunLogins ==
  ASSUME LoginInv
  PROVE  /\ begun \in Nat /\ MaxLogins \in Nat
         /\ 0..begun \subseteq {0} \cup Logins
         /\ Created \subseteq {0} \cup Logins
BY LoginsAssumption DEF LoginInv, Logins, Created

LEMMA SentOK ==
  ASSUME NEW session \in {0} \cup Logins
  PROVE  FetchSent(session) \in Fetches
BY LoginsAssumption DEF FetchSent, Fetches, Users, Logins

LEMMA NoFetchOK == NoFetch \in Fetches
BY LoginsAssumption DEF NoFetch, Fetches, Users

LEMMA LoadingStatus ==
  ASSUME NEW me, ~me.error, me.data = None
  PROVE  AuthStatus(me) = "loading"
BY ValuesAssumption DEF AuthStatus

LEMMA AskedOK ==
  ASSUME NEW session \in {0} \cup Logins
  PROVE  Asked(session) \in Queries /\ AuthStatus(Asked(session)) = "loading"
<1>1. Asked(session) \in Queries
  BY SentOK DEF Asked, Queries, Users
<1>2. ~Asked(session).error /\ Asked(session).data = None
  BY DEF Asked
<1>3. QED
  BY <1>1, <1>2, LoadingStatus

LEMMA NoQueryOK == NoQuery \in Queries /\ AuthStatus(NoQuery) = "loading"
<1>1. NoQuery \in Queries
  BY NoFetchOK DEF NoQuery, Queries, Users
<1>2. ~NoQuery.error /\ NoQuery.data = None
  BY DEF NoQuery
<1>3. QED
  BY <1>1, <1>2, LoadingStatus

LEMMA RefetchedOK ==
  ASSUME LoginInv, CookieInv, NEW me \in Queries
  PROVE  Refetched(me) \in Queries
<1>1. cookie.session \in {0} \cup Logins
  BY BegunLogins DEF CookieInv
<1>2. PICK fetch \in Fetches : fetch = FetchSent(cookie.session)
  BY <1>1, SentOK
<1>3. PICK error \in BOOLEAN : error = (me.error /\ me.data # None)
  OBVIOUS
<1>4. Refetched(me) = [me EXCEPT !.error = error, !.fetch = fetch]
  BY <1>2, <1>3 DEF Refetched, Queries
<1>5. QED
  BY <1>4 DEF Queries

\* The redirects lead to a page that what the query says allows, and never out of the
\* frontend.
LEMMA RedirectOK ==
  ASSUME NEW page \in Pages \ Outside, NEW me
  PROVE  /\ Redirect(page, me) \in Pages \ Outside
         /\ ShownOK(Redirect(page, me), me)
BY DEF Redirect, LoginPage, AuthCallbackPage, RequireAuth, ShownOK, Pages, Outside, Private

LEMMA LogoutSentOK ==
  ASSUME LoginInv, CookieInv
  PROVE  LogoutOK(LogoutSent)
<1>1. cookie.session \in Created /\ cookie.session \in 0..MaxLogins
  BY BegunLogins DEF CookieInv, Logins
<1>2. /\ LogoutSent \in Logouts /\ LogoutSent.phase = "sent"
      /\ LogoutSent.session = cookie.session
  BY <1>1 DEF LogoutSent, Logouts
<1>3. QED
  BY <1>1, <1>2 DEF LogoutOK

LEMMA OneMoreOK ==
  ASSUME LoginInv, CookieInv, NEW logouts, \A o \in logouts : LogoutOK(o)
  PROVE  \A o \in OneMore(logouts) : LogoutOK(o)
BY LogoutSentOK DEF OneMore

LEMMA LeftOK ==
  ASSUME NEW logouts, \A o \in logouts : LogoutOK(o)
  PROVE  \A o \in Left(logouts) : LogoutOK(o) /\ ~o.here
<1>1. ASSUME NEW o, LogoutOK(o)
      PROVE  LogoutOK([o EXCEPT !.here = FALSE]) /\ ~[o EXCEPT !.here = FALSE].here
  <2>1. PICK q : q = [o EXCEPT !.here = FALSE]
    OBVIOUS
  <2>2. /\ q \in Logouts /\ ~q.here /\ q.phase = o.phase /\ q.session = o.session
        /\ q.thrown = o.thrown
    BY <1>1, <2>1 DEF LogoutOK, Logouts
  <2>3. QED
    BY <1>1, <2>1, <2>2 DEF LogoutOK
<1>2. QED
  BY <1>1 DEF Left

-----------------------------------------------------------------------------
(* Tabs *)

\* What a step may do to the logins: no code is taken back, a session that was
\* created stays so and a dead one dead.
Grows ==
  /\ LoginInv'
  /\ 0..begun \subseteq 0..begun'
  /\ Created \subseteq Created'
  /\ \A l \in Logins : login[l].session = "dead" => login'[l].session = "dead"

LEMMA LogoutStays ==
  ASSUME LoginInv, Grows, NEW o, LogoutOK(o)
  PROVE  LogoutOK(o)'
BY BegunLogins DEF LogoutOK, Grows

LEMMA TabStays ==
  ASSUME LoginInv, Grows, NEW r, TabOK(r)
  PROVE  TabOK(r)'
<1>1. \A o \in r.logouts : LogoutOK(o)'
  BY LogoutStays DEF TabOK
<1>2. r \in [page    : Pages,
             login   : 0..begun',
             request : Requests(begun'),
             me      : Queries,
             logouts : SUBSET Logouts,
             out     : Outs]
  BY DEF TabOK, Grows, Requests
<1>3. QED
  BY <1>1, <1>2 DEF TabOK, Grows, ShownOK, AtLogout

\* Tab t becomes r and the others stay.
LEMMA TabStep ==
  ASSUME IInv, Grows, NEW t \in Tabs, NEW r, TabOK(r)', tab' = [tab EXCEPT ![t] = r]
  PROVE  TabInv'
<1>1. tab' = [u \in Tabs |-> IF u = t THEN r ELSE tab[u]]
  BY DEF IInv, TabInv
<1>2. ASSUME NEW u \in Tabs, u # t
      PROVE  TabOK(tab[u])'
  <2>1. PICK s : s = tab[u]
    OBVIOUS
  <2>2. TabOK(s)'
    BY <2>1, TabStays DEF IInv, TabInv
  <2>3. tab'[u] = s
    BY <1>1, <1>2, <2>1
  <2>4. QED
    BY <2>2, <2>3 DEF TabOK, LogoutOK
<1>3. TabOK(tab[t])'
  <2>1. tab'[t] = r
    BY <1>1
  <2>2. QED
    BY <2>1 DEF TabOK, LogoutOK
<1>4. tab' = [u \in Tabs |-> tab'[u]]
  BY <1>1
<1>5. QED
  BY <1>2, <1>3, <1>4 DEF TabInv

\* A tab is rendered for a query, and with logouts, that are as they should be.
LEMMA RenderOK ==
  ASSUME IInv, NEW t \in Tabs, NEW page \in Pages \ Outside,
         NEW me \in Queries, NEW logouts, \A o \in logouts : LogoutOK(o), NEW out \in Outs,
         AtLogout(tab[t].page, tab[t].me) \/ \A o \in logouts : ~o.here
  PROVE  TabOK(Render(t, page, me, logouts, out))
<1> DEFINE shown == Redirect(page, me)
           at    == AtLogout(shown, me)
           was   == AtLogout(tab[t].page, tab[t].me)
           sent  == CASE at /\ ~was -> OneMore(logouts)
                      [] ~at        -> Left(logouts)
                      [] OTHER      -> logouts
           end   == IF \/ out = "failed" /\ ~at
                       \/ out = "done" /\ me.fetch # tab[t].me.fetch
                    THEN "none" ELSE out
<1>1. TabOK(tab[t])
  BY DEF IInv, TabInv
<1>2. shown \in Pages \ Outside /\ ShownOK(shown, me)
  BY RedirectOK
<1>3. Render(t, page, me, logouts, out) =
        [tab[t] EXCEPT !.page = shown, !.me = me, !.logouts = sent, !.out = end]
  BY DEF Render
<1>4. end \in Outs /\ (end = "failed" => at)
  <2> HIDE DEF at
  <2>1. QED
    BY DEF Outs
<1>5. (\A o \in sent : LogoutOK(o)) /\ (~at => \A o \in sent : ~o.here)
  <2>1. CASE at /\ ~was
    <3>1. sent = OneMore(logouts)
      <4> HIDE DEF at, was
      <4>1. QED
        BY <2>1
    <3>2. QED
      BY <2>1, <3>1, OneMoreOK DEF IInv
  <2>2. CASE ~at
    <3>1. sent = Left(logouts)
      <4> HIDE DEF at, was
      <4>1. QED
        BY <2>2
    <3>2. QED
      BY <3>1, LeftOK
  <2>3. CASE at /\ was
    <3>1. sent = logouts
      <4> HIDE DEF at, was
      <4>1. QED
        BY <2>3
    <3>2. QED
      BY <2>3, <3>1
  <2>4. QED
    BY <2>1, <2>2, <2>3
<1> HIDE DEF shown, sent, end
<1>6. sent \in SUBSET Logouts
  BY <1>5 DEF LogoutOK
<1>7. PICK r : r = Render(t, page, me, logouts, out)
  OBVIOUS
<1>8. /\ r \in [page    : Pages,
                login   : 0..begun,
                request : Requests(begun),
                me      : Queries,
                logouts : SUBSET Logouts,
                out     : Outs]
      /\ r.page = shown /\ r.login = tab[t].login /\ r.request = tab[t].request
      /\ r.me = me /\ r.logouts = sent /\ r.out = end
  BY <1>1, <1>2, <1>3, <1>4, <1>6, <1>7 DEF TabOK
<1>9. /\ r.page \notin Outside
      /\ r.request.target = "callback" => r.login \in Created
      /\ \A o \in r.logouts : LogoutOK(o)
      /\ ShownOK(r.page, r.me)
  BY <1>1, <1>2, <1>5, <1>8 DEF TabOK
<1>10. r.out = "failed" \/ (\E o \in r.logouts : o.here) => AtLogout(r.page, r.me)
  BY <1>4, <1>5, <1>8
<1>11. TabOK(r)
  BY <1>8, <1>9, <1>10 DEF TabOK, Outside
<1>12. QED
  BY <1>7, <1>11

\* A step that renders one tab and may do something to the logins.
LEMMA RendersInv ==
  ASSUME IInv, NEW t \in Tabs, NEW page \in Pages \ Outside, NEW me \in Queries,
         NEW logouts, \A o \in logouts : LogoutOK(o), NEW out \in Outs,
         AtLogout(tab[t].page, tab[t].me) \/ \A o \in logouts : ~o.here,
         Renders(t, page, me, logouts, out),
         UNCHANGED <<begun, login>>, CookieInv'
  PROVE  IInv'
<1>1. Grows
  BY DEF IInv, Grows, LoginInv, Created
<1>2. PICK r : r = Render(t, page, me, logouts, out)
  OBVIOUS
<1>3. TabOK(r)
  BY <1>2, RenderOK
<1>4. TabOK(r)'
  BY <1>1, <1>3, TabStays DEF IInv
<1>5. TabInv'
  BY <1>1, <1>2, <1>4, TabStep DEF Renders
<1>6. QED
  BY <1>1, <1>5 DEF IInv, Grows

\* Tab t turns to something the browser has just loaded, or to Google and back.
LEMMA TurnedInv ==
  ASSUME IInv, Grows, NEW t \in Tabs, NEW r, tab' = [tab EXCEPT ![t] = r], CookieInv',
         r \in [page    : Pages,
                login   : 0..begun',
                request : Requests(begun'),
                me      : Queries,
                logouts : SUBSET Logouts,
                out     : Outs],
         r.page \in {"google", "waiting", "broken"} => r.login # 0,
         r.page \in Outside => r.me = NoQuery,
         r.request.target = None,
         r.logouts = {}, r.out = "none", AuthStatus(r.me) = "loading"
  PROVE  IInv'
<1>1. ShownOK(r.page, r.me)
  BY DEF ShownOK
<1>2. TabOK(r)'
  BY <1>1, ValuesAssumption DEF TabOK, ShownOK
<1>3. QED
  BY <1>2, TabStep DEF IInv, Grows

LEMMA NoRequestOK ==
  ASSUME NEW n \in Nat
  PROVE  /\ NoRequest \in Requests(n)
         /\ NoRequest.target = None
BY DEF NoRequest, Requests

LEMMA LeavesInv ==
  ASSUME IInv, Grows, NEW t \in Tabs, NEW page \in Outside, NEW l \in 0..begun',
         NEW request \in Requests(begun'),
         Leaves(t, page, l, request), request.target = None,
         l # 0, CookieInv'
  PROVE  IInv'
<1> DEFINE r == [page |-> page, login |-> l, request |-> request,
                 me |-> NoQuery, logouts |-> {}, out |-> "none"]
<1>1. tab' = [tab EXCEPT ![t] = r]
  BY DEF Leaves
<1>2. NoQuery \in Queries /\ AuthStatus(NoQuery) = "loading" /\ "none" \in Outs
  BY NoQueryOK DEF Outs
<1>3. page \in Pages
  BY DEF Pages
<1>4. /\ r.request.target = None /\ AuthStatus(r.me) = "loading" /\ r.me = NoQuery
      /\ r.page = page /\ r.login = l /\ r.logouts = {} /\ r.out = "none"
  BY <1>2
<1>5. r \in [page    : Pages,
             login   : 0..begun',
             request : Requests(begun'),
             me      : Queries,
             logouts : SUBSET Logouts,
             out     : Outs]
  BY <1>2, <1>3
<1> HIDE DEF r
<1>6. QED
  BY <1>1, <1>3, <1>4, <1>5, TurnedInv

LEMMA LoadsInv ==
  ASSUME IInv, UNCHANGED <<begun, login>>, NEW t \in Tabs,
         NEW page \in Private \cup {"login", "callback", "error"},
         NEW session \in {0} \cup Logins, Loads(t, page, session), CookieInv'
  PROVE  IInv'
<1>1. Grows /\ begun' \in Nat
  BY BegunLogins DEF IInv, Grows, LoginInv, Created
<1> DEFINE r == Loaded(page, session)
<1>2. tab' = [tab EXCEPT ![t] = r]
  BY DEF Loads
<1>3. Asked(session) \in Queries /\ AuthStatus(Asked(session)) = "loading"
      /\ "none" \in Outs
  BY AskedOK DEF Outs
<1>4. page \in Pages /\ page \notin Outside /\ 0 \in 0..begun'
  BY <1>1 DEF Pages, Private, Outside
<1>5. /\ NoRequest \in Requests(begun')
      /\ NoRequest.target = None
  BY <1>1, NoRequestOK
<1>6. /\ r.request = NoRequest /\ r.me = Asked(session)
      /\ r.page = page /\ r.logouts = {} /\ r.out = "none"
  BY DEF Loaded
<1>7. r \in [page    : Pages,
             login   : 0..begun',
             request : Requests(begun'),
             me      : Queries,
             logouts : SUBSET Logouts,
             out     : Outs]
  BY <1>3, <1>4, <1>5 DEF Loaded
<1> HIDE DEF r
<1>8. AuthStatus(r.me) = "loading" /\ r.request.target = None
  BY <1>3, <1>5, <1>6
<1>9. QED
  BY <1>1, <1>2, <1>4, <1>6, <1>7, <1>8, TurnedInv DEF Outside

-----------------------------------------------------------------------------
(* Logins *)

LEMMA SameGrows ==
  ASSUME IInv, UNCHANGED <<begun, login>>
  PROVE  Grows /\ (cookie' = cookie => CookieInv')
BY DEF IInv, Grows, LoginInv, CookieInv, Created

\* One login changes and takes nothing back.
LEMMA LoginGrows ==
  ASSUME IInv, NEW l \in Logins, NEW after \in Steps,
         login' = [login EXCEPT ![l] = after], UNCHANGED begun,
         after.session # "none" => after.spent,
         login[l].session # "none" => after.session # "none",
         login[l].session = "dead" => after.session = "dead"
  PROVE  Grows /\ (cookie' = cookie => CookieInv')
<1>1. /\ login' \in [Logins -> Steps]
      /\ \A k \in Logins : login'[k] = IF k = l THEN after ELSE login[k]
  BY DEF IInv, LoginInv
<1>2. LoginInv' /\ Created \subseteq Created'
  BY <1>1 DEF IInv, LoginInv, Created
<1>3. Grows
  BY <1>1, <1>2 DEF Grows
<1>4. QED
  BY <1>2, <1>3 DEF IInv, CookieInv

\* The tabs stay as they are.
LEMMA TabsStay ==
  ASSUME IInv, Grows, UNCHANGED tab, CookieInv'
  PROVE  IInv'
<1>1. ASSUME NEW u \in Tabs
      PROVE  TabOK(tab[u])'
  <2>1. PICK s : s = tab[u]
    OBVIOUS
  <2>2. TabOK(s)'
    BY <2>1, TabStays DEF IInv, TabInv
  <2>3. QED
    BY <2>1, <2>2 DEF TabOK, LogoutOK
<1>2. QED
  BY <1>1 DEF IInv, TabInv, Grows

LEMMA StepsOf ==
  ASSUME IInv, NEW l \in Logins
  PROVE  login[l] \in Steps /\ (login[l].session # "none" => login[l].spent)
BY DEF IInv, LoginInv

LEMMA SessionEndsInv ==
  ASSUME IInv, NEW l \in Logins, SessionEnds(l)
  PROVE  IInv'
<1>1. PICK after : after = [login[l] EXCEPT !.session = "dead"]
  OBVIOUS
<1>2. after \in Steps /\ after.session = "dead" /\ after.spent = login[l].spent
  BY <1>1, StepsOf DEF Steps
<1>3. login' = [login EXCEPT ![l] = after] /\ UNCHANGED <<begun, cookie, tab>>
      /\ login[l].session = "live"
  BY <1>1 DEF SessionEnds
<1>4. QED
  BY <1>2, <1>3, StepsOf, LoginGrows, TabsStay

-----------------------------------------------------------------------------
(* Signing in *)

\* The login a tab on its way through Google is about.
LEMMA LoginOfTab ==
  ASSUME IInv, NEW t \in Tabs, tab[t].page \in {"google", "waiting", "broken"}
  PROVE  tab[t].login \in Logins /\ tab[t].login \in 0..begun /\ tab[t].login # 0
BY BegunLogins DEF IInv, TabInv, TabOK

LEMMA BeginInv == ASSUME IInv, NEW t \in Tabs, Begin(t)  PROVE IInv'
<1>1. /\ begun < MaxLogins /\ begun' = begun + 1 /\ login' = login
      /\ cookie' = [cookie EXCEPT !.oauth = begun + 1]
      /\ Leaves(t, "google", begun + 1, NoRequest)
  BY DEF Begin
<1>2. begun \in Nat /\ MaxLogins \in Nat
  BY BegunLogins DEF IInv
<1>3. /\ begun' \in 0..MaxLogins /\ 0..begun \subseteq 0..begun'
      /\ begun + 1 \in 0..begun' /\ begun + 1 # 0 /\ begun' \in Nat
  BY <1>1, <1>2
<1>4. Grows
  BY <1>1, <1>3 DEF IInv, LoginInv, Grows, Created
<1>5. cookie \in [oauth : 0..begun', session : Created']
  BY <1>3, <1>4 DEF IInv, CookieInv, Grows
<1>6. CookieInv'
  BY <1>1, <1>3, <1>5 DEF CookieInv
<1>7. NoRequest \in Requests(begun')
      /\ NoRequest.target = None
  BY <1>3, NoRequestOK
<1>8. QED
  BY <1>1, <1>3, <1>4, <1>6, <1>7, LeavesInv DEF Outside

LEMMA RequestOf ==
  ASSUME IInv, NEW t \in Tabs
  PROVE  tab[t].request \in Requests(begun)
BY DEF IInv, TabInv, TabOK

\* The browser calls the callback with the cookies it has.
LEMMA CallsInv ==
  ASSUME IInv, NEW t \in Tabs, tab[t].page \in {"google", "waiting", "broken"},
         NEW agreed \in BOOLEAN, Calls(t, agreed), UNCHANGED <<begun, login, cookie>>,
         tab[t].request.target = None
  PROVE  IInv'
<1> DEFINE request == [tab[t].request EXCEPT !.agreed = agreed, !.oauth = cookie.oauth]
<1>1. tab[t].login \in 0..begun' /\ tab[t].login # 0
  BY LoginOfTab
<1>2. cookie.oauth \in 0..begun'
  BY DEF IInv, CookieInv
<1>3. tab[t].request \in Requests(begun')
  BY RequestOf
<1>4. request \in Requests(begun') /\ request.target = tab[t].request.target
  BY <1>2, <1>3 DEF Requests
<1>5. request.target = None
  BY <1>4
<1>6. Leaves(t, "waiting", tab[t].login, request)
  BY DEF Calls
<1>7. Grows /\ CookieInv'
  BY SameGrows
<1> HIDE DEF request
<1>8. QED
  BY <1>1, <1>4, <1>5, <1>6, <1>7, LeavesInv DEF Outside

LEMMA CalledInv ==
  ASSUME IInv, NEW t \in Tabs, Approve(t) \/ Decline(t) \/ CallAgain(t)
  PROVE  IInv'
<1>1. /\ tab[t].page \in {"google", "broken"} /\ UNCHANGED <<begun, login, cookie>>
      /\ Calls(t, TRUE) \/ Calls(t, FALSE) \/ Calls(t, tab[t].request.agreed)
  BY DEF Approve, Decline, CallAgain
<1>2. tab[t].request.target = None
  BY <1>1 DEF IInv, TabInv, TabOK
<1>3. tab[t].request.agreed \in BOOLEAN
  BY RequestOf DEF Requests
<1>4. QED
  BY <1>1, <1>2, <1>3, CallsInv

LEMMA CallbackLostInv == ASSUME IInv, NEW t \in Tabs, CallbackLost(t)  PROVE IInv'
<1> DEFINE request == [tab[t].request EXCEPT !.oauth = 0, !.target = None]
<1>1. /\ tab[t].login \in 0..begun' /\ tab[t].login # 0
      /\ Leaves(t, "broken", tab[t].login, request) /\ UNCHANGED <<begun, login, cookie>>
  BY LoginOfTab DEF CallbackLost
<1>2. 0 \in 0..begun
  BY BegunLogins DEF IInv
<1>3. tab[t].request \in Requests(begun') /\ 0 \in 0..begun'
  BY <1>1, <1>2, RequestOf
<1>4. request \in Requests(begun') /\ request.target = None
  BY <1>3 DEF Requests
<1>5. Grows /\ CookieInv'
  BY <1>1, SameGrows
<1> HIDE DEF request
<1>6. QED
  BY <1>1, <1>4, <1>5, LeavesInv DEF Outside

\* A tab gets to know something of its way through Google.
LEMMA RequestInv ==
  ASSUME IInv, Grows, CookieInv', NEW t \in Tabs, NEW request \in Requests(begun'),
         tab' = [tab EXCEPT ![t].request = request],
         request.target = "callback" => tab[t].login \in Created',
         tab[t].page \in {"google", "broken"} => request.target = None
  PROVE  IInv'
<1>1. PICK before : before = tab[t]
  OBVIOUS
<1>2. TabOK(before)'
  BY <1>1, TabStays DEF IInv, TabInv
<1>3. PICK r : r = [before EXCEPT !.request = request]
  OBVIOUS
<1>4. /\ r \in [page    : Pages,
                login   : 0..begun',
                request : Requests(begun'),
                me      : Queries,
                logouts : SUBSET Logouts,
                out     : Outs]
      /\ r.page = before.page /\ r.login = before.login /\ r.request = request
      /\ r.me = before.me /\ r.logouts = before.logouts /\ r.out = before.out
  BY <1>2, <1>3 DEF TabOK
<1>5. TabOK(r)'
  BY <1>1, <1>2, <1>4 DEF TabOK
<1>6. tab' = [tab EXCEPT ![t] = r]
  BY <1>1, <1>3
<1>7. TabInv'
  BY <1>5, <1>6, TabStep
<1>8. QED
  BY <1>7 DEF IInv, Grows

LEMMA ExpireInv == ASSUME IInv, NEW t \in Tabs, Expire(t)  PROVE IInv'
<1>1. PICK request : request = [tab[t].request EXCEPT !.old = TRUE]
  OBVIOUS
<1>2. UNCHANGED <<begun, login, cookie>> /\ tab' = [tab EXCEPT ![t].request = request]
  BY <1>1 DEF Expire
<1>3. Grows /\ CookieInv'
  BY <1>2, SameGrows
<1>4. request \in Requests(begun') /\ request.target = tab[t].request.target
  BY <1>1, <1>2, RequestOf DEF Requests
<1>5. /\ request.target = "callback" => tab[t].login \in Created'
      /\ tab[t].page \in {"google", "broken"} => request.target = None
  BY <1>3, <1>4 DEF IInv, TabInv, TabOK, Grows
<1>6. QED
  BY <1>2, <1>3, <1>4, <1>5, RequestInv

LEMMA SpentOK ==
  ASSUME IInv, NEW l \in Logins
  PROVE  /\ Spent(l) \in Steps /\ Spent(l).spent
         /\ Spent(l).session = login[l].session
         /\ [Spent(l) EXCEPT !.session = "live"] \in Steps
         /\ [Spent(l) EXCEPT !.session = "live"].spent
         /\ [Spent(l) EXCEPT !.session = "live"].session = "live"
<1>1. PICK before \in Steps : before = login[l]
  BY StepsOf
<1>2. PICK s : s = [before EXCEPT !.spent = TRUE]
  OBVIOUS
<1>3. s \in Steps /\ s.spent /\ s.session = before.session
  BY <1>2 DEF Steps
<1>4. PICK r : r = [s EXCEPT !.session = "live"]
  OBVIOUS
<1>5. r \in Steps /\ r.spent /\ r.session = "live"
  BY <1>3, <1>4 DEF Steps
<1>6. Spent(l) = s
  BY <1>1, <1>2 DEF Spent
<1>7. QED
  BY <1>1, <1>3, <1>4, <1>5, <1>6

\* What the callback may leave of a login: a session comes only with the answer OK, of
\* a login that was agreed to, whose code is new and whose state is still good.
LEMMA CallbackResult ==
  ASSUME IInv, NEW l \in Logins, NEW request, NEW outcome, NEW after,
         CallbackEnds(l, request, outcome, after)
  PROVE  /\ after \in Steps
         /\ after.session # "none" => after.spent
         /\ login[l].session # "none" => after.session # "none"
         /\ login[l].session = "dead" => after.session = "dead"
         /\ outcome = "OK" => after.session # "none"
         /\ after.session = "live" /\ login[l].session # "live" =>
              login[l].session = "none" /\ request.agreed /\ StateHolds(request, l)
<1>1. after \in {login[l], Spent(l), [Spent(l) EXCEPT !.session = "live"]}
  BY DEF CallbackEnds
<1>2. after # login[l] => ~login[l].spent /\ request.agreed /\ StateHolds(request, l)
  BY DEF CallbackEnds
<1>3. outcome = "OK" => after = [Spent(l) EXCEPT !.session = "live"]
  BY DEF CallbackEnds
<1>4. ~login[l].spent => login[l].session = "none"
  BY StepsOf
<1>5. QED
  BY <1>1, <1>2, <1>3, <1>4, SpentOK, StepsOf

\* The callback as one step of its login.
LEMMA CallbackStep ==
  ASSUME IInv, NEW t \in Tabs, HandleGoogleCallback(t)
  PROVE  \E l \in Logins, outcome \in handleGoogleCallback, after \in Steps :
           /\ l = tab[t].login
           /\ CallbackEnds(l, tab[t].request, outcome, after)
           /\ login' = [login EXCEPT ![l] = after]
           /\ tab' = [tab EXCEPT ![t].request.oauth = 0, ![t].request.target =
                         IF outcome = "OK" THEN "callback" ELSE "error"]
<1>1. PICK l \in Logins : l = tab[t].login
  BY LoginOfTab DEF HandleGoogleCallback
<1>2. login[l] \in Steps /\ Spent(l) \in Steps
      /\ [Spent(l) EXCEPT !.session = "live"] \in Steps
  BY StepsOf, SpentOK
<1>3. PICK outcome \in handleGoogleCallback,
           after \in {login[l], Spent(l), [Spent(l) EXCEPT !.session = "live"]} :
        /\ CallbackEnds(l, tab[t].request, outcome, after)
        /\ login' = [login EXCEPT ![l] = after]
        /\ tab' = [tab EXCEPT ![t].request.oauth = 0, ![t].request.target =
                      IF outcome = "OK" THEN "callback" ELSE "error"]
  BY <1>1 DEF HandleGoogleCallback
<1>4. after \in Steps
  BY <1>2
<1>5. QED
  BY <1>1, <1>3, <1>4

LEMMA HandleGoogleCallbackInv ==
  ASSUME IInv, NEW t \in Tabs, HandleGoogleCallback(t)
  PROVE  IInv'
<1>1. PICK l \in Logins, outcome \in handleGoogleCallback, after \in Steps :
        /\ l = tab[t].login
        /\ CallbackEnds(l, tab[t].request, outcome, after)
        /\ login' = [login EXCEPT ![l] = after]
        /\ tab' = [tab EXCEPT ![t].request.oauth = 0, ![t].request.target =
                      IF outcome = "OK" THEN "callback" ELSE "error"]
  BY CallbackStep
<1>2. Grows /\ CookieInv'
  <2>1. /\ after.session # "none" => after.spent
        /\ login[l].session # "none" => after.session # "none"
        /\ login[l].session = "dead" => after.session = "dead"
    BY <1>1, CallbackResult
  <2>2. UNCHANGED <<begun, cookie>>
    BY DEF HandleGoogleCallback
  <2>3. QED
    BY <1>1, <2>1, <2>2, LoginGrows
<1>3. outcome = "OK" => l \in Created'
  BY <1>1, CallbackResult DEF Created, IInv, LoginInv
<1>4. PICK target \in {"callback", "error"} :
        target = IF outcome = "OK" THEN "callback" ELSE "error"
  OBVIOUS
<1>5. PICK request : request = [tab[t].request EXCEPT !.oauth = 0, !.target = target]
  OBVIOUS
<1>6. tab[t].request \in Requests(begun') /\ 0 \in 0..begun'
  <2>1. 0 \in 0..begun
    BY BegunLogins DEF IInv
  <2>2. begun' = begun
    BY DEF HandleGoogleCallback
  <2>3. QED
    BY <2>1, <2>2, RequestOf
<1>7. request \in Requests(begun') /\ request.target = target
  BY <1>5, <1>6 DEF Requests
<1>8. tab' = [tab EXCEPT ![t].request = request]
  BY <1>1, <1>4, <1>5
<1>9. target = "callback" => tab[t].login \in Created'
  BY <1>1, <1>3, <1>4
<1>10. tab[t].page = "waiting"
  BY DEF HandleGoogleCallback
<1>11. QED
  BY <1>2, <1>7, <1>8, <1>9, <1>10, RequestInv

LEMMA RedirectedInv == ASSUME IInv, NEW t \in Tabs, Redirected(t)  PROVE IInv'
<1>1. Grows /\ UNCHANGED <<begun, login>>
  BY SameGrows DEF Redirected
<1>2. begun \in Nat /\ 0 \in 0..begun' /\ cookie.session \in Created'
  BY <1>1, BegunLogins DEF IInv, CookieInv, Created
<1>3. CASE tab[t].request.target = "callback"
  <2>1. cookie' = [oauth |-> 0, session |-> tab[t].login]
        /\ Loads(t, "callback", tab[t].login)
    BY <1>3 DEF Redirected
  <2>2. tab[t].login \in Created /\ tab[t].login \in {0} \cup Logins
    BY <1>3, BegunLogins DEF IInv, TabInv, TabOK
  <2>3. CookieInv'
    BY <1>1, <1>2, <2>1, <2>2 DEF CookieInv, Created
  <2>4. QED
    BY <1>1, <2>1, <2>2, <2>3, LoadsInv
<1>4. CASE tab[t].request.target # "callback"
  <2>1. cookie' = [cookie EXCEPT !.oauth = 0] /\ Loads(t, "error", cookie.session)
    BY <1>4 DEF Redirected
  <2>2. CookieInv'
    BY <1>1, <1>2, <2>1 DEF IInv, CookieInv, Created
  <2>3. cookie.session \in {0} \cup Logins
    BY BegunLogins DEF IInv, CookieInv
  <2>4. QED
    BY <1>1, <2>1, <2>2, <2>3, LoadsInv
<1>5. QED
  BY <1>3, <1>4

-----------------------------------------------------------------------------
(* Who is signed in *)

LEMMA PartsOfTab ==
  ASSUME IInv, NEW t \in Tabs
  PROVE  /\ tab[t].me \in Queries /\ tab[t].page \in Pages /\ tab[t].out \in Outs
         /\ \A o \in tab[t].logouts : LogoutOK(o)
         /\ AtLogout(tab[t].page, tab[t].me) \/ \A o \in tab[t].logouts : ~o.here
BY DEF IInv, TabInv, TabOK

\* A tab that waits for something, or knows something, is at the frontend.
LEMMA AtFrontend ==
  ASSUME IInv, NEW t \in Tabs,
         \/ tab[t].me.fetch.phase # "idle" \/ AuthStatus(tab[t].me) # "loading"
         \/ tab[t].logouts # {} \/ tab[t].out # "none" \/ tab[t].page \notin Outside
  PROVE  tab[t].page \in Pages \ Outside
<1>1. tab[t].page \in Outside =>
        tab[t].me = NoQuery /\ tab[t].logouts = {} /\ tab[t].out = "none"
  BY DEF IInv, TabInv, TabOK
<1>2. NoQuery.fetch.phase = "idle" /\ AuthStatus(NoQuery) = "loading"
  BY NoQueryOK DEF NoQuery, NoFetch
<1>3. QED
  BY <1>1, <1>2, PartsOfTab

\* The query of a tab changes.
LEMMA KnowsInv ==
  ASSUME IInv, NEW t \in Tabs, tab[t].page \in Pages \ Outside, NEW me \in Queries,
         Knows(t, me), UNCHANGED <<begun, login, cookie>>
  PROVE  IInv'
BY SameGrows, PartsOfTab, RendersInv DEF Knows

LEMMA GetCurrentUserInv == ASSUME IInv, NEW t \in Tabs, GetCurrentUser(t)  PROVE IInv'
<1>1. PICK before : before = tab[t]
  OBVIOUS
<1>2. TabOK(before) /\ before.page \in Pages \ Outside
  BY <1>1, AtFrontend DEF IInv, TabInv, GetCurrentUser
<1>3. PICK s : s = before.me.fetch.session
  OBVIOUS
<1>4. PICK value : value = IF login[s].session = "live" THEN s ELSE Anonymous
  OBVIOUS
<1>5. value \in Users
  <2>1. s \in 0..MaxLogins /\ s # 0
    BY <1>1, <1>2, <1>3 DEF TabOK, Queries, Fetches, GetCurrentUser
  <2>2. s \in Logins
    BY <2>1, LoginsAssumption DEF Logins
  <2>3. QED
    BY <1>4, <2>2 DEF Users
<1>6. PICK none \in Fetches : none = NoFetch
  BY NoFetchOK
<1>7. PICK fetch : fetch = [none EXCEPT !.phase = "answered", !.value = value]
  OBVIOUS
<1>8. fetch \in Fetches
  BY <1>5, <1>7 DEF Fetches
<1>9. PICK me : me = [before.me EXCEPT !.fetch = fetch]
  OBVIOUS
<1>10. me \in Queries /\ me.data = before.me.data /\ me.error = before.me.error
  BY <1>2, <1>8, <1>9 DEF TabOK, Queries
<1>11. AuthStatus(me) = AuthStatus(before.me)
  BY <1>10 DEF AuthStatus
<1>12. PICK r : r = [before EXCEPT !.me = me]
  OBVIOUS
<1>13. /\ r \in [page    : Pages,
                 login   : 0..begun,
                 request : Requests(begun),
                 me      : Queries,
                 logouts : SUBSET Logouts,
                 out     : Outs]
       /\ r.page = before.page /\ r.login = before.login /\ r.request = before.request
       /\ r.me = me /\ r.logouts = before.logouts /\ r.out = before.out
  BY <1>2, <1>10, <1>12 DEF TabOK
<1>14. TabOK(r)
  BY <1>2, <1>11, <1>13 DEF TabOK, ShownOK, AtLogout
<1>15. tab' = [tab EXCEPT ![t] = r]
  BY <1>1, <1>3, <1>4, <1>6, <1>7, <1>9, <1>12 DEF GetCurrentUser
<1>16. Grows /\ CookieInv'
  BY SameGrows DEF GetCurrentUser
<1>17. TabOK(r)'
  BY <1>14, <1>16, TabStays DEF IInv
<1>18. TabInv'
  BY <1>15, <1>16, <1>17, TabStep
<1>19. QED
  BY <1>16, <1>18 DEF IInv, Grows

LEMMA ArriveInv == ASSUME IInv, NEW t \in Tabs, Arrive(t)  PROVE IInv'
<1> DEFINE me == [data |-> tab[t].me.fetch.value, error |-> FALSE, fetch |-> NoFetch]
<1>1. Knows(t, me) /\ UNCHANGED <<begun, login, cookie>> /\ tab[t].me.fetch.phase # "idle"
  BY DEF Arrive
<1>2. me \in Queries
  BY PartsOfTab, NoFetchOK DEF Queries, Fetches
<1> HIDE DEF me
<1>3. QED
  BY <1>1, <1>2, AtFrontend, KnowsInv

LEMMA FetchFailsInv == ASSUME IInv, NEW t \in Tabs, FetchFails(t)  PROVE IInv'
<1> DEFINE me == [tab[t].me EXCEPT !.error = TRUE, !.fetch = NoFetch]
<1>1. Knows(t, me) /\ UNCHANGED <<begun, login, cookie>> /\ tab[t].me.fetch.phase # "idle"
  BY DEF FetchFails
<1>2. me \in Queries
  BY PartsOfTab, NoFetchOK DEF Queries
<1> HIDE DEF me
<1>3. QED
  BY <1>1, <1>2, AtFrontend, KnowsInv

LEMMA RefetchInv ==
  ASSUME IInv, NEW t \in Tabs, Focus(t) \/ Retry(t)
  PROVE  IInv'
<1>1. Refetched(tab[t].me) \in Queries
  BY PartsOfTab, RefetchedOK DEF IInv
<1>2. Knows(t, Refetched(tab[t].me)) /\ UNCHANGED <<begun, login, cookie>>
      /\ (tab[t].page \notin Outside \/ AuthStatus(tab[t].me) # "loading")
  BY DEF Focus, Retry
<1>3. QED
  BY <1>1, <1>2, AtFrontend, KnowsInv

\* The links within the frontend.
LEMMA MoveInv ==
  ASSUME IInv, NEW t \in Tabs, BackToLogin(t) \/ \E page \in Private : Go(t, page)
  PROVE  IInv'
<1>1. PICK page \in Pages \ Outside :
        Renders(t, page, tab[t].me, tab[t].logouts, tab[t].out)
        /\ UNCHANGED <<begun, login, cookie>>
  BY DEF BackToLogin, Go, Pages, Outside, Private
<1>2. QED
  BY <1>1, SameGrows, PartsOfTab, RendersInv

LEMMA OpenInv ==
  ASSUME IInv, NEW t \in Tabs, NEW page \in Private, Open(t, page)
  PROVE  IInv'
<1>1. cookie.session \in {0} \cup Logins
  BY BegunLogins DEF IInv, CookieInv
<1>2. QED
  BY <1>1, SameGrows, LoadsInv DEF Open

-----------------------------------------------------------------------------
(* Signing out *)

\* Only the handler and the middleware before it that finds no session make logout()
\* end without an error.
LEMMA StoppedThrows ==
  ASSUME IInv, NEW session \in Created, NEW outcome \in Stopped(session), SignedOut(outcome)
  PROVE  session = 0 \/ login[session].session = "dead"
<1>1. ~(session # 0 /\ login[session].session = "live")
  BY DEF Stopped, SignedOut, Failures, Anytime, Unauthorized, Forbidden, InternalError,
         ServiceUnavailable
<1>2. session # 0 => login[session] \in Steps /\ login[session].session # "none"
  BY StepsOf DEF Created
<1>3. QED
  BY <1>1, <1>2 DEF Steps

\* A logout that is answered, once the logins are what the answer made of them.
LEMMA AnsweredInv ==
  ASSUME IInv, Grows, CookieInv', NEW t \in Tabs, NEW o \in tab[t].logouts,
         NEW clears \in BOOLEAN, NEW thrown \in BOOLEAN,
         tab' = [tab EXCEPT ![t].logouts = (@ \ {o}) \cup
                   {[o EXCEPT !.phase = "answered", !.clears = clears, !.thrown = thrown]}],
         ~thrown => o.session = 0 \/ login'[o.session].session = "dead"
  PROVE  IInv'
<1>1. PICK before : before = tab[t]
  OBVIOUS
<1>2. TabOK(before)'
  BY <1>1, TabStays DEF IInv, TabInv
<1>3. LogoutOK(o)'
  BY <1>1, <1>2 DEF TabOK
<1>4. PICK q : q = [o EXCEPT !.phase = "answered", !.clears = clears, !.thrown = thrown]
  OBVIOUS
<1>5. /\ q \in Logouts /\ q.phase = "answered" /\ q.session = o.session
      /\ q.here = o.here /\ q.thrown = thrown
  BY <1>3, <1>4 DEF LogoutOK, Logouts
<1>6. LogoutOK(q)'
  BY <1>3, <1>5 DEF LogoutOK
<1>7. PICK logouts : logouts = (before.logouts \ {o}) \cup {q}
  OBVIOUS
<1>8. /\ logouts \in SUBSET Logouts
      /\ (\E p \in logouts : p.here) => \E p \in before.logouts : p.here
  BY <1>1, <1>2, <1>5, <1>7 DEF TabOK
<1>9. PICK r : r = [before EXCEPT !.logouts = logouts]
  OBVIOUS
<1>10. /\ r \in [page    : Pages,
                 login   : 0..begun',
                 request : Requests(begun'),
                 me      : Queries,
                 logouts : SUBSET Logouts,
                 out     : Outs]
       /\ r.page = before.page /\ r.login = before.login /\ r.request = before.request
       /\ r.me = before.me /\ r.logouts = logouts /\ r.out = before.out
  BY <1>2, <1>8, <1>9 DEF TabOK
<1>11. before.page \notin Outside
  BY <1>1, AtFrontend
<1>12. \A p \in logouts : LogoutOK(p)'
  BY <1>2, <1>6, <1>7 DEF TabOK
<1>13. TabOK(r)'
  BY <1>2, <1>8, <1>10, <1>11, <1>12 DEF TabOK
<1>14. tab' = [tab EXCEPT ![t] = r]
  BY <1>1, <1>4, <1>7, <1>9
<1>15. TabInv'
  BY <1>13, <1>14, TabStep
<1>16. QED
  BY <1>15 DEF IInv, Grows

LEMMA LogoutInv == ASSUME IInv, NEW t \in Tabs, Logout(t)  PROVE IInv'
<1>1. PICK o \in tab[t].logouts :
        LET s == o.session
            Answers(outcome, clears) ==
              tab' = [tab EXCEPT ![t].logouts = (@ \ {o}) \cup
                        {[o EXCEPT !.phase = "answered", !.clears = clears,
                                   !.thrown = ~SignedOut(outcome)]}]
        IN  /\ o.phase = "sent"
            /\ \/ /\ \E outcome \in Stopped(s) : Answers(outcome, FALSE)
                  /\ UNCHANGED login
               \/ /\ s # 0 /\ login[s].session = "live"
                  /\ \/ /\ login' = [login EXCEPT ![s].session = "dead"]
                        /\ Answers("OK", TRUE)
                     \/ /\ Answers("INTERNAL_ERROR", TRUE)
                        /\ UNCHANGED login
  BY DEF Logout
<1> DEFINE s == o.session
           Answers(outcome, clears) ==
             tab' = [tab EXCEPT ![t].logouts = (@ \ {o}) \cup
                       {[o EXCEPT !.phase = "answered", !.clears = clears,
                                  !.thrown = ~SignedOut(outcome)]}]
<1>2. s \in Created /\ UNCHANGED <<begun, cookie>>
  BY PartsOfTab DEF LogoutOK, Logout
<1>3. ASSUME UNCHANGED login, NEW outcome, NEW clears \in BOOLEAN, Answers(outcome, clears),
             SignedOut(outcome) => s = 0 \/ login[s].session = "dead"
      PROVE  IInv'
  <2>1. PICK thrown \in BOOLEAN : thrown = ~SignedOut(outcome)
    OBVIOUS
  <2>2. Grows /\ CookieInv'
    BY <1>2, <1>3, SameGrows
  <2>3. tab' = [tab EXCEPT ![t].logouts = (@ \ {o}) \cup
                  {[o EXCEPT !.phase = "answered", !.clears = clears, !.thrown = thrown]}]
    BY <1>3, <2>1
  <2>4. ~thrown => s = 0 \/ login'[s].session = "dead"
    BY <1>3, <2>1
  <2>5. QED
    BY <2>2, <2>3, <2>4, AnsweredInv
<1>4. CASE /\ \E outcome \in Stopped(s) : Answers(outcome, FALSE)
           /\ UNCHANGED login
  <2>1. PICK outcome \in Stopped(s) : Answers(outcome, FALSE)
    BY <1>4
  <2>2. SignedOut(outcome) => s = 0 \/ login[s].session = "dead"
    BY <1>2, StoppedThrows
  <2> HIDE DEF s, Answers
  <2>3. QED
    BY <1>3, <1>4, <2>1, <2>2
<1>5. CASE /\ s # 0 /\ login[s].session = "live"
           /\ login' = [login EXCEPT ![s].session = "dead"]
           /\ Answers("OK", TRUE)
  <2>1. PICK l \in Logins : l = s
    BY <1>2, <1>5, BegunLogins DEF IInv
  <2>2. PICK after : after = [login[l] EXCEPT !.session = "dead"]
    OBVIOUS
  <2>3. after \in Steps /\ after.session = "dead" /\ after.spent = login[l].spent
    BY <2>2, StepsOf DEF Steps
  <2>4. login' = [login EXCEPT ![l] = after] /\ login[l].session = "live"
    BY <1>5, <2>1, <2>2
  <2>5. Grows /\ CookieInv'
    BY <1>2, <2>3, <2>4, StepsOf, LoginGrows
  <2>6. login'[s].session = "dead"
    BY <2>1, <2>3, <2>4 DEF IInv, LoginInv
  <2>7. tab' = [tab EXCEPT ![t].logouts = (@ \ {o}) \cup
                  {[o EXCEPT !.phase = "answered", !.clears = TRUE, !.thrown = FALSE]}]
    BY <1>5 DEF SignedOut
  <2>8. QED
    BY <2>5, <2>6, <2>7, AnsweredInv
<1>6. CASE Answers("INTERNAL_ERROR", TRUE) /\ UNCHANGED login
  <2>1. ~SignedOut("INTERNAL_ERROR")
    BY DEF SignedOut, Unauthorized
  <2> HIDE DEF s, Answers
  <2>2. QED
    BY <1>3, <1>6, <2>1
<1>7. QED
  BY <1>1, <1>4, <1>5, <1>6

\* A tab that has a logout less, and no session of the others changed.
LEMMA OneLess ==
  ASSUME IInv, NEW t \in Tabs, NEW o \in tab[t].logouts
  PROVE  /\ tab[t].page \in Pages \ Outside
         /\ \A p \in tab[t].logouts \ {o} : LogoutOK(p)
         /\ \/ AtLogout(tab[t].page, tab[t].me)
            \/ \A p \in tab[t].logouts \ {o} : ~p.here
         /\ (IF o.here THEN "failed" ELSE tab[t].out) \in Outs
BY AtFrontend, PartsOfTab DEF Outs

LEMMA LogoutLostInv == ASSUME IInv, NEW t \in Tabs, LogoutLost(t)  PROVE IInv'
<1>1. PICK o \in tab[t].logouts : Fails(t, o)
  BY DEF LogoutLost
<1>2. UNCHANGED <<begun, login, cookie>>
  BY DEF LogoutLost
<1>3. QED
  BY <1>1, <1>2, SameGrows, OneLess, PartsOfTab, RendersInv DEF Fails

LEMMA LogoutAgainInv == ASSUME IInv, NEW t \in Tabs, LogoutAgain(t)  PROVE IInv'
<1>1. /\ tab[t].out = "failed" /\ UNCHANGED <<begun, login, cookie>>
      /\ Renders(t, tab[t].page, tab[t].me, OneMore(tab[t].logouts), "none")
  BY DEF LogoutAgain
<1>2. tab[t].page \in Pages \ Outside /\ AtLogout(tab[t].page, tab[t].me)
  BY <1>1, AtFrontend DEF IInv, TabInv, TabOK
<1>3. \A o \in OneMore(tab[t].logouts) : LogoutOK(o)
  BY PartsOfTab, OneMoreOK DEF IInv
<1>4. QED
  BY <1>1, <1>2, <1>3, SameGrows, PartsOfTab, RendersInv DEF Outs

LEMMA LoggedOutInv == ASSUME IInv, NEW t \in Tabs, LoggedOut(t)  PROVE IInv'
<1> DEFINE me  == [tab[t].me EXCEPT !.data = Anonymous, !.error = FALSE]
           end == IF tab[t].me.fetch = NoFetch THEN "none" ELSE "done"
<1>1. PICK o \in tab[t].logouts :
        /\ cookie' = IF o.clears THEN [cookie EXCEPT !.session = 0] ELSE cookie
        /\ IF o.thrown THEN Fails(t, o)
           ELSE Renders(t, tab[t].page, me, tab[t].logouts \ {o}, end)
  BY DEF LoggedOut
<1>2. UNCHANGED <<begun, login>>
  BY DEF LoggedOut
<1>3. CookieInv'
  BY <1>1, <1>2 DEF IInv, CookieInv, Created
<1>4. CASE o.thrown
  BY <1>1, <1>2, <1>3, <1>4, OneLess, PartsOfTab, RendersInv DEF Fails
<1>5. CASE ~o.thrown
  <2>1. me \in Queries /\ end \in Outs
    BY PartsOfTab DEF Queries, Users, Outs
  <2> HIDE DEF me, end
  <2>2. QED
    BY <1>1, <1>2, <1>3, <1>5, <2>1, OneLess, RendersInv
<1>6. QED
  BY <1>4, <1>5

-----------------------------------------------------------------------------
(* The theorems *)

LEMMA InitInv == Init => IInv
<1> SUFFICES ASSUME Init  PROVE IInv
  OBVIOUS
<1> USE DEF Init
<1>1. 0 \in Created /\ begun = 0 /\ 0 \in 0..MaxLogins /\ 0 \in 0..0
  BY LoginsAssumption DEF Created
<1>2. LoginInv
  BY <1>1 DEF LoginInv, Steps
<1>3. CookieInv
  BY <1>1 DEF CookieInv
<1>4. ASSUME NEW t \in Tabs
      PROVE  TabOK(tab[t])
  <2>1. tab[t] = [page |-> "login", login |-> 0, request |-> NoRequest,
                  me |-> Asked(0), logouts |-> {}, out |-> "none"]
    BY DEF Loaded
  <2>2. Asked(0) \in Queries /\ AuthStatus(Asked(0)) = "loading"
    BY AskedOK
  <2>3. NoRequest \in Requests(0)
        /\ NoRequest.target = None
    BY NoRequestOK
  <2>4. "none" \in Outs /\ "login" \notin Outside
    BY DEF Outs, Outside
  <2>5. tab[t] \in [page    : Pages,
                    login   : 0..begun,
                    request : Requests(begun),
                    me      : Queries,
                    logouts : SUBSET Logouts,
                    out     : Outs]
    BY <1>1, <2>1, <2>2, <2>3, <2>4 DEF Pages
  <2>6. QED
    BY <2>1, <2>2, <2>3, <2>4, <2>5, ValuesAssumption DEF TabOK, ShownOK, Outside
<1>5. QED
  BY <1>2, <1>3, <1>4 DEF IInv, TabInv

LEMMA StepInv == IInv /\ [Next]_vars => IInv'
<1> SUFFICES ASSUME IInv, [Next]_vars  PROVE IInv'
  OBVIOUS
<1>1. ASSUME NEW t \in Tabs,
             Begin(t) \/ Approve(t) \/ Decline(t) \/ Expire(t) \/ HandleGoogleCallback(t)
               \/ Redirected(t) \/ CallbackLost(t) \/ CallAgain(t)
      PROVE  IInv'
  BY <1>1, BeginInv, CalledInv, ExpireInv, HandleGoogleCallbackInv, RedirectedInv,
     CallbackLostInv
<1>2. ASSUME NEW t \in Tabs,
             GetCurrentUser(t) \/ Arrive(t) \/ FetchFails(t) \/ Focus(t) \/ Retry(t)
               \/ BackToLogin(t) \/ \E page \in Private : Go(t, page) \/ Open(t, page)
      PROVE  IInv'
  BY <1>2, GetCurrentUserInv, ArriveInv, FetchFailsInv, RefetchInv, MoveInv, OpenInv
<1>3. ASSUME NEW t \in Tabs,
             Logout(t) \/ LoggedOut(t) \/ LogoutLost(t) \/ LogoutAgain(t)
      PROVE  IInv'
  BY <1>3, LogoutInv, LoggedOutInv, LogoutLostInv, LogoutAgainInv
<1>4. ASSUME NEW l \in Logins, SessionEnds(l)
      PROVE  IInv'
  BY <1>4, SessionEndsInv
<1>5. CASE UNCHANGED vars
  BY <1>5, SameGrows, TabsStay DEF vars
<1>6. QED
  BY <1>1, <1>2, <1>3, <1>4, <1>5 DEF Next

LEMMA Invariant == Spec => []IInv
BY InitInv, StepInv, PTL DEF Spec

\* The cookies, the fetches and the pages of the tabs are what the handlers and the
\* routes make of them (TypeOK): for any number of tabs, a page that needs somebody to be
\* signed in is never shown to nobody.
THEOREM LoginTypeCorrect == Spec => []TypeOK
<1>1. IInv => TypeOK
  <2> SUFFICES ASSUME IInv  PROVE TypeOK
    OBVIOUS
  <2>1. cookie \in [oauth : 0..begun, session : {0} \cup {l \in Logins : login[l].spent}]
    <3>1. Created \subseteq {0} \cup {l \in Logins : login[l].spent}
      BY DEF Created, IInv, LoginInv
    <3>2. QED
      BY <3>1 DEF IInv, CookieInv
  <2>2. ASSUME NEW t \in Tabs
        PROVE  /\ tab[t].page \in Pages
               /\ tab[t].login \in 0..begun
               /\ tab[t].request \in Requests(begun)
               /\ tab[t].me.data \in Logins \cup {Anonymous, None}
               /\ tab[t].me.error \in BOOLEAN
               /\ tab[t].me.fetch.phase \in {"idle", "sent", "answered"}
               /\ tab[t].out \in {"none", "failed", "done"}
               /\ \A o \in tab[t].logouts :
                    /\ o.phase \in {"sent", "answered"}
                    /\ o.session = 0 \/ login[o.session].spent
               /\ AuthStatus(tab[t].me) = "anonymous" =>
                    tab[t].page \notin Private \cup {"callback"}
               /\ AuthStatus(tab[t].me) = "authenticated" =>
                    tab[t].page \in Private \cup {"error"}
               /\ tab[t].out = "failed" \/ (\E o \in tab[t].logouts : o.here) =>
                    AtLogout(tab[t].page, tab[t].me)
    <3>1. TabOK(tab[t])
      BY DEF IInv, TabInv
    <3>2. ASSUME NEW o \in tab[t].logouts
          PROVE  o.phase \in {"sent", "answered"} /\ (o.session = 0 \/ login[o.session].spent)
      BY <3>1 DEF TabOK, LogoutOK, Logouts, Created, IInv, LoginInv
    <3>3. QED
      BY <3>1, <3>2 DEF TabOK, Queries, Users, Fetches, Outs, ShownOK, Requests
  <2>3. QED
    BY <2>1, <2>2 DEF TypeOK, IInv, LoginInv, Steps, Requests
<1>2. QED
  BY <1>1, Invariant, PTL

\* Only the callback makes a session live.
LEMMA OnlyCallback ==
  ASSUME IInv, [Next]_vars, NEW l \in Logins,
         login'[l].session = "live", login[l].session # "live"
  PROVE  \E t \in Tabs : HandleGoogleCallback(t)
<1>1. login' # login
  OBVIOUS
<1>3. ASSUME NEW t \in Tabs, Logout(t)
      PROVE  FALSE
  <2>1. PICK o \in tab[t].logouts : login' = [login EXCEPT ![o.session].session = "dead"]
                                      /\ o.session # 0
    BY <1>1, <1>3 DEF Logout
  <2>2. PICK s : s = o.session
    OBVIOUS
  <2>3. s \in Logins /\ login' = [login EXCEPT ![s].session = "dead"]
    BY <2>1, <2>2, PartsOfTab, BegunLogins DEF IInv, LogoutOK
  <2>4. login[s] \in Steps
    BY <2>3, StepsOf
  <2>5. login'[l].session \in {login[l].session, "dead"}
    BY <2>3, <2>4 DEF IInv, LoginInv, Steps
  <2>6. QED
    BY <2>5
<1>4. ASSUME NEW k \in Logins, SessionEnds(k)
      PROVE  FALSE
  <2>1. login[k] \in Steps
    BY StepsOf
  <2>2. login'[l].session \in {login[l].session, "dead"}
    BY <1>4, <2>1 DEF SessionEnds, IInv, LoginInv, Steps
  <2>3. QED
    BY <2>2
<1>5. QED
  BY <1>1, <1>3, <1>4 DEF Next, vars, Begin, Approve, Decline, Expire, Redirected,
     CallbackLost, CallAgain, GetCurrentUser, Arrive, FetchFails, Focus, Retry, LoggedOut, LogoutLost, LogoutAgain, Go,
     BackToLogin, Open

\* Any number of tabs may begin, repeat and lose logins: a session is made of a login once,
\* while its state is young and in the cookie the callback came with (SessionsAreEarned).
THEOREM SessionsEarned == Spec => SessionsAreEarned
<1>1. ASSUME IInv, [Next]_vars, NEW l \in Logins,
             login'[l].session = "live", login[l].session # "live"
      PROVE  /\ login[l].session = "none"
             /\ \E t \in Tabs :
                  /\ tab[t].login = l /\ tab[t].request.oauth = l
                  /\ tab[t].request.agreed /\ ~tab[t].request.old
  <2>1. PICK t \in Tabs : HandleGoogleCallback(t)
    BY <1>1, OnlyCallback
  <2>2. PICK k \in Logins, outcome \in handleGoogleCallback, after \in Steps :
          /\ k = tab[t].login
          /\ CallbackEnds(k, tab[t].request, outcome, after)
          /\ login' = [login EXCEPT ![k] = after]
          /\ tab' = [tab EXCEPT ![t].request.oauth = 0, ![t].request.target =
                        IF outcome = "OK" THEN "callback" ELSE "error"]
    BY <1>1, <2>1, CallbackStep
  <2>3. k = l /\ after = login'[l]
    <3>1. \A j \in Logins : login'[j] = IF j = k THEN after ELSE login[j]
      BY <1>1, <2>2 DEF IInv, LoginInv
    <3>2. QED
      BY <1>1, <3>1
  <2>4. /\ login[l].session = "none" /\ tab[t].request.agreed
        /\ StateHolds(tab[t].request, l)
    BY <1>1, <2>2, <2>3, CallbackResult
  <2>5. QED
    BY <2>2, <2>3, <2>4 DEF StateHolds
<1>2. IInv /\ [Next]_vars =>
        \A l \in Logins :
          login'[l].session = "live" /\ login[l].session # "live" =>
            /\ login[l].session = "none"
            /\ \E t \in Tabs :
                 /\ tab[t].login = l /\ tab[t].request.oauth = l
                 /\ tab[t].request.agreed /\ ~tab[t].request.old
  BY <1>1
<1>3. QED
  BY <1>2, Invariant, PTL DEF Spec, SessionsAreEarned

\* Whenever a tab takes its user for signed out after a logout, the session it was sent with
\* is over, although 401 counts as success (SignedOutIsRevoked).
THEOREM SignedOutRevoked == Spec => SignedOutIsRevoked
<1>1. IInv /\ [Next]_vars =>
        \A t \in Tabs : \A o \in tab[t].logouts :
          o.phase = "answered" /\ ~o.thrown /\ o \notin tab'[t].logouts =>
            o.session = 0 \/ login[o.session].session = "dead"
  BY DEF IInv, TabInv, TabOK, LogoutOK
<1>2. QED
  BY <1>1, Invariant, PTL DEF Spec, SignedOutIsRevoked

=============================================================================
