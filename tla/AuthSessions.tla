----------------------------- MODULE AuthSessions -----------------------------
(***************************************************************************)
(* Accounts and sessions: the tables users and sessions                    *)
(* (repository/auth.go, services/auth.go), the middleware chain of the     *)
(* router (RequireAuth, RequireRole, RequireCSRF), the end of a login, the *)
(* logout, the cleanup (cmd/api/main.go), and the cookies of one browser   *)
(* that has several requests in flight.  Every SQL statement is one step.  *)
(*                                                                         *)
(* A user is known by its Google account, which the code maps to one id    *)
(* for ever; a session by its raw token, of which the table has the hash.  *)
(***************************************************************************)
EXTENDS CsrfToken, FiniteSets

CONSTANTS
  Requests,     \* slots of requests in progress
  Kinds,        \* the kinds of requests the browser makes
  Accounts,     \* Google accounts (google_subject)
  Emails,
  AllowLists,   \* values AUTH_ADMIN_EMAILS may have at a start of the process
  MaxSession,   \* bound on the sessions created
  MaxTime,      \* bound on the clock
  None,         \* absent row or cookie; in a reply, a cookie left alone
  Cleared       \* in a reply, a cookie set to be dropped

AllKinds == {"ME", "MUTATE", "LOGOUT", "CALLBACK"}

ASSUME KindsAssumption == Kinds \subseteq AllKinds

ASSUME BoundsAssumption ==
  /\ MaxSession \in Nat \ {0}
  /\ MaxTime \in Nat \ {0}

ASSUME AllowListsAssumption == AllowLists # {} /\ AllowLists \subseteq SUBSET Emails

Sessions == 1..MaxSession
Times == 0..MaxTime
Expiries == 0..(MaxTime + SessionTTL)
Csrf == [session : Sessions, hour : 0..HourBucket(MaxTime)]
Identity == [account : Accounts, email : Emails]
User == [email : Emails, role : {"user", "admin"}]
Session == [user : Accounts, expires : Expiries, revoked : BOOLEAN]

Call == [kind     : AllKinds,
         session  : Sessions \cup {None},
         csrf     : Csrf \cup {None},
         identity : Identity \cup {None}]

\* What the handler of a request knows after RequireAuth.
Principal == [user : Accounts, role : {"user", "admin", None}, csrf : Csrf \cup {None}]

Codes == {"OK", "UNAUTHORIZED", "FORBIDDEN", "CSRF_TOKEN_INVALID",
          "OAUTH_CALLBACK_FAILED", "SERVER_ERROR"}

Reply == [code    : Codes,
          session : Sessions \cup {None, Cleared},
          csrf    : Csrf \cup {None, Cleared}]

\* A cookie in the browser and the time at which it is dropped.
Held == [value : Sessions \cup Csrf, until : Expiries]

Phases == {"idle", "received", "session", "authenticated", "checked", "upserted", "done"}

ASSUME ValuesAssumption ==
  /\ None # Cleared
  /\ {None, Cleared} \cap (Sessions \cup Csrf) = {}
  /\ None \notin User \cup Session \cup Call \cup Identity \cup Principal \cup Reply
                  \cup Held \cup {"user", "admin"}

VARIABLES
  now,           \* the clock
  users,         \* table users
  sessions,      \* table sessions
  nextSession,   \* the session the next random token will name
  admins,        \* the allowlist the process was started with
  adminsSince,   \* when the allowlist last changed
  jar,           \* the browser's cookies, with the time at which it drops them
  pc, call, auth, reply,
  deadOnArrival  \* history: the session of the request was not active on receipt

tables == <<users, sessions, nextSession>>
config == <<admins, adminsSince>>
vars == <<now, users, sessions, nextSession, admins, adminsSince,
          jar, pc, call, auth, reply, deadOnArrival>>

-----------------------------------------------------------------------------
(* Data *)

\* revoked_at IS NULL AND expires_at > now; no session cookie is no session.
Active(s) ==
  /\ s \in Sessions
  /\ sessions[s] # None
  /\ ~sessions[s].revoked
  /\ sessions[s].expires > now

Dead(s) == sessions[s] # None /\ ~Active(s)

\* The role a login gives (services UpsertGoogleUser).
RoleOf(email) == IF email \in admins THEN "admin" ELSE "user"

\* Mutant: ON CONFLICT DO UPDATE leaves the role alone.
UpsertedSameRole(id) ==
  [email |-> id.email,
   role  |-> IF users[id.account] # None THEN users[id.account].role ELSE RoleOf(id.email)]

\* The row an upsert writes.
Upserted(id) == [email |-> id.email, role |-> RoleOf(id.email)]

\* The unique index on email, checked for the row of account.
EmailFree(email, account) ==
  \A other \in Accounts \ {account} : users[other] # None => users[other].email # email

\* A cookie the browser holds until its Max-Age has passed since it was received.
Cookie(value) == [value |-> value, until |-> now + SessionTTL]

Unexpired(cookie, t) == IF cookie # None /\ cookie.until <= t THEN None ELSE cookie

\* The cookie after a response that sets, clears or leaves it.
Applied(set, cookie) ==
  IF set = None THEN cookie ELSE IF set = Cleared THEN None ELSE Cookie(set)

Value(cookie) == IF cookie = None THEN None ELSE cookie.value

-----------------------------------------------------------------------------
(* Requests *)

Init ==
  /\ now = 0
  /\ users = [a \in Accounts |-> None]
  /\ sessions = [s \in Sessions |-> None]
  /\ nextSession = 1
  /\ admins \in AllowLists
  /\ adminsSince = 0
  /\ jar = [session |-> None, csrf |-> None]
  /\ pc = [r \in Requests |-> "idle"]
  /\ call = [r \in Requests |-> None]
  /\ auth = [r \in Requests |-> None]
  /\ reply = [r \in Requests |-> None]
  /\ deadOnArrival = [r \in Requests |-> FALSE]

\* The browser sends a request with its cookies; apiRequest copies the CSRF cookie
\* into the header of requests that change something.  A callback comes with the
\* identity Google has vouched for.
Receive(r, kind, id) ==
  LET s == Value(jar.session)
  IN /\ pc[r] = "idle"
     /\ kind = "CALLBACK" <=> id # None
     /\ pc' = [pc EXCEPT ![r] = "received"]
     /\ call' = [call EXCEPT ![r] =
                   [kind     |-> kind,
                    session  |-> s,
                    csrf     |-> IF kind \in {"MUTATE", "LOGOUT"} THEN Value(jar.csrf) ELSE None,
                    identity |-> id]]
     /\ deadOnArrival' = [deadOnArrival EXCEPT ![r] = ~Active(s)]
     /\ UNCHANGED <<now, tables, config, jar, auth, reply>>

\* The response is written: its code and what it does to the two cookies.  Of the
\* request, kind and session are kept for the properties.
Answer(r, code, session, csrf) ==
  /\ pc' = [pc EXCEPT ![r] = "done"]
  /\ call' = [call EXCEPT ![r].csrf = None]
  /\ auth' = [auth EXCEPT ![r] = None]
  /\ reply' = [reply EXCEPT ![r] = [code |-> code, session |-> session, csrf |-> csrf]]
  /\ UNCHANGED <<now, config, jar, deadOnArrival>>

\* Mutant: the look-up does not ask for revoked_at IS NULL.
FoundIfUnexpired(s) ==
  s \in Sessions /\ sessions[s] # None /\ sessions[s].expires > now

\* WHERE token_hash = $1 AND revoked_at IS NULL AND expires_at > $2
Found(s) == Active(s)

\* RequireAuth, first statement: GetActiveByTokenHash.
GetActiveSession(r) ==
  LET s == call[r].session
  IN /\ pc[r] = "received"
     /\ call[r].kind # "CALLBACK"
     /\ \/ /\ ~Found(s)
           /\ Answer(r, "UNAUTHORIZED", None, None)
        \/ /\ Found(s)
           /\ pc' = [pc EXCEPT ![r] = "session"]
           /\ auth' = [auth EXCEPT ![r] =
                         [user |-> sessions[s].user, role |-> None, csrf |-> None]]
           /\ UNCHANGED <<now, config, jar, call, reply, deadOnArrival>>
     /\ UNCHANGED tables

\* Mutant: RequireAuth sets no CSRF cookie for a request that sent one.
RefreshedIfMissing(r) ==
  IF call[r].csrf # None THEN None ELSE Sign(call[r].session, now)

\* The CSRF cookie of the response (SetCSRFCookie).
Refreshed(r) == Sign(call[r].session, now)

\* RequireAuth, second statement: GetByID.  Users are never deleted.
GetUser(r) ==
  /\ pc[r] = "session"
  /\ pc' = [pc EXCEPT ![r] = "authenticated"]
  /\ auth' = [auth EXCEPT ![r] =
                [user |-> @.user, role |-> users[@.user].role, csrf |-> Refreshed(r)]]
  /\ UNCHANGED <<now, tables, config, jar, call, reply, deadOnArrival>>

\* GET /auth/me: no check between RequireAuth and the handler.
GetCurrentUser(r) ==
  /\ pc[r] = "authenticated"
  /\ call[r].kind = "ME"
  /\ Answer(r, "OK", None, auth[r].csrf)
  /\ UNCHANGED tables

\* RequireRole and RequireCSRF, in the order of the router.
Check(r) ==
  LET c == call[r]
      forbidden == c.kind = "MUTATE" /\ auth[r].role # "admin"
      forged    == c.csrf = None \/ ~Valid(c.session, c.csrf, now)
  IN /\ pc[r] = "authenticated"
     /\ c.kind \in {"MUTATE", "LOGOUT"}
     /\ \/ /\ forbidden
           /\ Answer(r, "FORBIDDEN", None, auth[r].csrf)
        \/ /\ ~forbidden /\ forged
           /\ Answer(r, "CSRF_TOKEN_INVALID", None, auth[r].csrf)
        \/ /\ ~forbidden /\ ~forged
           /\ pc' = [pc EXCEPT ![r] = "checked"]
           /\ UNCHANGED <<now, config, jar, call, auth, reply, deadOnArrival>>
     /\ UNCHANGED tables

\* The handlers of the requests that change ingredients: IngredientStore.
Mutate(r) ==
  /\ pc[r] = "checked"
  /\ call[r].kind = "MUTATE"
  /\ Answer(r, "OK", None, auth[r].csrf)
  /\ UNCHANGED tables

\* Mutant: the UPDATE of a logout looks for the sessions already revoked.
RevocableIfRevoked(s) == sessions[s] # None /\ sessions[s].revoked

\* WHERE token_hash = $1 AND revoked_at IS NULL AND expires_at > $2
Revocable(s) == Active(s)

\* Logout: RevokeByTokenHash.  The cookies are cleared even if it fails.
Logout(r) ==
  LET s == call[r].session
  IN /\ pc[r] = "checked"
     /\ call[r].kind = "LOGOUT"
     /\ \/ /\ Revocable(s)
           /\ sessions' = [sessions EXCEPT ![s].revoked = TRUE]
           /\ \E code \in {"OK", "SERVER_ERROR"} : Answer(r, code, Cleared, Cleared)
        \/ /\ ~Revocable(s)
           /\ Answer(r, "UNAUTHORIZED", Cleared, Cleared)
           /\ UNCHANGED sessions
     /\ UNCHANGED <<users, nextSession>>

\* A callback, first statement: UpsertGoogleUser.
UpsertGoogleUser(r) ==
  LET id == call[r].identity
  IN /\ pc[r] = "received"
     /\ call[r].kind = "CALLBACK"
     /\ \/ /\ EmailFree(id.email, id.account)
           /\ users' = [users EXCEPT ![id.account] = Upserted(id)]
           /\ \/ /\ pc' = [pc EXCEPT ![r] = "upserted"]
                 /\ UNCHANGED <<now, config, jar, call, auth, reply, deadOnArrival>>
              \/ Answer(r, "SERVER_ERROR", None, None)
        \/ /\ ~EmailFree(id.email, id.account)
           /\ Answer(r, "OAUTH_CALLBACK_FAILED", None, None)
           /\ UNCHANGED users
     /\ UNCHANGED <<sessions, nextSession>>

\* A callback, second statement: CreateSession.
CreateSession(r) ==
  LET s == nextSession
  IN /\ pc[r] = "upserted"
     /\ s <= MaxSession
     /\ sessions' = [sessions EXCEPT ![s] =
                       [user |-> call[r].identity.account, expires |-> now + SessionTTL,
                        revoked |-> FALSE]]
     /\ nextSession' = s + 1
     /\ \/ Answer(r, "OK", s, Sign(s, now))
        \/ Answer(r, "SERVER_ERROR", None, None)
     /\ UNCHANGED users

\* The statement r is about to run fails before it has an effect.  A logout clears
\* the cookies all the same.
DbFault(r) ==
  /\ \/ pc[r] = "received" /\ (call[r].kind = "CALLBACK" \/ call[r].session # None)
     \/ pc[r] \in {"session", "checked", "upserted"}
  /\ IF pc[r] = "checked" /\ call[r].kind = "LOGOUT"
     THEN Answer(r, "SERVER_ERROR", Cleared, Cleared)
     ELSE Answer(r, "SERVER_ERROR", None, IF pc[r] = "checked" THEN auth[r].csrf ELSE None)
  /\ UNCHANGED tables

Forget(r) ==
  /\ pc' = [pc EXCEPT ![r] = "idle"]
  /\ call' = [call EXCEPT ![r] = None]
  /\ reply' = [reply EXCEPT ![r] = None]
  /\ deadOnArrival' = [deadOnArrival EXCEPT ![r] = FALSE]

\* The response arrives and the browser applies its cookies.
Deliver(r) ==
  /\ pc[r] = "done"
  /\ jar' = [session |-> Applied(reply[r].session, jar.session),
             csrf    |-> Applied(reply[r].csrf, jar.csrf)]
  /\ Forget(r)
  /\ UNCHANGED <<now, tables, config, auth>>

\* The response is lost on the way.
Lose(r) ==
  /\ pc[r] = "done"
  /\ Forget(r)
  /\ UNCHANGED <<now, tables, config, jar, auth>>

-----------------------------------------------------------------------------
(* The process and the clock *)

\* Mutant: the cleanup deletes the sessions that are both expired and revoked.
CollectableIfBoth(s) ==
  sessions[s] # None /\ sessions[s].expires <= now /\ sessions[s].revoked

\* WHERE expires_at <= $1 OR revoked_at IS NOT NULL
Collectable(s) ==
  sessions[s] # None /\ (sessions[s].expires <= now \/ sessions[s].revoked)

Collected == [s \in Sessions |-> IF Collectable(s) THEN None ELSE sessions[s]]

\* A cleanup that gets through before its timeout.
Cleanup ==
  /\ \E s \in Sessions : Collectable(s)
  /\ sessions' = Collected
  /\ UNCHANGED <<now, users, nextSession, config, jar, pc, call, auth, reply, deadOnArrival>>

\* The process stops and is started, perhaps with another allowlist.  It tries a
\* cleanup before it serves.
Restart(list) ==
  /\ admins' = list
  /\ adminsSince' = IF list = admins THEN adminsSince ELSE now
  /\ sessions' \in {sessions, Collected}
  /\ pc' = [r \in Requests |-> "idle"]
  /\ call' = [r \in Requests |-> None]
  /\ auth' = [r \in Requests |-> None]
  /\ reply' = [r \in Requests |-> None]
  /\ deadOnArrival' = [r \in Requests |-> FALSE]
  /\ UNCHANGED <<now, users, nextSession, jar>>

Tick ==
  /\ now < MaxTime
  /\ now' = now + 1
  /\ jar' = [session |-> Unexpired(jar.session, now + 1),
             csrf    |-> Unexpired(jar.csrf, now + 1)]
  /\ UNCHANGED <<tables, config, pc, call, auth, reply, deadOnArrival>>

\* One step of the handler of r.
Handle(r) ==
  \/ GetActiveSession(r) \/ GetUser(r) \/ GetCurrentUser(r) \/ Check(r)
  \/ Mutate(r) \/ Logout(r)
  \/ UpsertGoogleUser(r) \/ CreateSession(r) \/ DbFault(r)

Next ==
  \/ \E r \in Requests :
       \/ \E kind \in Kinds, id \in Identity \cup {None} : Receive(r, kind, id)
       \/ Handle(r)
       \/ Deliver(r)
       \/ Lose(r)
  \/ Cleanup
  \/ \E list \in AllowLists : Restart(list)
  \/ Tick

Spec == Init /\ [][Next]_vars

\* The ticker of runSessionCleanup never stops, and a cleanup that failed is tried
\* again an hour later: one gets through in the end.
FairSpec == Spec /\ WF_vars(Cleanup)

-----------------------------------------------------------------------------
(* Properties *)

\* Every variable holds what the code can put in it.
TypeOK ==
  /\ now \in Times /\ adminsSince \in Times
  /\ users \in [Accounts -> User \cup {None}]
  /\ sessions \in [Sessions -> Session \cup {None}]
  /\ nextSession \in 1..(MaxSession + 1)
  /\ admins \in AllowLists
  /\ Value(jar.session) \in Sessions \cup {None}
  /\ Value(jar.csrf) \in Csrf \cup {None}
  /\ pc \in [Requests -> Phases]
  /\ call \in [Requests -> Call \cup {None}]
  /\ auth \in [Requests -> Principal \cup {None}]
  /\ reply \in [Requests -> Reply \cup {None}]
  /\ deadOnArrival \in [Requests -> BOOLEAN]
  /\ \A r \in Requests : pc[r] \in {"authenticated", "checked"} =>
       auth[r].role # None /\ auth[r].csrf # None

\* A request with the token of a session that is revoked, expired or gone gets no
\* answer but 401 or 5xx, whatever logins, logouts and cleanups run beside it.
DeadStaysDead ==
  \A r \in Requests :
     pc[r] = "done" /\ call[r].kind # "CALLBACK" /\ deadOnArrival[r]
        => reply[r].code \in {"UNAUTHORIZED", "SERVER_ERROR"}

\* A logout answered 204 or 401 has ended the session: it will not be active again.
LogoutIsFinal ==
  \A r \in Requests :
     pc[r] = "done" /\ call[r].kind = "LOGOUT" /\ call[r].session # None
        /\ reply[r].code \in {"OK", "UNAUTHORIZED"}
        => ~Active(call[r].session)

\* A browser that has a session cookie has a CSRF cookie, and a CSRF cookie of that
\* session is accepted for as long as the session lives ("the token is accepted
\* within the lifetime of the session").
HeldTokenAccepted ==
  jar.session # None =>
    /\ jar.csrf # None
    /\ LET s == jar.session.value
           c == jar.csrf.value
       IN Active(s) /\ c.session = s => Valid(s, c, now)

\* Late responses of an older session may leave the browser a CSRF cookie of that
\* session.  A response to a request of the present session mends that, a refusal for
\* the CSRF token itself included: the request can be tried again.
ReplyHeals ==
  [][\A r \in Requests :
       Deliver(r) /\ reply[r].code \in {"OK", "FORBIDDEN", "CSRF_TOKEN_INVALID"} =>
         LET s == Value(jar'.session)
         IN s # None /\ s \in {call[r].session, reply[r].session} /\ Active(s)
              => /\ jar'.csrf # None
                 /\ Valid(s, jar'.csrf.value, now)]_vars

\* A role outlives the allowlist it was given under for as long as the sessions then
\* open last, and no longer: a login gives the role anew.
StaleAdminsExpire ==
  \A s \in Sessions :
     Active(s) /\ users[sessions[s].user].role = "admin"
        /\ users[sessions[s].user].email \notin admins
        => sessions[s].expires <= adminsSince + SessionTTL

\* A logout that clears the session cookie leaves no active session behind ("a session
\* known to be invalid").
ClearedCookieIsDead ==
  [][\A r \in Requests :
       pc[r] = "checked" /\ pc'[r] = "done" /\ reply'[r].session = Cleared
         => ~Active(call[r].session)']_vars

\* A revoked or expired session is deleted in the end.
DeadSessionsGo == \A s \in Sessions : Dead(s) ~> (sessions[s] = None)

=============================================================================
