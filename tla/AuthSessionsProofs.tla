-------------------------- MODULE AuthSessionsProofs --------------------------
(***************************************************************************)
(* Theorems about AuthSessions: for any number of requests, accounts and   *)
(* sessions, a session that is dead stays dead, a logout is final, a role  *)
(* outlives its allowlist by no more than a session lives, and, for the    *)
(* lifetimes the window of CSRF tokens covers, the CSRF cookie a browser   *)
(* holds is accepted.                                                      *)
(***************************************************************************)
EXTENDS AuthSessions, CsrfTokenProofs

-----------------------------------------------------------------------------
(* The invariant *)

\* An administrator the allowlist does not name, or no longer.
Stale(a) == users[a] # None /\ users[a].role = "admin" /\ users[a].email \notin admins

\* The session of a cookie or a request: none, or one that has been created.
Known(s) == s = None \/ (s \in Sessions /\ s < nextSession)

\* A CSRF token the backend has signed for a session, not before it was created.
Issued(c) ==
  /\ c \in Csrf
  /\ c.session < nextSession
  /\ c.hour <= HourBucket(now)
  /\ sessions[c.session] # None =>
       HourBucket(sessions[c.session].expires - SessionTTL) <= c.hour

\* What the two tables and the allowlist have to do with each other.
RowInv(s) ==
  sessions[s] # None =>
    /\ s < nextSession
    /\ users[sessions[s].user] # None
    /\ SessionTTL <= sessions[s].expires
    /\ sessions[s].expires <= now + SessionTTL
    /\ Stale(sessions[s].user) => sessions[s].expires <= adminsSince + SessionTTL

TableInv ==
  /\ adminsSince <= now
  /\ \A s \in Sessions : RowInv(s)

\* The CSRF cookie of a browser outlives its session cookie.
JarInv ==
  /\ jar.session # None =>
       /\ jar.session.value \in Sessions /\ jar.session.value < nextSession
       /\ jar.session.until \in Int /\ jar.session.until <= now + SessionTTL
       /\ jar.csrf # None /\ jar.session.until <= jar.csrf.until
  /\ jar.csrf # None => Issued(jar.csrf.value) /\ jar.csrf.until \in Int

\* A request in progress: it carries a session that has been created, and one that
\* was not active when it came in is not active now.
CallInv(r) ==
  pc[r] # "idle" =>
    /\ call[r] \in Call
    /\ Known(call[r].session)
    /\ call[r].kind = "CALLBACK" <=> call[r].identity # None
    /\ deadOnArrival[r] => ~Active(call[r].session)

\* RequireAuth lets no request through whose session was not active.
AuthInv(r) ==
  /\ pc[r] \in {"session", "authenticated", "checked"} =>
       /\ call[r].kind # "CALLBACK"
       /\ call[r].session \in Sessions
       /\ ~deadOnArrival[r]
       /\ auth[r] \in Principal
       /\ users[auth[r].user] # None
  /\ pc[r] \in {"authenticated", "checked"} =>
       /\ auth[r].role # None
       /\ auth[r].csrf # None
       /\ auth[r].csrf.session = call[r].session
       /\ Issued(auth[r].csrf)

\* Between the two statements of a login the account is there, with the role the
\* present allowlist gives it.
UpsertedInv(r) ==
  pc[r] = "upserted" =>
    /\ call[r].kind = "CALLBACK"
    /\ users[call[r].identity.account] # None
    /\ ~Stale(call[r].identity.account)

Healing == {"OK", "FORBIDDEN", "CSRF_TOKEN_INVALID"}

\* The session a response leaves the browser with, if its cookie is kept or set.
SessionAfter(r) ==
  IF reply[r].session = None THEN call[r].session ELSE reply[r].session

\* A response sets the session cookie with the CSRF cookie, and clears both.
ReplyInv(r) ==
  pc[r] = "done" =>
    /\ reply[r] \in Reply
    /\ Known(reply[r].session) \/ reply[r].session = Cleared
    /\ reply[r].session = Cleared <=> reply[r].csrf = Cleared
    /\ reply[r].session \in Sessions => reply[r].csrf \in Csrf
    /\ reply[r].csrf \in Csrf => Issued(reply[r].csrf)
    /\ reply[r].code \in Healing /\ reply[r].session # Cleared =>
         reply[r].csrf \in Csrf /\ reply[r].csrf.session = SessionAfter(r)

\* DeadStaysDead and LogoutIsFinal, for one request.
DeadInv(r) ==
  pc[r] = "done" /\ call[r].kind # "CALLBACK" /\ deadOnArrival[r]
    => reply[r].code \in {"UNAUTHORIZED", "SERVER_ERROR"}

LogoutInv(r) ==
  pc[r] = "done" /\ call[r].kind = "LOGOUT" /\ call[r].session # None
     /\ reply[r].code \in {"OK", "UNAUTHORIZED"}
    => ~Active(call[r].session)

SlotInv(r) ==
  /\ CallInv(r) /\ AuthInv(r) /\ UpsertedInv(r)
  /\ ReplyInv(r) /\ DeadInv(r) /\ LogoutInv(r)

\* The part of TypeOK that does not follow from the rest.
RowsTyped ==
  /\ now \in Times /\ adminsSince \in Times
  /\ users \in [Accounts -> User \cup {None}]
  /\ sessions \in [Sessions -> Session \cup {None}]
  /\ nextSession \in 1..(MaxSession + 1)
  /\ admins \in AllowLists

SlotsTyped ==
  /\ pc \in [Requests -> Phases]
  /\ call \in [Requests -> Call \cup {None}]
  /\ auth \in [Requests -> Principal \cup {None}]
  /\ reply \in [Requests -> Reply \cup {None}]
  /\ deadOnArrival \in [Requests -> BOOLEAN]

Typed == RowsTyped /\ SlotsTyped

IInv == Typed /\ TableInv /\ JarInv /\ \A r \in Requests : SlotInv(r)

-----------------------------------------------------------------------------
(* Data *)

\* No value stands for another.
LEMMA Distinct ==
  /\ None # Cleared
  /\ None \notin Sessions /\ Cleared \notin Sessions
  /\ None \notin Csrf /\ Cleared \notin Csrf
  /\ None \notin User /\ None \notin Session /\ None \notin Call
  /\ None \notin Identity /\ None \notin Principal /\ None \notin Reply
  /\ None \notin Held /\ None \notin {"user", "admin"}
BY ValuesAssumption

LEMMA TimesAreNat == Times \subseteq Nat /\ SessionTTL \in Nat \ {0} /\ MaxTime \in Nat
BY BoundsAssumption, TTLAssumption DEF Times

\* A token signed now is a CSRF token of its session.
LEMMA SignedToken ==
  ASSUME now \in Times, NEW s \in Sessions
  PROVE  /\ Sign(s, now) \in Csrf
         /\ Sign(s, now).session = s
         /\ Sign(s, now).hour = HourBucket(now)
<1>1. HourBucket(now) \in Nat /\ HourBucket(MaxTime) \in Nat
  BY TimesAreNat, BucketBounds
<1>2. HourBucket(now) <= HourBucket(MaxTime)
  <2>1. now \in Nat /\ now <= MaxTime
    BY TimesAreNat DEF Times
  <2>2. QED
    BY <2>1, TimesAreNat, BucketMonotone
<1>3. HourBucket(now) \in 0..HourBucket(MaxTime)
  BY <1>1, <1>2
<1>4. QED
  BY <1>3 DEF Sign, Csrf

\* ... and issued, if the session has been created.
LEMMA SignedIsIssued ==
  ASSUME RowsTyped, TableInv, NEW s \in Sessions, s < nextSession
  PROVE  Issued(Sign(s, now))
<1>1. now \in Times
  BY DEF RowsTyped
<1>2. /\ Sign(s, now) \in Csrf /\ Sign(s, now).session = s
      /\ Sign(s, now).hour = HourBucket(now)
  BY <1>1, SignedToken
<1>3. HourBucket(now) \in Nat
  BY <1>1, TimesAreNat, BucketBounds
<1>4. ASSUME sessions[s] # None
      PROVE  HourBucket(sessions[s].expires - SessionTTL) <= HourBucket(now)
  <2>1. sessions[s] \in Session
    BY <1>4 DEF RowsTyped
  <2>2. sessions[s].expires \in Nat
    BY <2>1, TimesAreNat DEF Session, Expiries
  <2>3. SessionTTL <= sessions[s].expires /\ sessions[s].expires <= now + SessionTTL
    BY <1>4 DEF TableInv, RowInv
  <2>4. /\ sessions[s].expires - SessionTTL \in Nat /\ now \in Nat
        /\ sessions[s].expires - SessionTTL <= now
    BY <1>1, <2>2, <2>3, TimesAreNat
  <2>5. QED
    BY <2>4, BucketMonotone
<1>5. QED
  BY <1>2, <1>3, <1>4 DEF Issued

\* An issued token of a session is accepted for as long as the session is active.
LEMMA IssuedIsValid ==
  ASSUME WholeHours, RowsTyped, TableInv, NEW c, Issued(c), Active(c.session)
  PROVE  Valid(c.session, c, now)
<1> DEFINE s == c.session
           birth == sessions[s].expires - SessionTTL
<1>1. s \in Sessions /\ sessions[s] # None /\ sessions[s].expires > now
  BY DEF Active
<1>2. sessions[s] \in Session
  BY <1>1 DEF RowsTyped
<1>3. sessions[s].expires \in Nat
  BY <1>2, TimesAreNat DEF Session, Expiries
<1>4. /\ now \in Nat /\ birth \in Nat
      /\ birth <= now /\ now < birth + SessionTTL
  BY <1>1, <1>3, TimesAreNat DEF RowsTyped, TableInv, RowInv
<1>5. HourBucket(birth) <= c.hour /\ c.hour <= HourBucket(now) /\ c.hour \in Nat
  <2>1. HourBucket(MaxTime) \in Nat
    BY TimesAreNat, BucketBounds
  <2>2. c.hour \in Nat
    BY <2>1 DEF Issued, Csrf
  <2>3. QED
    BY <1>1, <2>2 DEF Issued
<1>6. HourBucket(birth) \in Nat /\ HourBucket(now) \in Nat
  BY <1>4, BucketBounds
<1>7. Valid(s, Sign(s, birth), now)
  BY <1>4, WindowCoversLifetime
<1>8. HourBucket(now) - HourBucket(birth) \in -HourSkew..MaxHourDelta
  BY <1>7 DEF Valid, Sign
<1> HIDE DEF birth
<1>9. MaxHourDelta \in Int
  <2>1. SessionTTL \div HourSeconds \in Int
    BY TTLAssumption, HourAssumption
  <2>2. QED
    BY <2>1 DEF MaxHourDelta, HourSkew
<1>10. HourBucket(now) - c.hour \in -HourSkew..MaxHourDelta
  BY <1>5, <1>6, <1>8, <1>9 DEF HourSkew
<1>11. QED
  BY <1>10 DEF Valid

-----------------------------------------------------------------------------
(* What a step does to the tables *)

\* Time passes, users and sessions are not forgotten, and a row of sessions is never
\* brought back to life.
Evolves ==
  /\ now <= now'
  /\ nextSession <= nextSession'
  /\ \A a \in Accounts : users[a] # None => users'[a] # None
  /\ \A s \in Sessions :
       s < nextSession /\ sessions'[s] # None =>
         /\ sessions[s] # None
         /\ sessions'[s].expires = sessions[s].expires
         /\ sessions[s].revoked => sessions'[s].revoked

\* No account that had the role the allowlist gives it has another one.
Settled == \A a \in Accounts : users[a] # None /\ ~Stale(a) => ~Stale(a)'

LEMMA DeadStays ==
  ASSUME RowsTyped, RowsTyped', Evolves, NEW s, Known(s), ~Active(s)
  PROVE  ~Active(s)'
<1>1. SUFFICES ASSUME Active(s)'  PROVE FALSE
  OBVIOUS
<1>2. s \in Sessions /\ s < nextSession /\ sessions'[s] # None
  BY <1>1, Distinct DEF Active, Known
<1>3. sessions[s] # None /\ sessions'[s].expires = sessions[s].expires /\ ~sessions[s].revoked
  BY <1>1, <1>2 DEF Evolves, Active
<1>4. sessions[s] \in Session
  BY <1>2, <1>3 DEF RowsTyped
<1>5. sessions[s].expires \in Nat /\ now \in Nat /\ now' \in Nat /\ now <= now'
  BY <1>4, TimesAreNat DEF RowsTyped, Session, Expiries, Evolves
<1>6. sessions[s].expires > now
  BY <1>1, <1>3, <1>5 DEF Active
<1>7. QED
  BY <1>2, <1>3, <1>6 DEF Active

LEMMA KnownStays ==
  ASSUME RowsTyped, RowsTyped', Evolves, NEW s, Known(s)
  PROVE  Known(s)'
BY BoundsAssumption DEF Known, Evolves, RowsTyped, Sessions

LEMMA IssuedStays ==
  ASSUME RowsTyped, RowsTyped', Evolves, NEW c, Issued(c)
  PROVE  Issued(c)'
<1>1. c \in Csrf /\ c.session \in Sessions /\ c.session < nextSession
  BY DEF Issued, Csrf
<1>2. HourBucket(MaxTime) \in Nat
  BY TimesAreNat, BucketBounds
<1>3. c.hour \in Int
  BY <1>1, <1>2 DEF Csrf
<1>4. c.hour <= HourBucket(now')
  <2>1. now \in Nat /\ now' \in Nat /\ now <= now'
    BY TimesAreNat DEF RowsTyped, Evolves
  <2>2. HourBucket(now) <= HourBucket(now') /\ HourBucket(now) \in Nat
        /\ HourBucket(now') \in Nat
    BY <2>1, BucketMonotone, BucketBounds
  <2>3. QED
    BY <1>3, <2>2 DEF Issued
<1>5. c.session < nextSession'
  BY <1>1, BoundsAssumption DEF RowsTyped, Evolves, Sessions
<1>6. sessions'[c.session] # None =>
        HourBucket(sessions'[c.session].expires - SessionTTL) <= c.hour
  BY <1>1 DEF Issued, Evolves
<1>7. QED
  BY <1>1, <1>4, <1>5, <1>6 DEF Issued

\* A request that does not act keeps what is known of it.
Idle(q) ==
  /\ pc'[q] = pc[q] /\ call'[q] = call[q] /\ auth'[q] = auth[q]
  /\ reply'[q] = reply[q] /\ deadOnArrival'[q] = deadOnArrival[q]

LEMMA SlotStable ==
  ASSUME Typed, Typed', Evolves, Settled, NEW q \in Requests, Idle(q), SlotInv(q)
  PROVE  SlotInv(q)'
<1> USE DEF Idle
<1> RowsTyped /\ RowsTyped'
  BY DEF Typed
<1>1. CallInv(q)'
  BY KnownStays, DeadStays DEF SlotInv, CallInv
<1>2. AuthInv(q)'
  BY IssuedStays DEF SlotInv, AuthInv, Evolves, Principal
<1>3. UpsertedInv(q)'
  <2>1. SUFFICES ASSUME pc'[q] = "upserted"
                 PROVE  /\ call[q].kind = "CALLBACK"
                        /\ users'[call[q].identity.account] # None
                        /\ ~Stale(call[q].identity.account)'
    BY DEF UpsertedInv
  <2>2. /\ call[q].kind = "CALLBACK" /\ users[call[q].identity.account] # None
        /\ ~Stale(call[q].identity.account)
    BY <2>1 DEF SlotInv, UpsertedInv
  <2>3. call[q].identity.account \in Accounts
    BY <2>1, <2>2 DEF SlotInv, CallInv, Call, Identity
  <2>4. QED
    BY <2>2, <2>3 DEF Evolves, Settled
<1>4. ReplyInv(q)'
  BY IssuedStays, KnownStays DEF SlotInv, ReplyInv, SessionAfter
<1>5. DeadInv(q)'
  BY DEF SlotInv, DeadInv
<1>6. LogoutInv(q)'
  BY DeadStays DEF SlotInv, LogoutInv, CallInv
<1>7. QED
  BY <1>1, <1>2, <1>3, <1>4, <1>5, <1>6 DEF SlotInv

LEMMA JarStable ==
  ASSUME RowsTyped, RowsTyped', Evolves, JarInv, UNCHANGED jar
  PROVE  JarInv'
<1>1. now \in Nat /\ now' \in Nat /\ nextSession \in Nat /\ nextSession' \in Nat
  BY TimesAreNat, BoundsAssumption DEF RowsTyped
<1>2. now <= now' /\ nextSession <= nextSession'
  BY DEF Evolves
<1>3. jar.session # None =>
        /\ jar.session.value < nextSession'
        /\ jar.session.until <= now' + SessionTTL
  BY <1>1, <1>2, TimesAreNat, BoundsAssumption DEF JarInv, Sessions
<1>4. jar.csrf # None => Issued(jar.csrf.value)'
  BY IssuedStays DEF JarInv
<1>5. QED
  BY <1>3, <1>4 DEF JarInv

-----------------------------------------------------------------------------
(* A step of one request *)

\* What the step of r owes to the invariant.
Owed(r) ==
  /\ Typed' /\ TableInv' /\ JarInv' /\ Evolves /\ Settled
  /\ SlotInv(r)'
  /\ \A q \in Requests \ {r} : Idle(q)

LEMMA StepOfOne ==
  ASSUME IInv, NEW r \in Requests, Owed(r)
  PROVE  IInv'
BY SlotStable DEF IInv, Owed

\* The tables, the allowlist and the clock are left alone.
LEMMA QuietStep ==
  ASSUME IInv, SlotsTyped', UNCHANGED <<now, tables, config>>
  PROVE  /\ Typed' /\ TableInv' /\ Evolves /\ Settled
         /\ \A c : Issued(c) => Issued(c)'
<1> USE DEF tables, config
<1>1. Typed'
  BY DEF IInv, Typed, RowsTyped
<1>2. TableInv'
  BY DEF IInv, TableInv, RowInv, Stale
<1>3. now \in Int /\ nextSession \in Int
  BY TimesAreNat, BoundsAssumption DEF IInv, Typed, RowsTyped
<1>4. Evolves
  BY <1>3 DEF Evolves
<1>5. Settled
  BY DEF Settled, Stale
<1>6. ASSUME NEW c, Issued(c)  PROVE Issued(c)'
  BY <1>6 DEF Issued
<1>7. QED
  BY <1>1, <1>2, <1>4, <1>5, <1>6

\* The slots after a response.
LEMMA AnswerTyped ==
  ASSUME SlotsTyped, NEW r \in Requests, call[r] \in Call,
         NEW code \in Codes,
         NEW session \in Sessions \cup {None, Cleared},
         NEW csrf \in Csrf \cup {None, Cleared},
         Answer(r, code, session, csrf)
  PROVE  /\ SlotsTyped'
         /\ call'[r] \in Call
         /\ call'[r].kind = call[r].kind /\ call'[r].session = call[r].session
         /\ call'[r].identity = call[r].identity
         /\ pc'[r] = "done" /\ reply'[r] \in Reply
         /\ reply'[r] = [code |-> code, session |-> session, csrf |-> csrf]
         /\ \A q \in Requests \ {r} : Idle(q)
<1> USE DEF SlotsTyped, Answer
<1>1. call'[r] = [call[r] EXCEPT !.csrf = None]
  OBVIOUS
<1>2. /\ call'[r] \in Call
      /\ call'[r].kind = call[r].kind /\ call'[r].session = call[r].session
      /\ call'[r].identity = call[r].identity
  BY <1>1 DEF Call
<1>3. reply'[r] = [code |-> code, session |-> session, csrf |-> csrf]
  OBVIOUS
<1>4. reply'[r] \in Reply
  BY <1>3 DEF Reply
<1>5. pc'[r] = "done" /\ pc' \in [Requests -> Phases]
  BY DEF Phases
<1>6. \A q \in Requests \ {r} : Idle(q)
  BY DEF Idle
<1>7. SlotsTyped'
  <2>1. call' \in [Requests -> Call \cup {None}]
    BY <1>2
  <2>2. reply' \in [Requests -> Reply \cup {None}]
    BY <1>4
  <2>3. auth' \in [Requests -> Principal \cup {None}]
    OBVIOUS
  <2>4. QED
    BY <1>5, <2>1, <2>2, <2>3
<1>8. QED
  BY <1>2, <1>3, <1>4, <1>5, <1>6, <1>7

\* The slot of a request that is answered, from what its answer says.
LEMMA AnswerSlot ==
  ASSUME IInv, Typed', Evolves, NEW r \in Requests, pc[r] # "idle",
         NEW code \in Codes,
         NEW session \in Sessions \cup {None, Cleared},
         NEW csrf \in Csrf \cup {None, Cleared},
         Answer(r, code, session, csrf),
         session \in Sessions => session < nextSession' /\ csrf \in Csrf,
         session = Cleared <=> csrf = Cleared,
         csrf \in Csrf => Issued(csrf)',
         code \in Healing /\ session # Cleared =>
           /\ csrf \in Csrf
           /\ csrf.session = (IF session = None THEN call[r].session ELSE session),
         call[r].kind # "CALLBACK" /\ deadOnArrival[r] =>
           code \in {"UNAUTHORIZED", "SERVER_ERROR"},
         call[r].kind = "LOGOUT" /\ call[r].session # None /\ code \in {"OK", "UNAUTHORIZED"}
           => ~Active(call[r].session)'
  PROVE  SlotInv(r)' /\ \A q \in Requests \ {r} : Idle(q)
<1> RowsTyped /\ RowsTyped' /\ SlotsTyped /\ CallInv(r)
  BY DEF IInv, Typed, SlotInv
<1>1. call[r] \in Call /\ Known(call[r].session)
      /\ (call[r].kind = "CALLBACK" <=> call[r].identity # None)
      /\ (deadOnArrival[r] => ~Active(call[r].session))
  BY DEF CallInv
<1>2. /\ call'[r] \in Call
      /\ call'[r].kind = call[r].kind /\ call'[r].session = call[r].session
      /\ call'[r].identity = call[r].identity
      /\ pc'[r] = "done" /\ reply'[r] \in Reply
      /\ reply'[r] = [code |-> code, session |-> session, csrf |-> csrf]
      /\ \A q \in Requests \ {r} : Idle(q)
  BY <1>1, AnswerTyped
<1>3. deadOnArrival' = deadOnArrival
  BY DEF Answer
<1>4. CallInv(r)'
  BY <1>1, <1>2, <1>3, KnownStays, DeadStays DEF CallInv
<1>5. AuthInv(r)' /\ UpsertedInv(r)'
  BY <1>2 DEF AuthInv, UpsertedInv
<1>6. ReplyInv(r)'
  BY <1>2, Distinct DEF ReplyInv, SessionAfter, Known
<1>7. DeadInv(r)' /\ LogoutInv(r)'
  BY <1>2, <1>3 DEF DeadInv, LogoutInv
<1>8. QED
  BY <1>2, <1>4, <1>5, <1>6, <1>7 DEF SlotInv

\* A step that is not the answer and leaves tables, clock and cookies alone.
LEMMA QuietOwed ==
  ASSUME IInv, NEW r \in Requests, SlotsTyped',
         UNCHANGED <<now, tables, config, jar>>,
         SlotInv(r)', \A q \in Requests \ {r} : Idle(q)
  PROVE  Owed(r)
<1>1. Typed' /\ TableInv' /\ Evolves /\ Settled
  BY QuietStep
<1>2. JarInv'
  BY <1>1, JarStable DEF IInv, Typed
<1>3. QED
  BY <1>1, <1>2 DEF Owed

\* An answer that leaves the tables alone.
LEMMA AnswerOwed ==
  ASSUME IInv, NEW r \in Requests, pc[r] # "idle",
         NEW code \in Codes,
         NEW session \in {None, Cleared},
         NEW csrf \in Csrf \cup {None, Cleared},
         Answer(r, code, session, csrf), UNCHANGED tables,
         session = Cleared <=> csrf = Cleared,
         csrf \in Csrf => Issued(csrf) /\ csrf.session = call[r].session,
         code \in Healing => csrf \in Csrf,
         call[r].kind # "CALLBACK" /\ deadOnArrival[r] =>
           code \in {"UNAUTHORIZED", "SERVER_ERROR"},
         call[r].kind = "LOGOUT" /\ call[r].session # None /\ code \in {"OK", "UNAUTHORIZED"}
           => ~Active(call[r].session)
  PROVE  Owed(r)
<1>1. SlotsTyped /\ call[r] \in Call
  BY DEF IInv, Typed, SlotInv, CallInv
<1>2. SlotsTyped'
  BY <1>1, AnswerTyped
<1>3. UNCHANGED <<now, tables, config, jar>>
  BY DEF Answer
<1>4. Typed' /\ TableInv' /\ Evolves /\ Settled /\ \A c : Issued(c) => Issued(c)'
  BY <1>2, <1>3, QuietStep
<1>5. Active(call[r].session)' => Active(call[r].session)
  <2>1. SUFFICES ASSUME ~Active(call[r].session)  PROVE ~(Active(call[r].session)')
    OBVIOUS
  <2>2. UNCHANGED <<now, sessions>>
    BY <1>3 DEF tables
  <2>3. call'[r].session = call[r].session
    BY <1>1, AnswerTyped
  <2>4. QED
    BY <2>1, <2>2, <2>3 DEF Active
<1>6. SlotInv(r)' /\ \A q \in Requests \ {r} : Idle(q)
  BY <1>4, <1>5, Distinct, AnswerSlot
<1>7. JarInv'
  BY <1>3, <1>4, JarStable DEF IInv, Typed
<1>8. QED
  BY <1>4, <1>6, <1>7 DEF Owed

LEMMA ReceiveOwed ==
  ASSUME IInv, NEW r \in Requests, NEW kind \in Kinds, NEW id \in Identity \cup {None},
         Receive(r, kind, id)
  PROVE  Owed(r)
<1> DEFINE s == Value(jar.session)
           c == IF kind \in {"MUTATE", "LOGOUT"} THEN Value(jar.csrf) ELSE None
           new == [kind |-> kind, session |-> s, csrf |-> c, identity |-> id]
<1> SlotsTyped /\ JarInv
  BY DEF IInv, Typed
<1>1. Known(s) /\ s \in Sessions \cup {None}
  BY DEF JarInv, Known, Value
<1>2. c \in Csrf \cup {None}
  BY DEF JarInv, Value, Issued
<1>3. new \in Call
  BY <1>1, <1>2, KindsAssumption DEF Call
<1>4. /\ pc' = [pc EXCEPT ![r] = "received"]
      /\ call' = [call EXCEPT ![r] = new]
      /\ deadOnArrival' = [deadOnArrival EXCEPT ![r] = ~Active(s)]
      /\ UNCHANGED <<now, tables, config, jar, auth, reply>>
      /\ kind = "CALLBACK" <=> id # None
  BY DEF Receive
<1> HIDE DEF new
<1>5. SlotsTyped'
  <2>1. pc' \in [Requests -> Phases]
    BY <1>4 DEF SlotsTyped, Phases
  <2>2. call' \in [Requests -> Call \cup {None}]
    BY <1>3, <1>4 DEF SlotsTyped
  <2>3. deadOnArrival' \in [Requests -> BOOLEAN]
    <3>1. Active(s) \in BOOLEAN
      BY DEF Active
    <3>2. QED
      BY <1>4, <3>1 DEF SlotsTyped
  <2>4. QED
    BY <1>4, <2>1, <2>2, <2>3 DEF SlotsTyped
<1>6. \A q \in Requests \ {r} : Idle(q)
  BY <1>4 DEF SlotsTyped, Idle
<1>7. call'[r] = new /\ pc'[r] = "received" /\ (deadOnArrival'[r] <=> ~Active(s))
  BY <1>4 DEF SlotsTyped
<1>8. new.session = s /\ new.kind = kind /\ new.identity = id
  BY DEF new
<1>9. CallInv(r)'
  <2>1. UNCHANGED <<now, sessions, nextSession>>
    BY <1>4 DEF tables
  <2>2. Known(s)'
    BY <1>1, <1>4, <2>1 DEF Known
  <2>3. QED
    BY <1>1, <1>3, <1>4, <1>7, <1>8, <2>1 DEF CallInv, Known, Active
<1>10. SlotInv(r)'
  BY <1>7, <1>9 DEF SlotInv, AuthInv, UpsertedInv, ReplyInv, DeadInv, LogoutInv
<1>11. QED
  BY <1>4, <1>5, <1>6, <1>10, QuietOwed

LEMMA GetActiveSessionOwed ==
  ASSUME IInv, NEW r \in Requests, GetActiveSession(r)
  PROVE  Owed(r)
<1> DEFINE s == call[r].session
<1> SlotsTyped /\ RowsTyped /\ TableInv /\ SlotInv(r)
  BY DEF IInv, Typed
<1>1. pc[r] = "received" /\ call[r].kind # "CALLBACK" /\ UNCHANGED tables
  BY DEF GetActiveSession
<1>2. CallInv(r) /\ call[r] \in Call
  BY <1>1 DEF SlotInv, CallInv
<1>3. CASE ~Found(s) /\ Answer(r, "UNAUTHORIZED", None, None)
  BY <1>1, <1>3, Distinct, AnswerOwed DEF Found, Codes, Healing
<1>4. CASE /\ Found(s)
           /\ pc' = [pc EXCEPT ![r] = "session"]
           /\ auth' = [auth EXCEPT ![r] =
                         [user |-> sessions[s].user, role |-> None, csrf |-> None]]
           /\ UNCHANGED <<now, config, jar, call, reply, deadOnArrival>>
  <2> DEFINE p == [user |-> sessions[s].user, role |-> None, csrf |-> None]
  <2>1. s \in Sessions /\ sessions[s] # None /\ ~deadOnArrival[r]
    BY <1>1, <1>2, <1>4 DEF Found, Active, CallInv
  <2>2. sessions[s] \in Session /\ users[sessions[s].user] # None
    BY <2>1 DEF RowsTyped, TableInv, RowInv
  <2>3. p \in Principal /\ p.user = sessions[s].user
    BY <2>2 DEF Principal, Session
  <2> HIDE DEF p
  <2>4. SlotsTyped' /\ auth'[r] = p /\ pc'[r] = "session"
    BY <1>4, <2>3 DEF SlotsTyped, Phases, p
  <2>5. \A q \in Requests \ {r} : Idle(q)
    BY <1>4 DEF SlotsTyped, Idle
  <2>6. UNCHANGED <<now, users, sessions, nextSession>>
    BY <1>1, <1>4 DEF tables
  <2>7. CallInv(r)'
    BY <1>1, <1>2, <1>4, <2>6 DEF CallInv, Known, Active
  <2>8. AuthInv(r)'
    BY <1>1, <1>4, <2>1, <2>2, <2>3, <2>4, <2>6 DEF AuthInv
  <2>9. SlotInv(r)'
    BY <2>4, <2>7, <2>8 DEF SlotInv, UpsertedInv, ReplyInv, DeadInv, LogoutInv
  <2>10. QED
    BY <1>1, <1>4, <2>4, <2>5, <2>9, QuietOwed
<1>5. QED
  BY <1>3, <1>4 DEF GetActiveSession

LEMMA GetUserOwed ==
  ASSUME IInv, NEW r \in Requests, GetUser(r)
  PROVE  Owed(r)
<1> SlotsTyped /\ RowsTyped /\ TableInv /\ SlotInv(r)
  BY DEF IInv, Typed
<1> DEFINE u == auth[r].user
           c == Refreshed(r)
           p == [user |-> u, role |-> users[u].role, csrf |-> c]
<1>1. /\ pc[r] = "session"
      /\ pc' = [pc EXCEPT ![r] = "authenticated"]
      /\ auth' = [auth EXCEPT ![r] = p]
      /\ UNCHANGED <<now, tables, config, jar, call, reply, deadOnArrival>>
  BY DEF GetUser
<1>2. /\ CallInv(r) /\ AuthInv(r)
      /\ call[r].kind # "CALLBACK" /\ call[r].session \in Sessions /\ ~deadOnArrival[r]
      /\ auth[r] \in Principal /\ users[u] # None
  BY <1>1 DEF SlotInv, AuthInv
<1>3. call[r].session < nextSession
  BY <1>1, <1>2, Distinct DEF CallInv, Known
<1>4. c \in Csrf /\ c.session = call[r].session /\ Issued(c)
  BY <1>2, <1>3, SignedToken, SignedIsIssued DEF Refreshed, RowsTyped
<1>5. u \in Accounts /\ users[u] \in User
  BY <1>2 DEF Principal, RowsTyped
<1>6. p.role \in {"user", "admin"} /\ p.csrf = c /\ p.user = u
  BY <1>5 DEF User
<1>7. p \in Principal
  BY <1>4, <1>5, <1>6 DEF Principal
<1> HIDE DEF p
<1>8. SlotsTyped' /\ auth'[r] = p /\ pc'[r] = "authenticated"
  BY <1>1, <1>7 DEF SlotsTyped, Phases
<1>9. \A q \in Requests \ {r} : Idle(q)
  BY <1>1 DEF SlotsTyped, Idle
<1>10. UNCHANGED <<now, users, sessions, nextSession>>
  BY <1>1 DEF tables
<1>11. CallInv(r)'
  BY <1>1, <1>2, <1>10 DEF CallInv, Known, Active
<1>12. AuthInv(r)'
  <2>1. PICK token \in Csrf : token = c
    BY <1>4
  <2>2. Issued(token)'
    BY <1>1, <1>4, <1>8, <2>1, QuietStep
  <2>3. PICK user \in Accounts : user = u
    BY <1>5
  <2>4. /\ auth'[r].role # None /\ auth'[r].csrf # None
        /\ auth'[r].csrf = token /\ auth'[r].user = user
    BY <1>4, <1>6, <1>8, <2>1, <2>3, Distinct
  <2>5. users'[user] # None
    BY <1>2, <1>10, <2>3
  <2>6. call'[r] = call[r] /\ deadOnArrival'[r] = deadOnArrival[r]
    BY <1>1
  <2>7. auth'[r] \in Principal /\ token.session = call[r].session
    BY <1>4, <1>7, <1>8, <2>1
  <2>8. QED
    BY <1>2, <1>8, <2>2, <2>4, <2>5, <2>6, <2>7 DEF AuthInv
<1>13. SlotInv(r)'
  BY <1>8, <1>11, <1>12 DEF SlotInv, UpsertedInv, ReplyInv, DeadInv, LogoutInv
<1>14. QED
  BY <1>1, <1>8, <1>9, <1>13, QuietOwed

\* What is known of a request RequireAuth has let through.
LEMMA Authenticated ==
  ASSUME IInv, NEW r \in Requests, pc[r] \in {"authenticated", "checked"}
  PROVE  /\ call[r] \in Call /\ call[r].kind # "CALLBACK"
         /\ call[r].session \in Sessions /\ call[r].session < nextSession
         /\ ~deadOnArrival[r]
         /\ auth[r].csrf \in Csrf /\ auth[r].csrf.session = call[r].session
         /\ Issued(auth[r].csrf)
BY Distinct DEF IInv, SlotInv, CallInv, AuthInv, Issued, Known

\* An answer after RequireAuth keeps the session cookie and sets the CSRF cookie.
LEMMA AuthenticatedAnswer ==
  ASSUME IInv, NEW r \in Requests, pc[r] \in {"authenticated", "checked"},
         NEW code \in Codes \ {"UNAUTHORIZED"},
         call[r].kind = "LOGOUT" => code # "OK",
         Answer(r, code, None, auth[r].csrf), UNCHANGED tables
  PROVE  Owed(r)
BY Authenticated, Distinct, AnswerOwed

LEMMA GetCurrentUserOwed ==
  ASSUME IInv, NEW r \in Requests, GetCurrentUser(r)
  PROVE  Owed(r)
BY AuthenticatedAnswer DEF GetCurrentUser, Codes

LEMMA MutateOwed ==
  ASSUME IInv, NEW r \in Requests, Mutate(r)
  PROVE  Owed(r)
BY AuthenticatedAnswer DEF Mutate, Codes

LEMMA CheckOwed ==
  ASSUME IInv, NEW r \in Requests, Check(r)
  PROVE  Owed(r)
<1>1. pc[r] = "authenticated" /\ UNCHANGED tables
  BY DEF Check
<1>2. CASE \E code \in {"FORBIDDEN", "CSRF_TOKEN_INVALID"} : Answer(r, code, None, auth[r].csrf)
  BY <1>1, <1>2, AuthenticatedAnswer DEF Codes
<1>3. CASE /\ pc' = [pc EXCEPT ![r] = "checked"]
           /\ UNCHANGED <<now, config, jar, call, auth, reply, deadOnArrival>>
  <2> SlotsTyped /\ SlotInv(r)
    BY DEF IInv, Typed
  <2>1. SlotsTyped' /\ pc'[r] = "checked" /\ \A q \in Requests \ {r} : Idle(q)
    BY <1>3 DEF SlotsTyped, Phases, Idle
  <2>2. UNCHANGED <<now, users, sessions, nextSession>>
    BY <1>1, <1>3 DEF tables
  <2>3. CallInv(r)'
    BY <1>1, <1>3, <2>2 DEF SlotInv, CallInv, Known, Active
  <2>4. AuthInv(r)'
    BY <1>1, <1>3, <2>1, <2>2 DEF SlotInv, AuthInv, Issued
  <2>5. SlotInv(r)'
    BY <2>1, <2>3, <2>4 DEF SlotInv, UpsertedInv, ReplyInv, DeadInv, LogoutInv
  <2>6. QED
    BY <1>1, <1>3, <2>1, <2>5, QuietOwed
<1>4. QED
  BY <1>2, <1>3 DEF Check

\* A revoked session is not active, and that is all a logout changes.
LEMMA LogoutOwed ==
  ASSUME IInv, NEW r \in Requests, Logout(r)
  PROVE  Owed(r)
<1> DEFINE s == call[r].session
<1> SlotsTyped /\ RowsTyped /\ TableInv /\ JarInv /\ SlotInv(r)
  BY DEF IInv, Typed
<1>1. pc[r] = "checked" /\ call[r].kind = "LOGOUT" /\ UNCHANGED <<users, nextSession>>
  BY DEF Logout
<1>2. call[r] \in Call /\ s \in Sessions /\ s < nextSession /\ ~deadOnArrival[r]
  BY <1>1, Authenticated
<1>3. CASE Answer(r, "UNAUTHORIZED", Cleared, Cleared) /\ ~Active(s) /\ UNCHANGED sessions
  BY <1>1, <1>2, <1>3, Distinct, AnswerOwed DEF Codes, Healing, tables
<1>4. CASE /\ Active(s)
           /\ sessions' = [sessions EXCEPT ![s].revoked = TRUE]
           /\ \E code \in {"OK", "SERVER_ERROR"} : Answer(r, code, Cleared, Cleared)
  <2>1. PICK code \in {"OK", "SERVER_ERROR"} : Answer(r, code, Cleared, Cleared)
    BY <1>4
  <2>2. code \in Codes
    BY DEF Codes
  <2>3. UNCHANGED <<now, config, jar, deadOnArrival>>
    BY <2>1 DEF Answer
  <2>4. sessions[s] # None /\ sessions[s] \in Session
    BY <1>2, <1>4 DEF Active, RowsTyped
  <2>5. /\ sessions'[s] \in Session /\ sessions'[s].revoked
        /\ sessions'[s].user = sessions[s].user /\ sessions'[s].expires = sessions[s].expires
    BY <1>2, <1>4, <2>4 DEF RowsTyped, Session
  <2>6. \A t \in Sessions \ {s} : sessions'[t] = sessions[t]
    BY <1>4 DEF RowsTyped
  <2>7. sessions' \in [Sessions -> Session \cup {None}]
    BY <1>2, <1>4, <2>5 DEF RowsTyped
  <2>8. SlotsTyped'
    BY <1>2, <2>1, <2>2, AnswerTyped
  <2>9. Typed' /\ RowsTyped'
    BY <1>1, <2>3, <2>7, <2>8 DEF Typed, RowsTyped, config
  <2>10. TableInv'
    <3>1. SUFFICES ASSUME NEW t \in Sessions, sessions'[t] # None
                   PROVE  RowInv(t)'
      BY <2>3 DEF TableInv, RowInv, config
    <3>2. sessions[t] # None /\ sessions'[t].user = sessions[t].user
          /\ sessions'[t].expires = sessions[t].expires
      BY <2>4, <2>5, <2>6, <3>1
    <3>3. QED
      BY <1>1, <2>3, <3>2 DEF TableInv, RowInv, Stale, config
  <2>11. now \in Int /\ nextSession \in Int
    BY TimesAreNat, BoundsAssumption DEF RowsTyped
  <2>12. Evolves
    BY <1>1, <2>3, <2>4, <2>5, <2>6, <2>11 DEF Evolves
  <2>13. Settled
    BY <1>1, <2>3 DEF Settled, Stale, config
  <2>14. JarInv'
    BY <2>3, <2>9, <2>12, JarStable
  <2>15. ~Active(call[r].session)'
    <3>1. call'[r].session = s
      BY <1>2, <2>1, <2>2, AnswerTyped
    <3>2. QED
      BY <2>5, <3>1 DEF Active
  <2>16. SlotInv(r)' /\ \A q \in Requests \ {r} : Idle(q)
    BY <1>1, <1>2, <2>1, <2>2, <2>9, <2>12, <2>15, Distinct, AnswerSlot
  <2>17. QED
    BY <2>9, <2>10, <2>12, <2>13, <2>14, <2>16 DEF Owed
<1>5. QED
  BY <1>3, <1>4 DEF Logout, Revocable

\* What a login writes into the table users makes no role stale.
LEMMA UpsertGoogleUserOwed ==
  ASSUME IInv, NEW r \in Requests, UpsertGoogleUser(r)
  PROVE  Owed(r)
<1> DEFINE id == call[r].identity
<1> SlotsTyped /\ RowsTyped /\ TableInv /\ JarInv /\ SlotInv(r)
  BY DEF IInv, Typed
<1>1. /\ pc[r] = "received" /\ call[r].kind = "CALLBACK"
      /\ UNCHANGED <<sessions, nextSession>>
  BY DEF UpsertGoogleUser
<1>2. call[r] \in Call /\ id \in Identity /\ CallInv(r)
  BY <1>1 DEF SlotInv, CallInv, Call
<1>3. CASE Answer(r, "OAUTH_CALLBACK_FAILED", None, None) /\ UNCHANGED users
  BY <1>1, <1>3, Distinct, AnswerOwed DEF Codes, Healing, tables
<1>4. CASE /\ users' = [users EXCEPT ![id.account] = Upserted(id)]
           /\ \/ /\ pc' = [pc EXCEPT ![r] = "upserted"]
                 /\ UNCHANGED <<now, config, jar, call, auth, reply, deadOnArrival>>
              \/ Answer(r, "SERVER_ERROR", None, None)
  <2> DEFINE a == id.account
             row == Upserted(id)
  <2>1. UNCHANGED <<now, config, jar, deadOnArrival>>
    BY <1>4 DEF Answer
  <2>2. PICK account \in Accounts : account = a
    BY <1>2 DEF Identity
  <2>3. PICK written \in User : written = row /\ ~(written.role = "admin" /\ written.email \notin admins)
    <3>1. row \in User
      BY <1>2 DEF Upserted, RoleOf, Identity, User
    <3>2. row.role = "admin" => row.email \in admins
      BY DEF Upserted, RoleOf
    <3>3. QED
      BY <3>1, <3>2
  <2>4. users' = [users EXCEPT ![account] = written]
    BY <1>4, <2>2, <2>3
  <2> HIDE DEF a, row
  <2>5. /\ users' \in [Accounts -> User \cup {None}]
        /\ users'[account] = written /\ written # None
        /\ \A other \in Accounts \ {account} : users'[other] = users[other]
    BY <2>4, Distinct DEF RowsTyped
  <2>6. SlotsTyped' /\ \A q \in Requests \ {r} : Idle(q)
    <3>1. CASE Answer(r, "SERVER_ERROR", None, None)
      BY <1>2, <3>1, AnswerTyped DEF Codes
    <3>2. CASE /\ pc' = [pc EXCEPT ![r] = "upserted"]
               /\ UNCHANGED <<call, auth, reply, deadOnArrival>>
      BY <3>2 DEF SlotsTyped, Phases, Idle
    <3>3. QED
      BY <1>4, <3>1, <3>2
  <2>7. Typed' /\ RowsTyped'
    BY <1>1, <2>1, <2>5, <2>6 DEF Typed, RowsTyped, config
  <2>8. ~Stale(account)'
    BY <2>1, <2>3, <2>5 DEF Stale, config
  <2>9. \A other \in Accounts \ {account} : Stale(other)' => Stale(other)
    BY <2>1, <2>5 DEF Stale, config
  <2>10. TableInv'
    <3>1. SUFFICES ASSUME NEW s \in Sessions, sessions'[s] # None
                   PROVE  RowInv(s)'
      BY <2>1 DEF TableInv, RowInv, config
    <3>2. sessions'[s] = sessions[s] /\ sessions[s] \in Session /\ sessions[s].user \in Accounts
      BY <1>1, <3>1 DEF RowsTyped, Session
    <3>3. users'[sessions[s].user] # None
      BY <2>5, <3>1, <3>2 DEF TableInv, RowInv
    <3>4. Stale(sessions[s].user)' => Stale(sessions[s].user)
      BY <1>1, <2>8, <2>9, <3>2
    <3>5. QED
      BY <1>1, <2>1, <3>1, <3>2, <3>3, <3>4 DEF TableInv, RowInv, config
  <2>11. now \in Int /\ nextSession \in Int
    BY TimesAreNat, BoundsAssumption DEF RowsTyped
  <2>12. Evolves
    BY <1>1, <2>1, <2>5, <2>11 DEF Evolves
  <2>13. Settled
    BY <2>8, <2>9 DEF Settled
  <2>14. JarInv'
    BY <2>1, <2>7, <2>12, JarStable
  <2>15. SlotInv(r)'
    <3>1. CASE Answer(r, "SERVER_ERROR", None, None)
      BY <1>1, <2>7, <2>12, <3>1, Distinct, AnswerSlot DEF Codes, Healing
    <3>2. CASE /\ pc' = [pc EXCEPT ![r] = "upserted"]
               /\ UNCHANGED <<call, auth, reply, deadOnArrival>>
      <4>1. pc'[r] = "upserted" /\ call'[r] = call[r] /\ deadOnArrival'[r] = deadOnArrival[r]
        BY <3>2 DEF SlotsTyped
      <4>2. CallInv(r)'
        BY <1>1, <1>2, <2>1, <4>1 DEF CallInv, Known, Active
      <4>3. UpsertedInv(r)'
        BY <1>1, <2>2, <2>5, <2>8, <4>1 DEF UpsertedInv, a
      <4>4. QED
        BY <4>1, <4>2, <4>3 DEF SlotInv, AuthInv, ReplyInv, DeadInv, LogoutInv
    <3>3. QED
      BY <1>4, <3>1, <3>2
  <2>16. QED
    BY <2>6, <2>7, <2>10, <2>12, <2>13, <2>14, <2>15 DEF Owed
<1>5. QED
  BY <1>3, <1>4 DEF UpsertGoogleUser

\* A new session has a token no request and no cookie has carried before.
LEMMA CreateSessionOwed ==
  ASSUME IInv, NEW r \in Requests, CreateSession(r)
  PROVE  Owed(r)
<1> DEFINE row == [user |-> call[r].identity.account, expires |-> now + SessionTTL,
                   revoked |-> FALSE]
<1> SlotsTyped /\ RowsTyped /\ TableInv /\ JarInv /\ SlotInv(r)
  BY DEF IInv, Typed
<1>1. /\ pc[r] = "upserted" /\ nextSession <= MaxSession
      /\ sessions' = [sessions EXCEPT ![nextSession] = row]
      /\ nextSession' = nextSession + 1
      /\ UNCHANGED users
  BY DEF CreateSession
<1>2. /\ call[r] \in Call /\ call[r].kind = "CALLBACK"
      /\ call[r].identity.account \in Accounts
      /\ users[call[r].identity.account] # None
      /\ ~Stale(call[r].identity.account)
  BY <1>1 DEF SlotInv, CallInv, UpsertedInv, Call, Identity
<1>3. PICK s \in Sessions : s = nextSession
  BY <1>1, BoundsAssumption DEF RowsTyped, Sessions
<1>4. s \in Nat /\ nextSession' = s + 1 /\ nextSession' \in 1..(MaxSession + 1)
  BY <1>1, <1>3, BoundsAssumption DEF Sessions
<1>5. UNCHANGED <<now, config, jar, deadOnArrival>>
  BY DEF CreateSession, Answer
<1>6. PICK account \in Accounts : account = call[r].identity.account
  BY <1>2
<1>7. PICK new \in Session : /\ new.user = account /\ new.expires = now + SessionTTL
                             /\ new = row
  <2>1. now + SessionTTL \in Expiries
    BY TimesAreNat DEF Expiries, RowsTyped, Times
  <2>2. row \in Session /\ row.user = account /\ row.expires = now + SessionTTL
    BY <1>6, <2>1 DEF Session
  <2>3. QED
    BY <2>2
<1> HIDE DEF row
<1>8. /\ sessions' \in [Sessions -> Session \cup {None}]
      /\ sessions'[s] = new
      /\ \A t \in Sessions \ {s} : sessions'[t] = sessions[t]
  BY <1>1, <1>3, <1>7 DEF RowsTyped
<1>9. now \in Nat /\ SessionTTL \in Nat /\ adminsSince \in Nat /\ adminsSince <= now
  BY TimesAreNat DEF RowsTyped, TableInv
<1>10. PICK code \in {"OK", "SERVER_ERROR"},
            set \in {s, None}, csrf \in Csrf \cup {None} :
         /\ Answer(r, code, set, csrf)
         /\ \/ set = s /\ code = "OK" /\ csrf = Sign(s, now)
            \/ set = None /\ code = "SERVER_ERROR" /\ csrf = None
  <2>1. CASE Answer(r, "OK", s, Sign(s, now))
    <3>1. PICK token \in Csrf : token = Sign(s, now)
      BY SignedToken DEF RowsTyped
    <3>2. Answer(r, "OK", s, token)
      BY <2>1, <3>1
    <3>3. QED
      BY <3>1, <3>2
  <2>2. CASE Answer(r, "SERVER_ERROR", None, None)
    BY <2>2
  <2>3. QED
    BY <1>3, <2>1, <2>2 DEF CreateSession
<1>11. code \in Codes
  BY DEF Codes
<1>12. SlotsTyped'
  BY <1>2, <1>3, <1>10, <1>11, AnswerTyped
<1>13. Typed' /\ RowsTyped'
  BY <1>1, <1>4, <1>5, <1>8, <1>12 DEF Typed, RowsTyped, config
<1>14. \A a \in Accounts : Stale(a)' <=> Stale(a)
  BY <1>1, <1>5 DEF Stale, config
<1>15. TableInv'
  <2>1. SUFFICES ASSUME NEW t \in Sessions, sessions'[t] # None
                 PROVE  RowInv(t)'
    BY <1>5 DEF TableInv, RowInv, config
  <2>2. CASE t = s
    <3>1. users'[account] # None /\ ~Stale(account)'
      BY <1>1, <1>2, <1>6, <1>14
    <3>2. /\ t < nextSession'
          /\ SessionTTL <= now + SessionTTL /\ now' = now
      BY <1>4, <1>5, <1>9, <2>2
    <3>3. QED
      BY <1>7, <1>8, <1>9, <2>2, <3>1, <3>2 DEF RowInv
  <2>3. CASE t # s
    <3>1. sessions'[t] = sessions[t] /\ sessions[t] \in Session /\ sessions[t].user \in Accounts
      BY <1>8, <2>1, <2>3 DEF RowsTyped, Session
    <3>2. t < nextSession'
      BY <1>3, <1>4, <2>1, <3>1 DEF TableInv, RowInv, Sessions
    <3>3. Stale(sessions[t].user)' <=> Stale(sessions[t].user)
      BY <1>8, <1>14, <2>3, <3>1
    <3>4. QED
      BY <1>1, <1>5, <2>1, <3>1, <3>2, <3>3 DEF TableInv, RowInv, config
  <2>4. QED
    BY <2>2, <2>3
<1>16. Evolves
  BY <1>1, <1>3, <1>4, <1>5, <1>8, <1>9 DEF Evolves, Sessions
<1>17. Settled
  BY <1>14 DEF Settled
<1>18. JarInv'
  BY <1>5, <1>13, <1>16, JarStable
<1>19. csrf \in Csrf => set = s /\ csrf.session = s /\ Issued(csrf)'
  <2>1. SUFFICES ASSUME csrf \in Csrf
                 PROVE  set = s /\ csrf.session = s /\ Issued(csrf)'
    OBVIOUS
  <2>2. set = s /\ csrf = Sign(s, now)
    BY <1>10, <2>1, Distinct
  <2>3. csrf.session = s /\ csrf.hour = HourBucket(now)
    BY <2>2, SignedToken DEF RowsTyped
  <2>4. sessions'[s].expires - SessionTTL = now
    BY <1>7, <1>8, <1>9
  <2>5. HourBucket(now) \in Nat /\ now' = now /\ s < nextSession'
    BY <1>4, <1>5, <1>9, BucketBounds
  <2>6. Issued(csrf)'
    BY <2>1, <2>3, <2>4, <2>5 DEF Issued
  <2>7. QED
    BY <2>2, <2>3, <2>6
<1>20. SlotInv(r)' /\ \A q \in Requests \ {r} : Idle(q)
  <2>1. set \in Sessions => set < nextSession' /\ csrf \in Csrf
    BY <1>3, <1>4, <1>10, Distinct, SignedToken DEF RowsTyped
  <2>2. set # Cleared /\ csrf # Cleared /\ set \in Sessions \cup {None, Cleared}
        /\ csrf \in Csrf \cup {None, Cleared}
    BY <1>3, <1>10, Distinct
  <2>3. code \in Healing => csrf \in Csrf /\ csrf.session = (IF set = None THEN call[r].session ELSE set)
    BY <1>10, <1>19, <2>1, Distinct DEF Healing
  <2>4. QED
    BY <1>1, <1>2, <1>10, <1>11, <1>13, <1>16, <1>19, <2>1, <2>2, <2>3, AnswerSlot
<1>21. QED
  BY <1>13, <1>15, <1>16, <1>17, <1>18, <1>20 DEF Owed

\* A statement that fails changes nothing but the slot of its request.
LEMMA DbFaultOwed ==
  ASSUME IInv, NEW r \in Requests, DbFault(r)
  PROVE  Owed(r)
<1>1. pc[r] \in {"received", "session", "checked", "upserted"} /\ UNCHANGED tables
  BY DEF DbFault
<1>2. CASE Answer(r, "SERVER_ERROR", Cleared, Cleared)
  BY <1>1, <1>2, Distinct, AnswerOwed DEF Codes, Healing
<1>3. CASE Answer(r, "SERVER_ERROR", None, None)
  BY <1>1, <1>3, Distinct, AnswerOwed DEF Codes, Healing
<1>4. CASE pc[r] = "checked" /\ Answer(r, "SERVER_ERROR", None, auth[r].csrf)
  BY <1>1, <1>4, AuthenticatedAnswer DEF Codes
<1>5. QED
  BY <1>2, <1>3, <1>4 DEF DbFault

-----------------------------------------------------------------------------
(* The browser, the process and the clock *)

\* A request that is forgotten owes nothing.
LEMMA ForgetTyped ==
  ASSUME SlotsTyped, NEW r \in Requests, Forget(r), UNCHANGED auth
  PROVE  /\ SlotsTyped' /\ SlotInv(r)' /\ \A q \in Requests \ {r} : Idle(q)
<1> USE DEF SlotsTyped, Forget
<1>1. SlotsTyped' /\ pc'[r] = "idle"
  BY DEF Phases
<1>2. \A q \in Requests \ {r} : Idle(q)
  BY DEF Idle
<1>3. SlotInv(r)'
  BY <1>1 DEF SlotInv, CallInv, AuthInv, UpsertedInv, ReplyInv, DeadInv, LogoutInv
<1>4. QED
  BY <1>1, <1>2, <1>3

\* A cookie that is set is there, until its lifetime has passed.
LEMMA CookieHeld ==
  ASSUME RowsTyped, NEW v \in Sessions \cup Csrf
  PROVE  /\ Cookie(v) # None /\ Cookie(v).value = v
         /\ Cookie(v).until \in Nat /\ Cookie(v).until = now + SessionTTL
<1>1. now + SessionTTL \in Expiries /\ now + SessionTTL \in Nat
  BY TimesAreNat DEF RowsTyped, Times, Expiries
<1>2. Cookie(v) \in Held
  BY <1>1 DEF Cookie, Held
<1>3. QED
  BY <1>1, <1>2, Distinct DEF Cookie

\* The cookies after a response: a session is not left without a CSRF cookie.
LEMMA DeliverOwed ==
  ASSUME IInv, NEW r \in Requests, Deliver(r)
  PROVE  Owed(r)
<1> RowsTyped /\ SlotsTyped /\ JarInv /\ SlotInv(r)
  BY DEF IInv, Typed
<1>1. /\ pc[r] = "done" /\ Forget(r)
      /\ UNCHANGED <<now, tables, config, auth>>
  BY DEF Deliver
<1>2. SlotsTyped' /\ SlotInv(r)' /\ \A q \in Requests \ {r} : Idle(q)
  BY <1>1, ForgetTyped
<1>3. Typed' /\ TableInv' /\ Evolves /\ Settled /\ \A c : Issued(c) => Issued(c)'
  BY <1>1, <1>2, QuietStep
<1>4. ReplyInv(r) /\ reply[r] \in Reply
  BY <1>1 DEF SlotInv, ReplyInv
<1>5. JarInv'
  <2> DEFINE s == reply[r].session
             c == reply[r].csrf
  <2>1. jar'.session = Applied(s, jar.session) /\ jar'.csrf = Applied(c, jar.csrf)
    BY DEF Deliver
  <2>2. /\ s \in Sessions \cup {None, Cleared} /\ c \in Csrf \cup {None, Cleared}
        /\ s = Cleared <=> c = Cleared
        /\ s \in Sessions => c \in Csrf /\ s < nextSession
        /\ c \in Csrf => Issued(c)
    BY <1>1, <1>4, Distinct DEF ReplyInv, Reply, Known
  <2>3. UNCHANGED <<now, nextSession>> /\ now \in Nat
    BY <1>1, TimesAreNat DEF tables, RowsTyped
  <2>4. /\ c = Cleared => jar'.csrf = None
        /\ c = None => jar'.csrf = jar.csrf
        /\ c \in Csrf => jar'.csrf = Cookie(c)
        /\ s = Cleared => jar'.session = None
        /\ s = None => jar'.session = jar.session
        /\ s \in Sessions => jar'.session = Cookie(s)
    BY <2>1, Distinct DEF Applied
  <2> HIDE DEF s, c
  <2>5. CASE s = Cleared
    BY <2>2, <2>4, <2>5 DEF JarInv
  <2>6. CASE c = None
    <3>1. s = None
      BY <2>2, <2>6, Distinct
    <3>2. jar'.csrf = jar.csrf /\ jar'.session = jar.session
      BY <2>4, <2>6, <3>1
    <3>3. jar.csrf # None => Issued(jar.csrf.value)'
      BY <1>3, <3>2 DEF JarInv
    <3>4. QED
      BY <2>3, <3>2, <3>3 DEF JarInv
  <2>7. CASE c \in Csrf
    <3>1. PICK token \in Csrf : token = c
      BY <2>7
    <3>2. /\ jar'.csrf # None /\ jar'.csrf.value = token
          /\ jar'.csrf.until \in Nat /\ jar'.csrf.until = now + SessionTTL
      BY <2>4, <2>7, <3>1, CookieHeld
    <3>3. Issued(token)'
      BY <1>3, <2>2, <3>1
    <3>4. jar'.session # None =>
            /\ jar'.session.value \in Sessions /\ jar'.session.value < nextSession
            /\ jar'.session.until \in Int /\ jar'.session.until <= now + SessionTTL
      <4>1. CASE s = None
        BY <2>4, <4>1 DEF JarInv
      <4>2. CASE s \in Sessions
        BY <2>2, <2>3, <2>4, <4>2, TimesAreNat, CookieHeld
      <4>3. QED
        BY <2>2, <2>7, Distinct, <4>1, <4>2
    <3>5. QED
      BY <2>3, <3>2, <3>3, <3>4 DEF JarInv
  <2>8. QED
    BY <2>2, <2>5, <2>6, <2>7
<1>6. QED
  BY <1>2, <1>3, <1>5 DEF Owed

LEMMA LoseOwed ==
  ASSUME IInv, NEW r \in Requests, Lose(r)
  PROVE  Owed(r)
<1>1. SlotsTyped /\ Forget(r) /\ UNCHANGED <<now, tables, config, jar, auth>>
  BY DEF Lose, IInv, Typed
<1>2. SlotsTyped' /\ SlotInv(r)' /\ \A q \in Requests \ {r} : Idle(q)
  BY <1>1, ForgetTyped
<1>3. QED
  BY <1>1, <1>2, QuietOwed

\* Every step of a request.
LEMMA RequestOwed ==
  ASSUME IInv, NEW r \in Requests,
         \/ \E kind \in Kinds, id \in Identity \cup {None} : Receive(r, kind, id)
         \/ Handle(r)
         \/ Deliver(r)
         \/ Lose(r)
  PROVE  Owed(r)
<1>1. CASE \E kind \in Kinds, id \in Identity \cup {None} : Receive(r, kind, id)
  BY <1>1, ReceiveOwed
<1>2. CASE Handle(r)
  BY <1>2, GetActiveSessionOwed, GetUserOwed, GetCurrentUserOwed, CheckOwed, MutateOwed,
     LogoutOwed, UpsertGoogleUserOwed, CreateSessionOwed, DbFaultOwed DEF Handle
<1>3. CASE Deliver(r)
  BY <1>3, DeliverOwed
<1>4. CASE Lose(r)
  BY <1>4, LoseOwed
<1>5. QED
  BY <1>1, <1>2, <1>3, <1>4

\* The rows after a cleanup.
LEMMA CollectedRows ==
  ASSUME RowsTyped
  PROVE  /\ Collected \in [Sessions -> Session \cup {None}]
         /\ \A s \in Sessions : Collected[s] # None => Collected[s] = sessions[s]
BY DEF RowsTyped, Collected

\* A cleanup, or a process that starts with one, only deletes sessions.
LEMMA SweepEvolves ==
  ASSUME RowsTyped, UNCHANGED <<now, users, nextSession>>, sessions' \in {sessions, Collected}
  PROVE  /\ Evolves
         /\ sessions' \in [Sessions -> Session \cup {None}]
         /\ \A s \in Sessions : sessions'[s] # None => sessions'[s] = sessions[s]
<1>1. /\ sessions' \in [Sessions -> Session \cup {None}]
      /\ \A s \in Sessions : sessions'[s] # None => sessions'[s] = sessions[s]
  BY CollectedRows DEF RowsTyped
<1>2. now \in Int /\ nextSession \in Int
  BY TimesAreNat, BoundsAssumption DEF RowsTyped
<1>3. Evolves
  BY <1>1, <1>2 DEF Evolves
<1>4. QED
  BY <1>1, <1>3

LEMMA CleanupInv ==
  ASSUME IInv, Cleanup
  PROVE  IInv'
<1> RowsTyped /\ SlotsTyped /\ TableInv /\ JarInv
  BY DEF IInv, Typed
<1>1. /\ sessions' = Collected
      /\ UNCHANGED <<now, users, nextSession, config, jar, pc, call, auth, reply, deadOnArrival>>
  BY DEF Cleanup
<1>2. /\ Evolves
      /\ sessions' \in [Sessions -> Session \cup {None}]
      /\ \A s \in Sessions : sessions'[s] # None => sessions'[s] = sessions[s]
  BY <1>1, SweepEvolves
<1>3. Typed' /\ RowsTyped'
  BY <1>1, <1>2 DEF Typed, RowsTyped, SlotsTyped, config
<1>4. TableInv'
  BY <1>1, <1>2 DEF TableInv, RowInv, Stale, config
<1>5. JarInv'
  BY <1>1, <1>2, <1>3, JarStable
<1>6. Settled
  BY <1>1 DEF Settled, Stale, config
<1>7. \A r \in Requests : SlotInv(r)'
  BY <1>1, <1>2, <1>3, <1>6, SlotStable DEF IInv, Idle
<1>8. QED
  BY <1>3, <1>4, <1>5, <1>7 DEF IInv

\* After a restart no request is in progress, and whoever was made an administrator
\* before it became stale now at the latest.
LEMMA RestartInv ==
  ASSUME IInv, NEW list \in AllowLists, Restart(list)
  PROVE  IInv'
<1> RowsTyped /\ SlotsTyped /\ TableInv /\ JarInv
  BY DEF IInv, Typed
<1>1. /\ admins' = list
      /\ adminsSince' = IF list = admins THEN adminsSince ELSE now
      /\ sessions' \in {sessions, Collected}
      /\ pc' = [r \in Requests |-> "idle"]
      /\ call' = [r \in Requests |-> None]
      /\ auth' = [r \in Requests |-> None]
      /\ reply' = [r \in Requests |-> None]
      /\ deadOnArrival' = [r \in Requests |-> FALSE]
      /\ UNCHANGED <<now, users, nextSession, jar>>
  BY DEF Restart
<1>2. /\ Evolves
      /\ sessions' \in [Sessions -> Session \cup {None}]
      /\ \A s \in Sessions : sessions'[s] # None => sessions'[s] = sessions[s]
  BY <1>1, SweepEvolves
<1>3. Typed' /\ RowsTyped'
  <2>1. RowsTyped'
    BY <1>1, <1>2 DEF RowsTyped
  <2>2. SlotsTyped'
    BY <1>1 DEF SlotsTyped, Phases
  <2>3. QED
    BY <2>1, <2>2 DEF Typed
<1>4. TableInv'
  <2>1. now \in Nat /\ adminsSince \in Nat /\ adminsSince <= now
    BY TimesAreNat DEF RowsTyped, TableInv
  <2>2. adminsSince' <= now'
    BY <1>1, <2>1
  <2>3. SUFFICES ASSUME NEW s \in Sessions, sessions'[s] # None
                 PROVE  RowInv(s)'
    BY <2>2 DEF TableInv, RowInv
  <2>4. sessions'[s] = sessions[s] /\ RowInv(s) /\ sessions[s] # None
    BY <1>2, <2>3 DEF TableInv
  <2>5. Stale(sessions[s].user)' => sessions[s].expires <= adminsSince' + SessionTTL
    <3>1. CASE list = admins
      BY <1>1, <2>4, <3>1 DEF RowInv, Stale
    <3>2. CASE list # admins
      BY <1>1, <2>4, <3>2 DEF RowInv
    <3>3. QED
      BY <3>1, <3>2
  <2>6. QED
    BY <1>1, <2>4, <2>5 DEF RowInv, Stale
<1>5. JarInv'
  BY <1>1, <1>2, <1>3, JarStable
<1>6. \A r \in Requests : SlotInv(r)'
  BY <1>1 DEF SlotInv, CallInv, AuthInv, UpsertedInv, ReplyInv, DeadInv, LogoutInv
<1>7. QED
  BY <1>3, <1>4, <1>5, <1>6 DEF IInv

\* The browser drops no CSRF cookie before the session cookie it came with or after.
LEMMA TickInv ==
  ASSUME IInv, Tick
  PROVE  IInv'
<1> RowsTyped /\ SlotsTyped /\ TableInv /\ JarInv
  BY DEF IInv, Typed
<1>1. /\ now < MaxTime /\ now' = now + 1
      /\ jar'.session = Unexpired(jar.session, now + 1)
      /\ jar'.csrf = Unexpired(jar.csrf, now + 1)
      /\ UNCHANGED <<users, sessions, nextSession, admins, adminsSince,
                     pc, call, auth, reply, deadOnArrival>>
  BY DEF Tick, tables, config
<1>2. now \in Nat /\ adminsSince \in Nat /\ nextSession \in Nat /\ now' \in Times
  BY <1>1, TimesAreNat, BoundsAssumption DEF RowsTyped, Times
<1>3. Typed' /\ RowsTyped'
  BY <1>1, <1>2 DEF Typed, RowsTyped, SlotsTyped
<1>4. Evolves
  BY <1>1, <1>2 DEF Evolves
<1>5. Settled
  BY <1>1 DEF Settled, Stale
<1>6. TableInv'
  <2>1. SUFFICES ASSUME NEW s \in Sessions, sessions[s] # None
                 PROVE  sessions[s].expires <= now' + SessionTTL
    BY <1>1, <1>2 DEF TableInv, RowInv, Stale
  <2>2. sessions[s].expires \in Nat
    BY <2>1, TimesAreNat DEF RowsTyped, Session, Expiries
  <2>3. QED
    BY <1>1, <1>2, <2>1, <2>2, TimesAreNat DEF TableInv, RowInv
<1>7. JarInv'
  <2>1. /\ jar'.session # None => jar'.session = jar.session /\ jar.session.until > now + 1
        /\ jar'.csrf # None => jar'.csrf = jar.csrf
        /\ jar.csrf # None /\ jar.csrf.until > now + 1 => jar'.csrf = jar.csrf
    BY <1>1, <1>2 DEF Unexpired, JarInv
  <2>2. jar'.csrf # None => Issued(jar.csrf.value)' /\ jar'.csrf.until \in Int
    <3>1. SUFFICES ASSUME jar'.csrf # None
                   PROVE  Issued(jar.csrf.value)' /\ jar'.csrf.until \in Int
      OBVIOUS
    <3>2. jar.csrf # None /\ Issued(jar.csrf.value) /\ jar.csrf.until \in Int
      BY <2>1, <3>1 DEF JarInv
    <3>3. PICK token : token = jar.csrf.value
      OBVIOUS
    <3>4. Issued(token)'
      BY <1>3, <1>4, <3>2, <3>3, IssuedStays
    <3>5. token = jar'.csrf.value
      BY <2>1, <3>1, <3>3
    <3>6. QED
      BY <2>1, <3>1, <3>2, <3>4, <3>5
  <2>3. jar'.session # None =>
          /\ jar'.session.value \in Sessions /\ jar'.session.value < nextSession'
          /\ jar'.session.until \in Int /\ jar'.session.until <= now' + SessionTTL
          /\ jar'.csrf # None /\ jar'.session.until <= jar'.csrf.until
    BY <1>1, <1>2, <2>1, TimesAreNat DEF JarInv
  <2>4. QED
    BY <2>2, <2>3 DEF JarInv
<1>8. \A r \in Requests : SlotInv(r)'
  BY <1>1, <1>3, <1>4, <1>5, SlotStable DEF IInv, Idle
<1>9. QED
  BY <1>3, <1>6, <1>7, <1>8 DEF IInv

-----------------------------------------------------------------------------
(* The theorems *)

LEMMA InitInv == Init => IInv
<1> SUFFICES ASSUME Init  PROVE IInv
  OBVIOUS
<1> USE DEF Init
<1>1. now \in Times /\ nextSession \in 1..(MaxSession + 1)
  BY TimesAreNat, BoundsAssumption DEF Times
<1>2. Typed
  BY <1>1 DEF Typed, RowsTyped, SlotsTyped, Phases
<1>3. TableInv
  BY DEF TableInv, RowInv
<1>4. JarInv
  BY DEF JarInv
<1>5. \A r \in Requests : SlotInv(r)
  BY DEF SlotInv, CallInv, AuthInv, UpsertedInv, ReplyInv, DeadInv, LogoutInv
<1>6. QED
  BY <1>2, <1>3, <1>4, <1>5 DEF IInv

LEMMA StepInv == IInv /\ [Next]_vars => IInv'
<1>1. SUFFICES ASSUME IInv, [Next]_vars  PROVE IInv'
  OBVIOUS
<1>2. CASE \E r \in Requests :
             \/ \E kind \in Kinds, id \in Identity \cup {None} : Receive(r, kind, id)
             \/ Handle(r)
             \/ Deliver(r)
             \/ Lose(r)
  BY <1>1, <1>2, RequestOwed, StepOfOne
<1>3. CASE Cleanup
  BY <1>1, <1>3, CleanupInv
<1>4. CASE \E list \in AllowLists : Restart(list)
  BY <1>1, <1>4, RestartInv
<1>5. CASE Tick
  BY <1>1, <1>5, TickInv
<1>6. CASE UNCHANGED vars
  <2> USE <1>6 DEF vars
  <2>1. Typed'
    BY <1>1 DEF IInv, Typed, RowsTyped, SlotsTyped
  <2>2. TableInv' /\ JarInv'
    BY <1>1 DEF IInv, TableInv, RowInv, JarInv, Stale, Issued
  <2>3. UNCHANGED <<now, tables, config>>
    BY DEF tables, config
  <2>4. Evolves /\ Settled
    BY <1>1, <2>1, <2>3, QuietStep DEF Typed
  <2>5. \A r \in Requests : SlotInv(r)'
    BY <1>1, <2>1, <2>4, SlotStable DEF IInv, Idle
  <2>6. QED
    BY <2>1, <2>2, <2>5 DEF IInv
<1>7. QED
  BY <1>1, <1>2, <1>3, <1>4, <1>5, <1>6 DEF Next

LEMMA Invariant == Spec => []IInv
BY InitInv, StepInv, PTL DEF Spec

\* Every variable holds what the code can put in it.
THEOREM AuthTypeCorrect == Spec => []TypeOK
<1>1. IInv => TypeOK
  <2>1. SUFFICES ASSUME IInv  PROVE TypeOK
    OBVIOUS
  <2>2. Value(jar.session) \in Sessions \cup {None} /\ Value(jar.csrf) \in Csrf \cup {None}
    BY <2>1 DEF IInv, JarInv, Value, Issued
  <2>3. \A r \in Requests : pc[r] \in {"authenticated", "checked"} =>
          auth[r].role # None /\ auth[r].csrf # None
    BY <2>1 DEF IInv, SlotInv, AuthInv
  <2>4. QED
    BY <2>1, <2>2, <2>3 DEF IInv, Typed, RowsTyped, SlotsTyped, TypeOK
<1>2. QED
  BY <1>1, Invariant, PTL

\* No request gets in with the token of a session that was revoked, expired or gone when
\* it arrived, whatever runs beside it.
THEOREM DeadSessionsStayDead == Spec => []DeadStaysDead
<1>1. IInv => DeadStaysDead
  BY DEF IInv, SlotInv, DeadInv, DeadStaysDead
<1>2. QED
  BY <1>1, Invariant, PTL

\* After a logout answered 204 or 401 no login, cleanup or restart brings the session
\* back.
THEOREM LogoutsAreFinal == Spec => []LogoutIsFinal
<1>1. IInv => LogoutIsFinal
  BY DEF IInv, SlotInv, LogoutInv, LogoutIsFinal
<1>2. QED
  BY <1>1, Invariant, PTL

\* An administrator taken off the allowlist is one for no longer than a session lives.
THEOREM RolesGoStale == Spec => []StaleAdminsExpire
<1>1. IInv => StaleAdminsExpire
  <2>1. SUFFICES ASSUME IInv, NEW s \in Sessions, Active(s),
                        users[sessions[s].user].role = "admin",
                        users[sessions[s].user].email \notin admins
                 PROVE  sessions[s].expires <= adminsSince + SessionTTL
    BY DEF StaleAdminsExpire
  <2>2. sessions[s] # None /\ RowInv(s)
    BY <2>1 DEF IInv, TableInv, Active
  <2>3. QED
    BY <2>1, <2>2 DEF RowInv, Stale
<1>2. QED
  BY <1>1, Invariant, PTL

\* For the lifetimes the window of CSRF tokens covers, a browser that has a session
\* cookie has a CSRF cookie, and if that is one of the session it is accepted.
THEOREM CookiesAccepted ==
  ASSUME WholeHours
  PROVE  Spec => []HeldTokenAccepted
<1>1. IInv => HeldTokenAccepted
  <2>1. SUFFICES ASSUME IInv, jar.session # None
                 PROVE  /\ jar.csrf # None
                        /\ Active(jar.session.value)
                             /\ jar.csrf.value.session = jar.session.value
                             => Valid(jar.session.value, jar.csrf.value, now)
    BY DEF HeldTokenAccepted
  <2>2. jar.csrf # None /\ Issued(jar.csrf.value) /\ RowsTyped /\ TableInv
    BY <2>1 DEF IInv, JarInv, Typed
  <2>3. QED
    BY <2>2, IssuedIsValid
<1>2. QED
  BY <1>1, Invariant, PTL

\* For the same lifetimes, the response to a request of the present session leaves the
\* browser a CSRF cookie that is accepted.
THEOREM RepliesHeal ==
  ASSUME WholeHours
  PROVE  Spec => ReplyHeals
<1> DEFINE Heals(r) ==
             Deliver(r) /\ reply[r].code \in {"OK", "FORBIDDEN", "CSRF_TOKEN_INVALID"} =>
               LET s == Value(jar'.session)
               IN s # None /\ s \in {call[r].session, reply[r].session} /\ Active(s)
                    => /\ jar'.csrf # None
                       /\ Valid(s, jar'.csrf.value, now)
<1>1. ASSUME IInv, NEW r \in Requests
      PROVE  Heals(r)
  <2>1. SUFFICES ASSUME Deliver(r), reply[r].code \in Healing,
                        NEW s, s = Value(jar'.session), s # None,
                        s \in {call[r].session, reply[r].session}, Active(s)
                 PROVE  jar'.csrf # None /\ Valid(s, jar'.csrf.value, now)
    BY DEF Healing
  <2> RowsTyped /\ TableInv
    BY <1>1 DEF IInv, Typed
  <2>2. pc[r] = "done" /\ ReplyInv(r) /\ reply[r] \in Reply
    BY <1>1, <2>1 DEF Deliver, IInv, SlotInv, ReplyInv
  <2>3. /\ jar'.session = Applied(reply[r].session, jar.session)
        /\ jar'.csrf = Applied(reply[r].csrf, jar.csrf)
    BY <2>1 DEF Deliver
  <2>4. reply[r].session # Cleared
    BY <2>1, <2>3, Distinct DEF Applied, Value
  <2>5. PICK token \in Csrf : token = reply[r].csrf
    BY <2>1, <2>2, <2>4 DEF ReplyInv
  <2>6. Issued(token) /\ token.session = SessionAfter(r)
    BY <2>1, <2>2, <2>4, <2>5 DEF ReplyInv
  <2>7. jar'.csrf # None /\ jar'.csrf.value = token
    BY <2>3, <2>5, Distinct, CookieHeld DEF Applied
  <2>8. SessionAfter(r) = s
    <3>1. CASE reply[r].session = None
      BY <2>1, <3>1 DEF SessionAfter
    <3>2. CASE reply[r].session \in Sessions
      <4>1. PICK v \in Sessions : v = reply[r].session
        BY <3>2
      <4>2. jar'.session # None /\ jar'.session.value = v
        BY <2>3, <3>2, <4>1, Distinct, CookieHeld DEF Applied
      <4>3. QED
        BY <2>1, <3>2, <4>1, <4>2, Distinct DEF SessionAfter, Value
    <3>3. QED
      BY <2>2, <2>4, <3>1, <3>2 DEF Reply
  <2>9. QED
    BY <2>1, <2>6, <2>7, <2>8, IssuedIsValid
<1>2. IInv /\ [Next]_vars => [\A r \in Requests : Heals(r)]_vars
  BY <1>1
<1>3. QED
  BY <1>2, Invariant, PTL DEF Spec, ReplyHeals

=============================================================================
