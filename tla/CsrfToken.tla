------------------------------ MODULE CsrfToken ------------------------------
(***************************************************************************)
(* CSRF tokens (middleware/csrf.go): the HMAC of a session token and of    *)
(* the hour it was signed in, with that hour in clear.  The HMAC is        *)
(* modelled by what it is taken over: a token is valid for a session only  *)
(* if it was signed for that session and for the hour it shows.            *)
(* Times count from the epoch in a unit of which HourSeconds make an hour. *)
(***************************************************************************)
EXTENDS Integers

CONSTANTS
  HourSeconds,   \* csrfHourSeconds
  SessionTTL     \* config.AuthConfig.SessionTTL

ASSUME HourAssumption == HourSeconds \in Nat \ {0}

\* config.loadAuthConfig refuses a lifetime that is not positive.
ASSUME TTLAssumption == SessionTTL \in Nat \ {0}

HourSkew == 1

HourBucket(t) == t \div HourSeconds

Sign(session, t) == [session |-> session, hour |-> HourBucket(t)]

\* Mutant: the comparison with the lifetime is strict.
MaxHourDeltaStrict == SessionTTL \div HourSeconds - 1

\* How many hours back a token may have been signed; the lifetime is rounded down.
MaxHourDelta ==
  IF SessionTTL \div HourSeconds < HourSkew
  THEN HourSkew
  ELSE SessionTTL \div HourSeconds

Valid(session, token, t) ==
  /\ token.session = session
  /\ HourBucket(t) - token.hour \in -HourSkew..MaxHourDelta

=============================================================================
