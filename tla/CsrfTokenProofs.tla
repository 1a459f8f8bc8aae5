--------------------------- MODULE CsrfTokenProofs ---------------------------
(***************************************************************************)
(* The window of CSRF tokens, for every length of the hour and every       *)
(* lifetime of sessions.                                                   *)
(***************************************************************************)
EXTENDS CsrfToken, TLAPS

\* The lifetimes for which rounding down loses nothing: up to an hour, or whole hours.
WholeHours ==
  SessionTTL <= HourSeconds \/ \E k \in Nat : SessionTTL = k * HourSeconds

\* Multiplication by the length of the hour keeps the order.
LEMMA HoursMonotone ==
  ASSUME NEW a \in Int, NEW b \in Int, a <= b
  PROVE  a * HourSeconds <= b * HourSeconds
BY HourAssumption

\* An hour bucket holds the times of one hour.
LEMMA BucketBounds ==
  ASSUME NEW t \in Nat
  PROVE  /\ HourBucket(t) \in Nat
         /\ HourBucket(t) * HourSeconds <= t
         /\ t < (HourBucket(t) + 1) * HourSeconds
BY HourAssumption DEF HourBucket

\* Between two times, no more bucket boundaries are crossed than hours fit in, and one.
LEMMA BucketDistance ==
  ASSUME NEW t \in Nat, NEW u \in Nat, NEW k \in Nat,
         u < t + k * HourSeconds
  PROVE  HourBucket(u) - HourBucket(t) <= k
<1> DEFINE a == HourBucket(t)
           b == HourBucket(u)
<1>1. a \in Nat /\ b \in Nat
  BY BucketBounds
<1>2. b * HourSeconds <= u /\ t < (a + 1) * HourSeconds
  BY BucketBounds
<1>3. SUFFICES ASSUME b >= a + 1 + k  PROVE FALSE
  BY <1>1
<1>4. (a + 1 + k) * HourSeconds <= b * HourSeconds
  BY <1>1, <1>3, HoursMonotone
<1>5. (a + 1 + k) * HourSeconds = (a + 1) * HourSeconds + k * HourSeconds
  BY <1>1, HourAssumption
<1> HIDE DEF a, b
<1>6. /\ (a + 1) * HourSeconds \in Int /\ k * HourSeconds \in Int
      /\ b * HourSeconds \in Int
  BY <1>1, HourAssumption
<1>7. QED
  BY <1>2, <1>4, <1>5, <1>6

\* Time does not run backwards through the buckets.
LEMMA BucketMonotone ==
  ASSUME NEW t \in Nat, NEW u \in Nat, t <= u
  PROVE  HourBucket(t) <= HourBucket(u)
<1>1. t < u + 1 * HourSeconds
  BY HourAssumption
<1>2. HourBucket(t) \in Nat /\ HourBucket(u) \in Nat
  BY BucketBounds
<1>3. SUFFICES ASSUME HourBucket(u) + 1 <= HourBucket(t)  PROVE FALSE
  BY <1>2
<1>4. (HourBucket(u) + 1) * HourSeconds <= HourBucket(t) * HourSeconds
  BY <1>2, <1>3, HoursMonotone
<1>5. /\ HourBucket(t) * HourSeconds <= t
      /\ u < (HourBucket(u) + 1) * HourSeconds
  BY BucketBounds
<1>6. HourBucket(t) * HourSeconds \in Int /\ (HourBucket(u) + 1) * HourSeconds \in Int
  BY <1>2, HourAssumption
<1>7. QED
  BY <1>4, <1>5, <1>6

\* A token is valid for its session for as long as the session can live: the window
\* of ValidCSRFToken covers SESSION_TTL if that is at most an hour or whole hours.
THEOREM WindowCoversLifetime ==
  ASSUME WholeHours, NEW session, NEW t \in Nat, NEW u \in Nat,
         t <= u, u < t + SessionTTL
  PROVE  Valid(session, Sign(session, t), u)
<1>1. HourBucket(t) \in Nat /\ HourBucket(u) \in Nat
  BY BucketBounds
<1>2. HourBucket(t) <= HourBucket(u)
  BY BucketMonotone
<1>3. HourBucket(u) - HourBucket(t) <= MaxHourDelta /\ MaxHourDelta \in Nat
  <2>1. CASE SessionTTL <= HourSeconds
    <3>1. u < t + 1 * HourSeconds
      BY <2>1, TTLAssumption, HourAssumption
    <3>2. HourBucket(u) - HourBucket(t) <= 1
      BY <3>1, BucketDistance
    <3>3. SessionTTL \div HourSeconds \in Int
      BY TTLAssumption, HourAssumption
    <3>4. MaxHourDelta >= 1 /\ MaxHourDelta \in Nat
      BY <3>3 DEF MaxHourDelta, HourSkew
    <3>5. QED
      BY <1>1, <3>2, <3>4
  <2>2. CASE \E k \in Nat : SessionTTL = k * HourSeconds
    <3>1. PICK k \in Nat : SessionTTL = k * HourSeconds
      BY <2>2
    <3>2. HourBucket(u) - HourBucket(t) <= k
      BY <3>1, BucketDistance
    <3>3. (k * HourSeconds) \div HourSeconds = k
      BY HourAssumption
    <3>4. MaxHourDelta >= k /\ MaxHourDelta \in Nat
      BY <3>1, <3>3 DEF MaxHourDelta, HourSkew
    <3>5. QED
      BY <1>1, <3>2, <3>4
  <2>3. QED
    BY <2>1, <2>2 DEF WholeHours
<1>4. QED
  BY <1>1, <1>2, <1>3 DEF Valid, Sign, HourSkew

\* A time lies in the bucket whose bounds enclose it.
LEMMA BucketIs ==
  ASSUME NEW t \in Nat, NEW k \in Nat,
         k * HourSeconds <= t, t < (k + 1) * HourSeconds
  PROVE  HourBucket(t) = k
<1> DEFINE a == HourBucket(t)
<1>1. a \in Nat /\ a * HourSeconds <= t /\ t < (a + 1) * HourSeconds
  BY BucketBounds
<1>2. a + 1 <= k => (a + 1) * HourSeconds <= k * HourSeconds
  BY <1>1, HoursMonotone
<1>3. k + 1 <= a => (k + 1) * HourSeconds <= a * HourSeconds
  BY <1>1, HoursMonotone
<1> HIDE DEF a
<1>4. /\ (a + 1) * HourSeconds \in Int /\ a * HourSeconds \in Int
      /\ (k + 1) * HourSeconds \in Int /\ k * HourSeconds \in Int
  BY <1>1, HourAssumption
<1>5. ~(a + 1 <= k) /\ ~(k + 1 <= a)
  BY <1>1, <1>2, <1>3, <1>4
<1>6. QED
  BY <1>1, <1>5 DEF a

\* With any other lifetime the window falls short: a token signed at the end of an hour
\* is refused while its session, and the cookie that holds it, still live.
THEOREM WindowFallsShort ==
  ASSUME NEW session, NEW k \in Nat \ {0}, NEW r \in Nat,
         2 <= r, r < HourSeconds, SessionTTL = k * HourSeconds + r
  PROVE  \E t, u \in Nat : /\ t <= u /\ u < t + SessionTTL
                           /\ ~Valid(session, Sign(session, t), u)
<1> DEFINE t == HourSeconds - 1
           u == (k + 1) * HourSeconds
<1>1. k * HourSeconds \in Nat /\ u = k * HourSeconds + HourSeconds /\ k * HourSeconds >= 0
  BY HourAssumption
<1>2. t \in Nat /\ u \in Nat /\ t <= u /\ u < t + SessionTTL
  BY <1>1, HourAssumption
<1>3. HourBucket(t) = 0
  BY <1>2, HourAssumption, BucketIs
<1>4. HourBucket(u) = k + 1
  <2>1. ((k + 1) + 1) * HourSeconds = u + HourSeconds
    BY <1>1, HourAssumption
  <2>2. QED
    BY <1>2, <2>1, HourAssumption, BucketIs
<1>5. MaxHourDelta = k
  <2>1. k * HourSeconds <= SessionTTL /\ SessionTTL < (k + 1) * HourSeconds
    BY <1>1, HourAssumption
  <2>2. SessionTTL \div HourSeconds = k
    BY <2>1, TTLAssumption, BucketIs DEF HourBucket
  <2>3. QED
    BY <2>2 DEF MaxHourDelta, HourSkew
<1> HIDE DEF t, u
<1>6. ~Valid(session, Sign(session, t), u)
  BY <1>3, <1>4, <1>5 DEF Valid, Sign, HourSkew
<1>7. QED
  BY <1>2, <1>6

=============================================================================
