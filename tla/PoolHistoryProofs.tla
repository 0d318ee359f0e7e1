-------------------------- MODULE PoolHistoryProofs --------------------------
(***************************************************************************)
(* Theorems about the pool and the history of its results, for any number  *)
(* of keys and any responses: FAIL_THRESHOLD failures in a row park a key, *)
(* and a key that is parked again for the same cause is parked longer.     *)
(***************************************************************************)
EXTENDS PoolHistory, PoolProofs

-----------------------------------------------------------------------------
(* The counters of a key.                                                  *)

\* The failures counted for a key stay below the threshold that parks it.
Counted(k) == k.consecutive_failures < FAIL_THRESHOLD

\* A look at a key changes none of its counters.
LEMMA LookKeepsCounters ==
  ASSUME NEW k \in KeyRecord, NEW t \in Instant
  PROVE  LET r == Refresh(k, t)  s == Settle(r, t)
         IN  /\ r.consecutive_failures = k.consecutive_failures
             /\ s.consecutive_failures = k.consecutive_failures
             /\ r.disable_strikes = k.disable_strikes
             /\ s.disable_strikes = k.disable_strikes
<1>1. /\ Refresh(k, t) \in KeyRecord
      /\ Refresh(k, t).consecutive_failures = k.consecutive_failures
      /\ Refresh(k, t).disable_strikes = k.disable_strikes
  BY RefreshType DEF Refresh, KeyRecord
<1>2. ASSUME NEW r \in KeyRecord
      PROVE  /\ Settle(r, t).consecutive_failures = r.consecutive_failures
             /\ Settle(r, t).disable_strikes = r.disable_strikes
  BY DEF Settle, KeyRecord
<1>. QED BY <1>1, <1>2

LEMMA LearnLimitsKeepsCounters ==
  ASSUME NEW k \in KeyRecord, NEW t, NEW rl
  PROVE  LET l == LearnLimits(k, t, rl)
         IN  /\ l.consecutive_failures = k.consecutive_failures
             /\ l.disable_strikes = k.disable_strikes
BY DEF LearnLimits, KeyRecord

\* Disabling a key is a strike, and starts the count again.
LEMMA DisableStrikes ==
  ASSUME NEW k \in KeyRecord, NEW t, NEW base, NEW max
  PROVE  LET d == Disable(k, t, base, max)
         IN  /\ d.consecutive_failures = 0
             /\ d.disable_strikes > k.disable_strikes
BY DEF Disable, KeyRecord

LEMMA ExhaustKeepsCount ==
  ASSUME NEW k \in KeyRecord, NEW t, NEW reset_in
  PROVE  Exhaust(k, t, reset_in).consecutive_failures = k.consecutive_failures
BY DEF Exhaust, KeyRecord

\* A failure is counted, or is the one that parks the key.
LEMMA FailCounts ==
  ASSUME NEW k \in KeyRecord, NEW t
  PROVE  LET f == Fail(k, t)
         IN  \/ /\ f.consecutive_failures = k.consecutive_failures + 1
                /\ f.consecutive_failures < FAIL_THRESHOLD
             \/ /\ f.consecutive_failures = 0
                /\ f.disable_strikes > k.disable_strikes
<1> DEFINE failed == [k EXCEPT !.consecutive_failures = @ + 1]
<1>1. /\ failed \in KeyRecord
      /\ failed.consecutive_failures = k.consecutive_failures + 1
      /\ failed.disable_strikes = k.disable_strikes
  BY DEF KeyRecord
<1>2. Fail(k, t) = IF failed.consecutive_failures >= FAIL_THRESHOLD
                   THEN Disable(failed, t, FAIL_BACKOFF_BASE, FAIL_BACKOFF_MAX)
                   ELSE failed
  BY DEF Fail
<1>3. failed.consecutive_failures \in Nat /\ FAIL_THRESHOLD \in Nat \ {0}
  BY <1>1, KeyStateAssumption DEF KeyRecord
<1> HIDE DEF failed
<1>. QED BY <1>1, <1>2, <1>3, DisableStrikes

\* Of every other result the count is left as it was, or starts again.
LEMMA DigestCounts ==
  ASSUME NEW k \in KeyRecord, NEW t \in Instant, NEW o \in Outcome, Counted(k)
  PROVE  LET d == Digest(k, t, o)
         IN  /\ Counted(d)
             /\ o.class \in Failing =>
                  \/ d.consecutive_failures = k.consecutive_failures + 1
                  \/ d.disable_strikes > k.disable_strikes
<1> DEFINE l == LearnLimits(k, t, o.rl)
<1>0. /\ FAIL_THRESHOLD \in Nat \ {0}
      /\ o.class \in Class /\ o.rl \in RateLimitInfo
  BY KeyStateAssumption DEF Outcome
<1>1. /\ l \in KeyRecord
      /\ l.consecutive_failures = k.consecutive_failures
      /\ l.disable_strikes = k.disable_strikes
  BY <1>0, LearnLimitsType, LearnLimitsKeepsCounters
<1> HIDE DEF l
<1>2. Counted(l)
  BY <1>1 DEF Counted
<1>3. CASE o.class = "2xx"
  <2>1. Succeed(l, t, o.rl).consecutive_failures = 0
    <3> DEFINE served == [l EXCEPT !.ok = @ + 1, !.consecutive_failures = 0,
                                   !.consecutive_429 = 0, !.disable_strikes = 0]
    <3>1. served \in KeyRecord /\ served.consecutive_failures = 0
      <4>1. l.ok + 1 \in Nat
        BY <1>1 DEF KeyRecord
      <4>. QED BY <1>1, <4>1 DEF KeyRecord
    <3> HIDE DEF served
    <3>2. \A reset_in : Exhaust(served, t, reset_in).consecutive_failures = 0
      BY <3>1, ExhaustKeepsCount
    <3>3. \/ Succeed(l, t, o.rl) = served
          \/ \E reset_in : Succeed(l, t, o.rl) = Exhaust(served, t, reset_in)
      BY Zenon DEF Succeed, served
    <3>. QED BY <3>1, <3>2, <3>3
  <2>. QED BY <1>0, <1>3, <2>1 DEF Digest, l, Counted, Failing
<1>4. CASE o.class = "429"
  <2>1. LET m == TooManyRequests(l, t, o.rl)
        IN  \/ m.consecutive_failures = l.consecutive_failures
            \/ m.consecutive_failures = 0
    <3> DEFINE counted == [l EXCEPT !.consecutive_429 = @ + 1]
               held(u) == [counted EXCEPT !.hold_until = u]
    <3>1. /\ counted \in KeyRecord
          /\ counted.consecutive_failures = l.consecutive_failures
      <4>1. l.consecutive_429 + 1 \in Nat
        BY <1>1 DEF KeyRecord
      <4>. QED BY <1>1, <4>1 DEF KeyRecord
    <3>2. \A reset_in : Exhaust(counted, t, reset_in).consecutive_failures
                          = l.consecutive_failures
      BY <3>1, ExhaustKeepsCount
    <3>3. \A u : held(u).consecutive_failures = l.consecutive_failures
      BY <3>1 DEF KeyRecord
    <3>4. ASSUME NEW base, NEW max
          PROVE  Disable(held(t + Secs(2)), t, base, max).consecutive_failures = 0
      <4>1. t + Secs(2) \in OptInstant
        BY SecsType DEF Instant, OptInstant
      <4>2. held(t + Secs(2)) \in KeyRecord
        BY <3>1, <4>1 DEF KeyRecord
      <4>. QED BY <4>2, DisableStrikes
    <3>5. LET m == TooManyRequests(l, t, o.rl)
          IN  \/ \E reset_in : m = Exhaust(counted, t, reset_in)
              \/ \E u : m = held(u)
              \/ \E base, max : m = Disable(held(t + Secs(2)), t, base, max)
      BY Zenon DEF TooManyRequests
    <3> HIDE DEF counted, held
    <3>. QED BY <3>2, <3>3, <3>4, <3>5
  <2>. QED BY <1>0, <1>2, <1>4, <2>1 DEF Digest, l, Counted, Failing
<1>5. CASE o.class = "auth"
  BY <1>0, <1>1, <1>5, DisableStrikes DEF Digest, l, Counted, Failing
<1>6. CASE o.class \in {"5xx", "transport"}
  <2>1. Digest(k, t, o) = Fail(l, t)
    BY <1>6 DEF Digest, l
  <2>. QED BY <1>0, <1>1, <2>1, FailCounts DEF Counted
<1>7. CASE o.class \in {"4xx", "other"}
  <2>1. Digest(k, t, o) = l
    BY <1>7 DEF Digest, l
  <2>. QED BY <1>2, <1>7, <2>1 DEF Failing
<1>. QED BY <1>0, <1>3, <1>4, <1>5, <1>6, <1>7 DEF Class

-----------------------------------------------------------------------------
(* How long a strike parks a key.                                          *)

BackoffBase == [c \in Cause |-> CASE c = "auth" -> AUTH_BACKOFF_BASE
                                  [] c = "failure" -> FAIL_BACKOFF_BASE
                                  [] OTHER -> UNEXPLAINED_429_BACKOFF]

\* How long the strike with this number parks a key, when it has this cause.
StrikePark(c, strikes) == Backoff(strikes, BackoffBase[c], LongestPark[c])

LEMMA CausesType ==
  ASSUME NEW c \in Cause
  PROVE  /\ BackoffBase[c] \in Nat \ {0} /\ LongestPark[c] \in Nat \ {0}
         /\ LongestPark[c] <= BackoffBase[c] * 65536
<1>1. \A b \in Nat \ {0} : b <= b * 65536
  OBVIOUS
<1>2. CASE c = "auth"
  BY <1>2, KeyStateAssumption, BackoffAssumption DEF BackoffBase, LongestPark
<1>3. CASE c = "failure"
  BY <1>3, KeyStateAssumption, BackoffAssumption DEF BackoffBase, LongestPark
<1>4. CASE c = "429"
  BY <1>1, <1>4, KeyStateAssumption DEF BackoffBase, LongestPark
<1>. QED BY <1>2, <1>3, <1>4 DEF Cause

LEMMA ShiftDoubles ==
  ASSUME NEW n \in 1..16
  PROVE  ShiftOne[n] \in Nat /\ ShiftOne[n + 1] = 2 * ShiftOne[n]
BY DEF ShiftOne

\* The next strike parks a key twice as long, up to the longest back-off.
LEMMA BackoffDoubles ==
  ASSUME NEW c \in Cause, NEW strikes \in Nat \ {0}
  PROVE  /\ StrikePark(c, strikes) \in Nat
         /\ StrikePark(c, strikes) <= StrikePark(c, strikes + 1)
         /\ StrikePark(c, strikes + 1)
              >= Min2(2 * StrikePark(c, strikes), LongestPark[c])
<1> DEFINE base == BackoffBase[c]  max == LongestPark[c]
<1>0. base \in Nat /\ max \in Nat /\ max <= base * 65536
  BY CausesType
<1> HIDE DEF base, max
<1>1. /\ StrikePark(c, strikes) = Min2(base * ShiftOne[Min2(strikes, 17)], max)
      /\ StrikePark(c, strikes + 1) = Min2(base * ShiftOne[Min2(strikes + 1, 17)], max)
  BY Zenon DEF StrikePark, Backoff, base, max
<1>2. CASE strikes \in 1..16
  <2>1. Min2(strikes, 17) = strikes /\ Min2(strikes + 1, 17) = strikes + 1
    BY <1>2 DEF Min2
  <2>2. PICK f \in Nat : f = ShiftOne[strikes] /\ ShiftOne[strikes + 1] = 2 * f
    BY <1>2, ShiftDoubles
  <2>3. base * (2 * f) = 2 * (base * f) /\ base * f \in Nat
    BY <1>0
  <2>4. /\ StrikePark(c, strikes) = Min2(base * f, max)
        /\ StrikePark(c, strikes + 1) = Min2(2 * (base * f), max)
    BY <1>1, <2>1, <2>2, <2>3
  <2>5. PICK m \in Nat : m = base * f
    BY <2>3
  <2>. QED BY <1>0, <2>4, <2>5 DEF Min2, max
<1>3. CASE strikes > 16
  <2>1. Min2(strikes, 17) = 17 /\ Min2(strikes + 1, 17) = 17
    BY <1>3 DEF Min2
  <2>2. ShiftOne[17] = 65536
    BY DEF ShiftOne
  <2>3. /\ StrikePark(c, strikes) = max
        /\ StrikePark(c, strikes + 1) = max
    BY <1>0, <1>1, <2>1, <2>2 DEF Min2
  <2>. QED BY <1>0, <2>3 DEF Min2, max
<1>. QED BY <1>2, <1>3

LEMMA DisableParks ==
  ASSUME NEW k \in KeyRecord, NEW t, NEW base, NEW max
  PROVE  LET d == Disable(k, t, base, max)
         IN  /\ d.disable_strikes = k.disable_strikes + 1
             /\ d.until = t + Backoff(k.disable_strikes + 1, base, max)
BY DEF Disable, KeyRecord

\* A success ends the count of strikes; any other result leaves it, or is a
\* strike, which parks the key from the instant the result is digested.
LEMMA StrikeParks ==
  ASSUME NEW k \in KeyRecord, NEW t \in Instant, NEW o \in Outcome
  PROVE  LET d == Digest(k, t, o)
         IN  \/ o.class = "2xx" /\ d.disable_strikes = 0
             \/ o.class # "2xx" /\ d.disable_strikes = k.disable_strikes
             \/ /\ o.class # "2xx" /\ d.disable_strikes = k.disable_strikes + 1
                /\ d.until = t + StrikePark(CauseOf(o.class), k.disable_strikes + 1)
<1> DEFINE l == LearnLimits(k, t, o.rl)
           counted == [l EXCEPT !.consecutive_429 = @ + 1]
           held == [counted EXCEPT !.hold_until = t + Secs(2)]
           failed == [l EXCEPT !.consecutive_failures = @ + 1]
           d == Digest(k, t, o)
           park(c) == t + StrikePark(c, k.disable_strikes + 1)
<1>1. /\ l \in KeyRecord
      /\ l.disable_strikes = k.disable_strikes
  BY LearnLimitsType, LearnLimitsKeepsCounters DEF Outcome
<1>2. /\ counted \in KeyRecord /\ counted.disable_strikes = k.disable_strikes
      /\ failed \in KeyRecord /\ failed.disable_strikes = k.disable_strikes
  <2> HIDE DEF l
  <2>1. l.consecutive_429 + 1 \in Nat /\ l.consecutive_failures + 1 \in Nat
    BY <1>1 DEF KeyRecord
  <2>. QED BY <1>1, <2>1 DEF KeyRecord
<1>3. held \in KeyRecord /\ held.disable_strikes = k.disable_strikes
  <2>1. t + Secs(2) \in OptInstant
    BY SecsType DEF Instant, OptInstant
  <2> HIDE DEF l, counted
  <2>. QED BY <1>2, <2>1 DEF KeyRecord
<1>4. d = CASE o.class = "2xx"  -> Succeed(l, t, o.rl)
            [] o.class = "429"  -> TooManyRequests(l, t, o.rl)
            [] o.class = "auth" -> Disable(l, t, AUTH_BACKOFF_BASE, AUTH_BACKOFF_MAX)
            [] o.class \in {"5xx", "transport"} -> Fail(l, t)
            [] OTHER -> l
  BY Zenon DEF Digest, l
<1>5. Succeed(l, t, o.rl).disable_strikes = 0
  BY <1>1 DEF Succeed, Exhaust, KeyRecord
<1>6. LET m == TooManyRequests(l, t, o.rl)
      IN  \/ m.disable_strikes = l.disable_strikes
          \/ m = Disable(held, t, UNEXPLAINED_429_BACKOFF, UNEXPLAINED_429_BACKOFF)
  BY <1>1 DEF TooManyRequests, Exhaust, KeyRecord
<1>7. \/ Fail(l, t).disable_strikes = l.disable_strikes
      \/ Fail(l, t) = Disable(failed, t, FAIL_BACKOFF_BASE, FAIL_BACKOFF_MAX)
  BY <1>1 DEF Fail, KeyRecord
<1>8. /\ park("auth") = t + Backoff(k.disable_strikes + 1, AUTH_BACKOFF_BASE,
                                    AUTH_BACKOFF_MAX)
      /\ park("failure") = t + Backoff(k.disable_strikes + 1, FAIL_BACKOFF_BASE,
                                       FAIL_BACKOFF_MAX)
      /\ park("429") = t + Backoff(k.disable_strikes + 1, UNEXPLAINED_429_BACKOFF,
                                   UNEXPLAINED_429_BACKOFF)
  BY DEF StrikePark, BackoffBase, LongestPark, Cause
<1> HIDE DEF l, counted, held, failed, d, park
<1>9. CASE o.class = "2xx"
  BY <1>4, <1>5, <1>9 DEF d
<1>10. CASE o.class = "429"
  <2>1. d = TooManyRequests(l, t, o.rl)
    BY <1>4, <1>10
  <2>2. CauseOf(o.class) = "429"
    BY <1>10 DEF CauseOf, Failing
  <2>. QED BY <1>1, <1>3, <1>6, <1>8, <1>10, <2>1, <2>2, DisableParks DEF d, park
<1>11. CASE o.class = "auth"
  <2>1. d = Disable(l, t, AUTH_BACKOFF_BASE, AUTH_BACKOFF_MAX)
    BY <1>4, <1>11
  <2>2. CauseOf(o.class) = "auth"
    BY <1>11 DEF CauseOf, Failing
  <2>. QED BY <1>1, <1>8, <1>11, <2>1, <2>2, DisableParks DEF d, park
<1>12. CASE o.class \in {"5xx", "transport"}
  <2>1. d = Fail(l, t)
    BY <1>4, <1>12
  <2>2. CauseOf(o.class) = "failure"
    BY <1>12 DEF CauseOf, Failing
  <2>. QED BY <1>1, <1>2, <1>7, <1>8, <1>12, <2>1, <2>2, DisableParks DEF d, park
<1>13. CASE o.class \in {"4xx", "other"}
  BY <1>1, <1>4, <1>13 DEF d
<1>14. o.class \in Class
  BY DEF Outcome
<1>. QED BY <1>9, <1>10, <1>11, <1>12, <1>13, <1>14 DEF Class

-----------------------------------------------------------------------------
(* The invariant: the failures in a row are among those the key counts.    *)

StreakIsCounted ==
    \A i \in Key : past[i].streak <= keys[i].consecutive_failures /\ Counted(keys[i])

HistoryInv == TypeOK /\ PastTypeOK /\ StreakIsCounted

\* What a response is to the pool, and the absence of one.
LEMMA ResponseIsOutcome ==
  ASSUME NEW r \in Responses
  PROVE  [class |-> r.class, rl |-> FromHeaders(r.headers)] \in Outcome
<1>1. r.class \in Class \ {"transport"} /\ r.headers \in Headers
  BY PoolHistoryAssumption
<1>. QED BY <1>1, FromHeadersType DEF Outcome

\* Every step leaves the counters of a key alone but for the digestion of a
\* result, which is the step of the key it is a result of.
LEMMA DigestedStep ==
  ASSUME HistoryInv, NEW i \in Key, NEW o \in Outcome, NEW t \in Reading,
         NEW asked \in OptInstant, Digested(i, o, t, asked)
  PROVE  HistoryInv'
<1> USE DEF HistoryInv, TypeOK
<1> DEFINE k == keys[i]  d == Digest(keys[i], t, o)
<1>0. t \in Instant /\ k \in KeyRecord /\ Counted(k) /\ past[i] \in Past
  BY ReadingType DEF StreakIsCounted, PastTypeOK
<1>1. d \in KeyRecord /\ Counted(d)
  BY <1>0, DigestType, DigestCounts
<1>2. keys' = [keys EXCEPT ![i] = d] /\ keys'[i] = d
  BY DEF Digested, RecordAt
<1>3. TypeOK'
  BY <1>1, <1>2 DEF Digested, RecordAt
<1>4. Struck(i) <=> d.disable_strikes > k.disable_strikes
  BY <1>2 DEF Struck
<1>5. Struck(i) => d.until - t \in Nat
  <2> SUFFICES ASSUME Struck(i) PROVE d.until - t \in Nat
    OBVIOUS
  <2>1. k.disable_strikes \in Nat /\ t \in Nat /\ CauseOf(o.class) \in Cause
    BY <1>0 DEF KeyRecord, Instant, CauseOf, Cause
  <2>2. d.until = t + StrikePark(CauseOf(o.class), k.disable_strikes + 1)
    BY <1>0, <1>4, <2>1, StrikeParks
  <2>3. StrikePark(CauseOf(o.class), k.disable_strikes + 1) \in Nat
    BY <2>1, BackoffDoubles
  <2> HIDE DEF d, k
  <2>. QED BY <2>1, <2>2, <2>3
<1> DEFINE streak == IF o.class \in Failing /\ ~Struck(i) THEN past[i].streak + 1 ELSE 0
           park == CASE o.class = "2xx" -> NoPark
                     [] Struck(i) -> [past[i].park EXCEPT ![CauseOf(o.class)] = d.until - t]
                     [] OTHER -> past[i].park
           probes == IF Struck(i) THEN 0 ELSE past[i].probes
           h == [last |-> o.class, streak |-> streak, park |-> park,
                 probes |-> probes, asked |-> Max2(past[i].asked, asked)]
<1>6. past' = [past EXCEPT ![i] = h]
  BY <1>2 DEF Digested
<1>7. streak \in Nat /\ streak <= d.consecutive_failures
  <2>1. past[i].streak \in Nat /\ past[i].streak <= k.consecutive_failures
    BY <1>0 DEF StreakIsCounted, Past
  <2>2. k.consecutive_failures \in Nat /\ d.consecutive_failures \in Nat
    BY <1>0, <1>1 DEF KeyRecord
  <2>3. o.class \in Failing /\ ~Struck(i)
          => d.consecutive_failures = k.consecutive_failures + 1
    BY <1>0, <1>4, DigestCounts
  <2> HIDE DEF k, d
  <2>. QED BY <2>1, <2>2, <2>3
<1>8. park \in [Cause -> Nat]
  <2>1. past[i].park \in [Cause -> Nat] /\ NoPark \in [Cause -> Nat]
    BY <1>0 DEF Past, NoPark
  <2> HIDE DEF d
  <2>. QED BY <1>5, <2>1
<1>9. h \in Past
  <2>1. probes \in Nat /\ Max2(past[i].asked, asked) \in OptInstant
    BY <1>0 DEF Past, Max2
  <2>2. o.class \in Class
    BY DEF Outcome
  <2> HIDE DEF streak, park, probes
  <2>. QED BY <1>7, <1>8, <2>1, <2>2 DEF Past
<1>10. PastTypeOK'
  <2> HIDE DEF h
  <2>. QED BY <1>6, <1>9 DEF PastTypeOK
<1>11. StreakIsCounted'
  <2>1. past'[i].streak = streak
    BY <1>6 DEF PastTypeOK
  <2>2. \A j \in Key \ {i} : past'[j] = past[j] /\ keys'[j] = keys[j]
    BY <1>2, <1>6 DEF PastTypeOK
  <2> HIDE DEF streak, d
  <2>. QED BY <1>1, <1>2, <1>7, <2>1, <2>2 DEF StreakIsCounted
<1>. QED BY <1>3, <1>10, <1>11

LEMMA UseStep ==
  ASSUME HistoryInv, NEW exclude \in SUBSET Key, NEW i \in Key, Use(exclude, i)
  PROVE  HistoryInv'
<1>1. TypeOK'
  BY TypeStep DEF HistoryInv, Use, Next, TryAcquire
<1>2. \A j \in Key : past'[j] \in Past /\ past'[j].streak = past[j].streak
  <2>1. past \in [Key -> Past] /\ past[i] \in Past
    BY DEF HistoryInv, PastTypeOK
  <2>2. past[i].probes + 1 \in Nat
    BY <2>1 DEF Past
  <2>3. [past[i] EXCEPT !.probes = past[i].probes + 1] \in Past
    BY <2>1, <2>2 DEF Past
  <2>4. [past[i] EXCEPT !.probes = past[i].probes + 1].streak = past[i].streak
    BY <2>1 DEF Past
  <2>5. past' = [past EXCEPT ![i] = [past[i] EXCEPT !.probes = past[i].probes + 1]]
    BY DEF Use
  <2>. QED BY <2>1, <2>3, <2>4, <2>5
<1>3. PastTypeOK'
  BY <1>2 DEF HistoryInv, PastTypeOK, Use
<1>4. \A j \in Key : keys'[j].consecutive_failures = keys[j].consecutive_failures
  <2>1. \A j \in Key : Examined(exclude, now)[j].consecutive_failures
                          = keys[j].consecutive_failures
    BY LookKeepsCounters DEF HistoryInv, TypeOK, Examined, Refreshed
  <2>2. Examined(exclude, now) \in [Key -> KeyRecord]
    BY ExaminedType DEF HistoryInv, TypeOK
  <2>. QED BY <2>1, <2>2 DEF Use, Lease, KeyRecord
<1>5. StreakIsCounted'
  BY <1>2, <1>4 DEF HistoryInv, StreakIsCounted, Counted
<1>. QED BY <1>1, <1>3, <1>5 DEF HistoryInv

\* A look at the keys, a client that leaves, and time.
LEMMA OtherStep ==
  ASSUME HistoryInv, UNCHANGED past,
         \/ \E exclude \in SUBSET Key : Refuse(exclude)
         \/ \E i \in Key : Abandon(i)
         \/ Snapshot
         \/ Tick
         \/ UNCHANGED vars
  PROVE  HistoryInv'
<1> USE DEF HistoryInv
<1>1. TypeOK'
  BY TypeStep DEF Next, TryAcquire
<1>2. PastTypeOK'
  BY DEF PastTypeOK
<1>3. \A j \in Key : keys'[j].consecutive_failures = keys[j].consecutive_failures
  <2>1. ASSUME NEW exclude \in SUBSET Key, Refuse(exclude), NEW j \in Key
        PROVE  keys'[j].consecutive_failures = keys[j].consecutive_failures
    BY <2>1, LookKeepsCounters DEF TypeOK, Examined, Refreshed, Refuse
  <2>2. CASE Snapshot
    BY <2>2, LookKeepsCounters, ReadingType DEF TypeOK, Snapshot, SnapshotAt, Reported
  <2>3. CASE (\E i \in Key : Abandon(i)) \/ Tick \/ UNCHANGED vars
    BY <2>3 DEF Abandon, Tick, vars
  <2>. QED BY <2>1, <2>2, <2>3
<1>4. StreakIsCounted'
  BY <1>3 DEF StreakIsCounted, Counted
<1>. QED BY <1>1, <1>2, <1>4

LEMMA HistoryStep == HistoryInv /\ [HistoryNext]_historyVars => HistoryInv'
<1> SUFFICES ASSUME HistoryInv, [HistoryNext]_historyVars PROVE HistoryInv'
  OBVIOUS
<1>1. ASSUME NEW i \in Key, NEW exclude \in SUBSET Key, Use(exclude, i)
      PROVE  HistoryInv'
  BY <1>1, UseStep
<1>2. ASSUME NEW i \in Key, NEW r \in Responses, Receive(i, r)
      PROVE  HistoryInv'
  <2> DEFINE o == [class |-> r.class, rl |-> FromHeaders(r.headers)]
             asked(t) == IF r.class = "429" /\ r.headers.retry_after # Absent
                         THEN t + Secs(Min2(r.headers.retry_after, SECOND_WAIT_MAX))
                         ELSE NoInstant
  <2>1. PICK t \in Reading : Digested(i, o, t, asked(t))
    BY <1>2 DEF Receive
  <2>2. asked(t) \in OptInstant
    <3>1. t \in Instant /\ r.headers.retry_after \in OptNat
      BY ReadingType, PoolHistoryAssumption DEF HistoryInv, TypeOK, Headers
    <3>2. ASSUME r.headers.retry_after # Absent
          PROVE  Secs(Min2(r.headers.retry_after, SECOND_WAIT_MAX)) \in Nat
      <4>1. Min2(r.headers.retry_after, SECOND_WAIT_MAX) \in Nat
        BY <3>1, <3>2, RateLimitAssumption DEF Min2, OptNat
      <4>. QED BY <4>1, SecsType
    <3>. QED BY <3>1, <3>2 DEF OptInstant, Instant, NoInstant
  <2>3. o \in Outcome
    BY ResponseIsOutcome
  <2> HIDE DEF o, asked
  <2>. QED BY <2>1, <2>2, <2>3, DigestedStep
<1>3. ASSUME NEW i \in Key, ReceiveNothing(i)
      PROVE  HistoryInv'
  <2>1. NoInstant \in OptInstant
    BY DEF NoInstant, OptInstant
  <2>. QED BY <1>3, <2>1, TransportErrorIsOutcome, DigestedStep DEF ReceiveNothing
<1>4. CASE UNCHANGED historyVars
  BY <1>4, OtherStep DEF historyVars, vars
<1>5. ASSUME UNCHANGED past,
             \/ \E exclude \in SUBSET Key : Refuse(exclude)
             \/ \E i \in Key : Abandon(i)
             \/ Snapshot
             \/ Tick
      PROVE  HistoryInv'
  BY <1>5, OtherStep
<1>. QED BY <1>1, <1>2, <1>3, <1>4, <1>5 DEF HistoryNext

LEMMA HistoryStarts == HistoryInit => HistoryInv
<1> SUFFICES ASSUME HistoryInit PROVE HistoryInv
  OBVIOUS
<1>1. TypeOK
  BY NewKeyType, PoolAssumption DEF HistoryInit, Init, TypeOK, Instant, NoInstant
<1>2. PastTypeOK
  BY DEF HistoryInit, PastTypeOK, Past, NoPark, NoInstant, OptInstant
<1>3. StreakIsCounted
  BY KeyStateAssumption DEF HistoryInit, Init, StreakIsCounted, Counted, NewKey
<1>. QED BY <1>1, <1>2, <1>3 DEF HistoryInv

\* However requests overlap, and whatever happens between their results, a key
\* does not fail FAIL_THRESHOLD times in a row without being parked.
THEOREM FailingKeyAlwaysParked == HistorySpec => []FailingKeyIsParked
<1>1. HistoryInv => FailingKeyIsParked
  <2> SUFFICES ASSUME HistoryInv, NEW i \in Key
               PROVE  past[i].streak < FAIL_THRESHOLD
    BY DEF FailingKeyIsParked
  <2>1. past[i].streak \in Nat /\ keys[i].consecutive_failures \in Nat
    BY DEF HistoryInv, TypeOK, PastTypeOK, Past, KeyRecord
  <2>. QED BY <2>1, KeyStateAssumption DEF HistoryInv, StreakIsCounted, Counted
<1>. QED BY <1>1, HistoryStarts, HistoryStep, PTL DEF HistorySpec

-----------------------------------------------------------------------------
(* The growth of parks.  For each cause, a key was never parked longer     *)
(* than a strike of that cause with the number it has now would park it:   *)
(* every strike, of any cause, adds to the number, and what starts it      *)
(* again, a success, starts the history of parks again too.                *)

ParksAreBackedOff ==
    \A i \in Key : \A c \in Cause :
       past[i].park[c] > 0 =>
          /\ keys[i].disable_strikes > 0
          /\ past[i].park[c] <= StrikePark(c, keys[i].disable_strikes)

ParksInv == HistoryInv /\ ParksAreBackedOff

\* A step that neither parks the key nor counts a strike keeps the bound.
LEMMA SameParks ==
  ASSUME ParksAreBackedOff, NEW j \in Key,
         keys'[j].disable_strikes = keys[j].disable_strikes,
         past'[j].park = past[j].park
  PROVE  \A c \in Cause : past'[j].park[c] > 0 =>
            /\ keys'[j].disable_strikes > 0
            /\ past'[j].park[c] <= StrikePark(c, keys'[j].disable_strikes)
BY DEF ParksAreBackedOff

\* A strike parks the key for as long as its cause and its number say.
LEMMA StrikeIsRecorded ==
  ASSUME HistoryInv, NEW i \in Key, NEW o \in Outcome, NEW t \in Reading,
         NEW asked, Digested(i, o, t, asked)
  PROVE  /\ past'[i].last = o.class
         /\ CauseOf(o.class) \in Cause
         /\ \/ /\ keys'[i].disable_strikes = 0 /\ past'[i].park = NoPark
               /\ ~Struck(i)
            \/ /\ keys'[i].disable_strikes = keys[i].disable_strikes
               /\ past'[i].park = past[i].park
               /\ ~Struck(i)
            \/ /\ keys'[i].disable_strikes = keys[i].disable_strikes + 1
               /\ past'[i].park = [past[i].park EXCEPT ![CauseOf(o.class)] =
                     StrikePark(CauseOf(o.class), keys[i].disable_strikes + 1)]
<1> DEFINE c == CauseOf(o.class)  strikes == keys[i].disable_strikes
           d == Digest(keys[i], t, o)
           park == CASE o.class = "2xx" -> NoPark
                     [] Struck(i) -> [past[i].park EXCEPT ![c] = d.until - t]
                     [] OTHER -> past[i].park
<1>0. /\ t \in Instant /\ keys[i] \in KeyRecord /\ past[i] \in Past
      /\ strikes \in Nat
  BY ReadingType DEF HistoryInv, TypeOK, PastTypeOK, KeyRecord
<1>1. keys'[i] = d
  BY DEF HistoryInv, TypeOK, Digested, RecordAt
<1>2. Struck(i) <=> d.disable_strikes > strikes
  BY <1>1 DEF Struck
<1>3. past'[i].last = o.class /\ past'[i].park = park
  <2>1. past'[i] = [last   |-> o.class,
                    streak |-> IF o.class \in Failing /\ ~Struck(i)
                               THEN past[i].streak + 1 ELSE 0,
                    park   |-> park,
                    probes |-> IF Struck(i) THEN 0 ELSE past[i].probes,
                    asked  |-> Max2(past[i].asked, asked)]
    BY <1>1 DEF HistoryInv, PastTypeOK, Digested
  <2> HIDE DEF park
  <2>. QED BY <2>1
<1>4. c \in Cause
  BY DEF CauseOf, Cause
<1>5. \/ o.class = "2xx" /\ d.disable_strikes = 0
      \/ o.class # "2xx" /\ d.disable_strikes = strikes
      \/ /\ o.class # "2xx" /\ d.disable_strikes = strikes + 1
         /\ d.until = t + StrikePark(c, strikes + 1)
  BY <1>0, StrikeParks
<1> HIDE DEF d, c, strikes
<1>6. CASE o.class = "2xx" /\ d.disable_strikes = 0
  BY <1>0, <1>1, <1>2, <1>3, <1>4, <1>6 DEF c, strikes
<1>7. CASE o.class # "2xx" /\ d.disable_strikes = strikes
  BY <1>0, <1>1, <1>2, <1>3, <1>4, <1>7 DEF c, strikes
<1>8. CASE /\ o.class # "2xx" /\ d.disable_strikes = strikes + 1
           /\ d.until = t + StrikePark(c, strikes + 1)
  <2>1. StrikePark(c, strikes + 1) \in Nat /\ t \in Nat
    BY <1>0, <1>4, BackoffDoubles DEF Instant
  <2>2. d.until - t = StrikePark(c, strikes + 1)
    BY <1>8, <2>1
  <2>3. Struck(i)
    BY <1>0, <1>2, <1>8
  <2>4. park = [past[i].park EXCEPT ![c] = d.until - t]
    BY <1>8, <2>3
  <2> HIDE DEF park
  <2>. QED BY <1>1, <1>3, <1>4, <1>8, <2>2, <2>4 DEF c, strikes
<1>. QED BY <1>5, <1>6, <1>7, <1>8

LEMMA ParksDigestedStep ==
  ASSUME ParksInv, NEW i \in Key, NEW o \in Outcome, NEW t \in Reading,
         NEW asked, Digested(i, o, t, asked)
  PROVE  /\ ParksAreBackedOff'
         /\ \A j \in Key : \A c \in Cause :
              Struck(j) /\ past[j].park[c] > 0 /\ CauseOf(past'[j].last) = c
                => past'[j].park[c] >= Min2(2 * past[j].park[c], LongestPark[c])
<1> DEFINE cause == CauseOf(o.class)  s == keys[i].disable_strikes
<1>1. /\ past'[i].last = o.class
      /\ cause \in Cause
      /\ \/ /\ keys'[i].disable_strikes = 0 /\ past'[i].park = NoPark
            /\ ~Struck(i)
         \/ /\ keys'[i].disable_strikes = s /\ past'[i].park = past[i].park
            /\ ~Struck(i)
         \/ /\ keys'[i].disable_strikes = s + 1
            /\ past'[i].park = [past[i].park EXCEPT ![cause] = StrikePark(cause, s + 1)]
  BY StrikeIsRecorded DEF ParksInv
<1>2. \A j \in Key \ {i} : past'[j] = past[j] /\ keys'[j] = keys[j]
  BY DEF ParksInv, HistoryInv, TypeOK, PastTypeOK, Digested, RecordAt
<1>3. s \in Nat /\ past[i].park \in [Cause -> Nat]
  BY DEF ParksInv, HistoryInv, TypeOK, PastTypeOK, Past, KeyRecord
<1>4. \A c \in Cause : past[i].park[c] > 0 => s > 0 /\ past[i].park[c] <= StrikePark(c, s)
  BY DEF ParksInv, ParksAreBackedOff
<1> HIDE DEF cause, s
<1>5. \A c \in Cause : StrikePark(c, s + 1) \in Nat
  <2>1. s + 1 \in Nat \ {0}
    BY <1>3
  <2>. QED BY <2>1, BackoffDoubles
<1>6. \A c \in Cause : past'[i].park[c] > 0 =>
         /\ keys'[i].disable_strikes > 0
         /\ past'[i].park[c] <= StrikePark(c, keys'[i].disable_strikes)
  <2> TAKE c \in Cause
  <2>1. CASE past'[i].park = NoPark
    BY <2>1 DEF NoPark
  <2>2. CASE keys'[i].disable_strikes = s /\ past'[i].park = past[i].park
    BY <1>4, <2>2
  <2>3. CASE /\ keys'[i].disable_strikes = s + 1
             /\ past'[i].park = [past[i].park EXCEPT ![cause] = StrikePark(cause, s + 1)]
    <3>1. CASE c = cause
      BY <1>3, <1>5, <2>3, <3>1
    <3>2. CASE c # cause
      <4>1. past'[i].park[c] = past[i].park[c] /\ past[i].park[c] \in Nat
        BY <1>3, <2>3, <3>2
      <4>2. past[i].park[c] > 0 =>
              /\ s > 0 /\ past[i].park[c] <= StrikePark(c, s)
              /\ StrikePark(c, s) \in Nat /\ StrikePark(c, s) <= StrikePark(c, s + 1)
        BY <1>3, <1>4, BackoffDoubles
      <4>. QED BY <1>3, <1>5, <2>3, <4>1, <4>2
    <3>. QED BY <3>1, <3>2
  <2>. QED BY <1>1, <2>1, <2>2, <2>3
<1>7. ParksAreBackedOff'
  BY <1>2, <1>6 DEF ParksInv, ParksAreBackedOff
<1>8. ASSUME NEW j \in Key, NEW c \in Cause, Struck(j), past[j].park[c] > 0,
             CauseOf(past'[j].last) = c
      PROVE  past'[j].park[c] >= Min2(2 * past[j].park[c], LongestPark[c])
  <2>1. j = i
    <3> SUFFICES ASSUME j # i PROVE FALSE
      OBVIOUS
    <3>1. keys[j].disable_strikes \in Nat
      BY DEF ParksInv, HistoryInv, TypeOK, KeyRecord
    <3>. QED BY <1>2, <1>8, <3>1 DEF Struck
  <2>2. c = cause
    BY <1>1, <1>8, <2>1 DEF cause
  <2>3. past'[i].park[c] = StrikePark(c, s + 1)
    BY <1>1, <1>3, <1>8, <2>1, <2>2
  <2>4. /\ s > 0 /\ past[i].park[c] \in Nat /\ past[i].park[c] <= StrikePark(c, s)
        /\ StrikePark(c, s) \in Nat
        /\ StrikePark(c, s + 1) >= Min2(2 * StrikePark(c, s), LongestPark[c])
    BY <1>3, <1>4, <1>8, <2>1, BackoffDoubles
  <2>5. LongestPark[c] \in Nat
    BY CausesType
  <2>. QED BY <1>5, <2>1, <2>3, <2>4, <2>5 DEF Min2
<1>. QED BY <1>7, <1>8

\* Every other step leaves the strikes and the parks of all keys alone.
LEMMA ParksOtherStep ==
  ASSUME ParksInv,
         \/ \E i \in Key, exclude \in SUBSET Key : Use(exclude, i)
         \/ /\ UNCHANGED past
            /\ \/ \E exclude \in SUBSET Key : Refuse(exclude)
               \/ \E i \in Key : Abandon(i)
               \/ Snapshot
               \/ Tick
               \/ UNCHANGED vars
  PROVE  \A j \in Key : /\ keys'[j].disable_strikes = keys[j].disable_strikes
                        /\ past'[j].park = past[j].park
<1>1. ASSUME NEW exclude \in SUBSET Key, NEW j \in Key
      PROVE  /\ Examined(exclude, now) \in [Key -> KeyRecord]
             /\ Examined(exclude, now)[j].disable_strikes = keys[j].disable_strikes
  BY ExaminedType, LookKeepsCounters
     DEF ParksInv, HistoryInv, TypeOK, Examined, Refreshed
<1>2. ASSUME NEW i \in Key, NEW exclude \in SUBSET Key, Use(exclude, i), NEW j \in Key
      PROVE  /\ keys'[j].disable_strikes = keys[j].disable_strikes
             /\ past'[j].park = past[j].park
  <2>1. keys'[j].disable_strikes = keys[j].disable_strikes
    BY <1>1, <1>2 DEF Use, Lease, KeyRecord
  <2>2. past'[j].park = past[j].park
    BY <1>2 DEF Use, ParksInv, HistoryInv, PastTypeOK, Past
  <2>. QED BY <2>1, <2>2
<1>3. ASSUME NEW exclude \in SUBSET Key, Refuse(exclude), NEW j \in Key
      PROVE  keys'[j].disable_strikes = keys[j].disable_strikes
  BY <1>1, <1>3 DEF Refuse
<1>4. ASSUME Snapshot, NEW j \in Key
      PROVE  keys'[j].disable_strikes = keys[j].disable_strikes
  BY <1>4, LookKeepsCounters, ReadingType
     DEF ParksInv, HistoryInv, TypeOK, Snapshot, SnapshotAt, Reported
<1>5. ASSUME (\E i \in Key : Abandon(i)) \/ Tick \/ UNCHANGED vars, NEW j \in Key
      PROVE  keys'[j].disable_strikes = keys[j].disable_strikes
  BY <1>5 DEF Abandon, Tick, vars
<1>6. CASE \E i \in Key, exclude \in SUBSET Key : Use(exclude, i)
  BY <1>2, <1>6
<1>7. CASE ~\E i \in Key, exclude \in SUBSET Key : Use(exclude, i)
  <2> TAKE j \in Key
  <2>1. past' = past
    BY <1>7
  <2>2. keys'[j].disable_strikes = keys[j].disable_strikes
    BY <1>3, <1>4, <1>5, <1>7
  <2>. QED BY <2>1, <2>2
<1>. QED BY <1>6, <1>7

LEMMA ParksStep ==
  ParksInv /\ [HistoryNext]_historyVars =>
     /\ ParksInv'
     /\ \A i \in Key : \A c \in Cause :
          Struck(i) /\ past[i].park[c] > 0 /\ CauseOf(past'[i].last) = c
            => past'[i].park[c] >= Min2(2 * past[i].park[c], LongestPark[c])
<1> DEFINE Grows == \A i \in Key : \A c \in Cause :
             Struck(i) /\ past[i].park[c] > 0 /\ CauseOf(past'[i].last) = c
               => past'[i].park[c] >= Min2(2 * past[i].park[c], LongestPark[c])
           Other == \/ \E i \in Key, exclude \in SUBSET Key : Use(exclude, i)
                    \/ /\ UNCHANGED past
                       /\ \/ \E exclude \in SUBSET Key : Refuse(exclude)
                          \/ \E i \in Key : Abandon(i)
                          \/ Snapshot
                          \/ Tick
                          \/ UNCHANGED vars
<1> SUFFICES ASSUME ParksInv, [HistoryNext]_historyVars
             PROVE  ParksInv' /\ Grows
  OBVIOUS
<1>1. HistoryInv'
  BY HistoryStep DEF ParksInv
<1>2. ASSUME NEW i \in Key, NEW o \in Outcome, NEW t \in Reading, NEW asked,
             Digested(i, o, t, asked)
      PROVE  ParksAreBackedOff' /\ Grows
  BY <1>2, ParksDigestedStep
<1>3. ASSUME NEW i \in Key, NEW r \in Responses, Receive(i, r)
      PROVE  ParksAreBackedOff' /\ Grows
  <2> HIDE DEF Grows
  <2>. QED BY <1>2, <1>3, ResponseIsOutcome DEF Receive
<1>4. ASSUME NEW i \in Key, ReceiveNothing(i)
      PROVE  ParksAreBackedOff' /\ Grows
  <2> HIDE DEF Grows
  <2>. QED BY <1>2, <1>4, TransportErrorIsOutcome DEF ReceiveNothing
<1>5. ASSUME Other
      PROVE  ParksAreBackedOff' /\ Grows
  <2>1. \A j \in Key : /\ keys'[j].disable_strikes = keys[j].disable_strikes
                       /\ past'[j].park = past[j].park
                       /\ keys[j].disable_strikes \in Nat
    BY <1>5, ParksOtherStep DEF ParksInv, HistoryInv, TypeOK, KeyRecord
  <2>2. ParksAreBackedOff'
    BY <2>1 DEF ParksInv, ParksAreBackedOff
  <2>3. \A j \in Key : ~Struck(j)
    BY <2>1 DEF Struck
  <2>. QED BY <2>2, <2>3
<1>6. \/ Other
      \/ \E i \in Key : (\E r \in Responses : Receive(i, r)) \/ ReceiveNothing(i)
  <2>1. CASE UNCHANGED historyVars
    BY <2>1 DEF historyVars, vars
  <2>2. CASE HistoryNext
    BY <2>2 DEF HistoryNext
  <2>. QED BY <2>1, <2>2
<1> HIDE DEF Grows, Other
<1>. QED BY <1>1, <1>3, <1>4, <1>5, <1>6 DEF ParksInv

\* However the results of requests with a key overlap, and whatever parks of
\* other causes come between, a key that is parked for the same cause again,
\* without a success in between, is parked at least twice as long, up to the
\* longest back-off of that cause.
THEOREM ParksAlwaysGrow == HistorySpec => ParksGrow
<1>1. HistoryInit => ParksInv
  <2>1. HistoryInit => ParksAreBackedOff
    BY DEF HistoryInit, ParksAreBackedOff, NoPark
  <2>. QED BY <2>1, HistoryStarts DEF ParksInv
<1>2. ParksInv /\ [HistoryNext]_historyVars =>
        [\A i \in Key : \A c \in Cause :
           Struck(i) /\ past[i].park[c] > 0 /\ CauseOf(past'[i].last) = c
             => past'[i].park[c] >= Min2(2 * past[i].park[c], LongestPark[c])]_historyVars
  BY ParksStep
<1>3. ParksInv /\ [HistoryNext]_historyVars => ParksInv'
  BY ParksStep
<1>. QED BY <1>1, <1>2, <1>3, PTL DEF HistorySpec, ParksGrow
=============================================================================
