----------------------------- MODULE PoolProofs ------------------------------
(***************************************************************************)
(* Theorems about the pool, for any number of keys, any rate limits, caps  *)
(* and results, and any length of time: its type invariant, that a parked  *)
(* key with nothing in flight stays parked, and that what a refusal tells  *)
(* the caller is exact.                                                    *)
(*                                                                         *)
(* The first half is about one key: each operation returns a key's record, *)
(* the ones that forget sends forget only expired ones, and a look at a    *)
(* key (refresh, then availability) can be repeated or left out without a  *)
(* later look being any different.                                         *)
(***************************************************************************)
EXTENDS Pool, TLAPS, WellFoundedInduction, SequenceTheorems

USE RateLimitAssumption, KeyStateAssumption

\* FiniteSetsExt!Min is what its name says, on any set of naturals.
LEMMA MinOfNats ==
  ASSUME NEW S, S \subseteq Nat, S # {}
  PROVE  /\ Min(S) \in S
         /\ \A y \in S : Min(S) <= y
<1> DEFINE R == {ss \in Nat \X Nat : ss[1] < ss[2]}
<1>1. R = OpToRel(<, Nat)
  BY Zenon DEF OpToRel
<1>2. IsWellFoundedOn(R, Nat)
  BY <1>1, NatLessThanWellFounded, Zenon
<1>3. PICK x \in S : \A y \in S : ~ (<<y, x>> \in R)
  <2> HIDE DEF R
  <2> QED BY <1>2, WFMin, Zenon
<1>4. \A y \in S : ~ (y < x)
  BY <1>3
<1>5. \E m \in S : \A y \in S : m <= y
  BY <1>4
<1>. QED BY <1>5, Zenon DEF Min

\* A second is WINDOW ticks, so a number of seconds is a number of ticks.
LEMMA SecsType ==
  ASSUME NEW n \in Nat
  PROVE  Secs(n) \in Nat
BY DEF Secs

LEMMA SecondWaitType ==
  ASSUME NEW rl \in RateLimitInfo
  PROVE  SecondWait(rl) \in Nat
<1>1. rl.reset.second \in OptNat /\ rl.retry_after \in OptNat
  BY DEF RateLimitInfo, Windows
<1>. DEFINE reset == IF rl.reset.second = Absent THEN 1 ELSE rl.reset.second
            n == Min2(SECOND_WAIT_MAX, Max2(1, Max2(reset, rl.retry_after)))
<1>2. n \in Nat
  BY <1>1 DEF OptNat, Absent, Min2, Max2
<1>. QED BY <1>2, SecsType, Zenon DEF SecondWait

LEMMA FromHeadersType ==
  ASSUME NEW h \in Headers
  PROVE  FromHeaders(h) \in RateLimitInfo
<1>1. \A v \in Header : ParseWindows(v) \in Windows
  BY DEF Header, ParseWindows, Windows, OptNat
<1>2. NoInfo \in RateLimitInfo
  <2>1. <<>> \in Header
    BY DEF Header
  <2>. QED BY <1>1, <2>1 DEF NoInfo, RateLimitInfo, OptNat
<1>. QED BY <1>1, <1>2 DEF FromHeaders, RateLimitInfo, Headers

LEMMA TransportErrorIsOutcome == TransportError \in Outcome
<1>1. <<>> \in Header
  BY DEF Header
<1>2. NoInfo \in RateLimitInfo
  BY <1>1 DEF NoInfo, RateLimitInfo, OptNat, ParseWindows, Windows
<1>. QED BY <1>2 DEF TransportError, Outcome, Class

LEMMA MonthResetType ==
  ASSUME NEW rl \in RateLimitInfo
  PROVE  MonthReset(rl) \in OptNat
<1>1. rl.reset.month \in OptNat
  BY DEF RateLimitInfo, Windows
<1>. QED BY <1>1, SecsType DEF MonthReset, OptNat, Absent

LEMMA BackoffType ==
  ASSUME NEW strikes \in Nat \ {0}, NEW base \in Nat, NEW max \in Nat
  PROVE  Backoff(strikes, base, max) \in Nat
<1>1. Min2(strikes, 17) \in 1..17
  BY DEF Min2
<1>2. ShiftOne[Min2(strikes, 17)] \in Nat
  BY <1>1 DEF ShiftOne
<1>. QED BY <1>2 DEF Backoff, Min2

-----------------------------------------------------------------------------
(* The sliding window.                                                     *)

\* Pruning drops a prefix of the sends, all of it expired, and nothing else.
LEMMA PruneDropsExpiredPrefix ==
  ASSUME NEW sends \in Seq(Instant), NEW t \in Instant
  PROVE  LET pruned == PruneWindow(sends, t)
             dropped == Len(sends) - Len(pruned)
         IN  /\ pruned \in Seq(Instant)
             /\ dropped \in 0..Len(sends)
             /\ \A n \in 1..Len(pruned) : pruned[n] = sends[dropped + n]
             /\ \A n \in 1..dropped : Expired(sends[n], t)
<1> DEFINE fresh == {i \in 1..Len(sends) : ~Expired(sends[i], t)}
<1>1. CASE fresh = {}
  <2>1. PruneWindow(sends, t) = <<>>
    BY <1>1 DEF PruneWindow
  <2>2. \A n \in 1..Len(sends) : Expired(sends[n], t)
    BY <1>1
  <2>. QED BY <2>1, <2>2
<1>2. CASE fresh # {}
  <2> DEFINE m == Min(fresh)
             pruned == SubSeq(sends, m, Len(sends))
  <2>1. PruneWindow(sends, t) = pruned
    BY <1>2 DEF PruneWindow
  <2>2. m \in fresh /\ \A i \in fresh : m <= i
    <3>1. fresh \subseteq Nat
      OBVIOUS
    <3> HIDE DEF fresh
    <3>. QED BY <1>2, <3>1, MinOfNats
  <2>3. m \in 1..Len(sends) /\ \A n \in 1..(m - 1) : Expired(sends[n], t)
    <3> HIDE DEF m
    <3>. QED BY <2>2
  <2>4. /\ pruned \in Seq(Instant)
        /\ Len(pruned) = Len(sends) - m + 1
        /\ \A n \in 1..(Len(sends) - m + 1) : pruned[n] = sends[m + n - 1]
    <3> HIDE DEF m
    <3>1. /\ m \in Int /\ Len(sends) \in Int /\ m <= Len(sends)
          /\ \A i \in m..Len(sends) : sends[i] \in Instant
      BY <2>3
    <3>2. /\ pruned \in Seq(Instant)
          /\ Len(pruned) = IF m <= Len(sends) THEN Len(sends) - m + 1 ELSE 0
          /\ \A n \in 1..(Len(sends) - m + 1) : pruned[n] = sends[m + n - 1]
      BY <3>1, SubSeqProperties
    <3> HIDE DEF pruned
    <3>. QED BY <3>1, <3>2
  <2> HIDE DEF m, pruned
  <2>. QED BY <2>1, <2>3, <2>4
<1>. QED BY <1>1, <1>2

-----------------------------------------------------------------------------
(* Every operation returns a key's record.                                 *)

LEMMA NewKeyType ==
  ASSUME NEW cap \in OptNat
  PROVE  NewKey(cap) \in KeyRecord
BY DEF NewKey, KeyRecord, Health, RateLimits, OptNat, Absent, OptInstant,
       NoInstant, Instant, Max2

LEMMA RefreshType ==
  ASSUME NEW k \in KeyRecord, NEW t \in Instant
  PROVE  Refresh(k, t) \in KeyRecord
BY DEF Refresh, KeyRecord, Health, OptNat, Absent, OptInstant, NoInstant

LEMMA SettleType ==
  ASSUME NEW k \in KeyRecord, NEW t \in Instant
  PROVE  Settle(k, t) \in KeyRecord
<1>1. k.sends \in Seq(Instant)
  BY DEF KeyRecord
<1>2. PruneWindow(k.sends, t) \in Seq(Instant)
  BY <1>1, PruneDropsExpiredPrefix
<1>. QED BY <1>2 DEF Settle, KeyRecord, OptInstant, NoInstant

LEMMA LearnLimitsType ==
  ASSUME NEW k \in KeyRecord, NEW t \in Instant, NEW rl \in RateLimitInfo
  PROVE  LearnLimits(k, t, rl) \in KeyRecord
<1>1. /\ rl.limit.second \in OptNat /\ rl.limit.month \in OptNat
      /\ rl.remaining.month \in OptNat /\ rl.reset.month \in OptNat
  BY DEF RateLimitInfo, Windows
<1>2. rl.limit.second > 0 => Min2(rl.limit.second, MAX_LEARNED_RPS) \in RateLimits
  BY <1>1 DEF RateLimits, Min2, Max2, OptNat, Absent
<1>3. rl.reset.month # Absent => t + MonthReset(rl) \in OptInstant
  <2>1. rl.reset.month # Absent => Secs(rl.reset.month) \in Nat
    BY <1>1, SecsType DEF OptNat
  <2>. QED BY <2>1 DEF MonthReset, OptInstant, Instant, NoInstant
<1>. QED BY <1>1, <1>2, <1>3 DEF LearnLimits, KeyRecord

LEMMA DisableType ==
  ASSUME NEW k \in KeyRecord, NEW t \in Instant,
         NEW base \in Nat, NEW max \in Nat
  PROVE  Disable(k, t, base, max) \in KeyRecord
<1>1. k.disable_strikes + 1 \in Nat \ {0}
  BY DEF KeyRecord
<1>2. t + Backoff(k.disable_strikes + 1, base, max) \in OptInstant
  <2>1. Backoff(k.disable_strikes + 1, base, max) \in Nat
    BY <1>1, BackoffType, Zenon
  <2>. QED BY <2>1 DEF OptInstant, Instant
<1>. QED BY <1>1, <1>2 DEF Disable, KeyRecord, Health

LEMMA ExhaustType ==
  ASSUME NEW k \in KeyRecord, NEW t \in Instant, NEW reset_in \in OptNat
  PROVE  Exhaust(k, t, reset_in) \in KeyRecord
<1> DEFINE until == t + (IF reset_in = Absent THEN EXHAUSTED_FALLBACK ELSE reset_in)
<1>1. until \in OptInstant
  BY DEF OptNat, Absent, OptInstant, Instant
<1>2. 0 \in OptNat
  BY DEF OptNat
<1>3. Exhaust(k, t, reset_in) = [k EXCEPT !.month_remaining = 0,
                                          !.month_reset_at = until,
                                          !.health = "Exhausted", !.until = until]
  BY DEF Exhaust
<1> HIDE DEF until
<1>. QED BY <1>1, <1>2, <1>3 DEF KeyRecord, Health

LEMMA FailType ==
  ASSUME NEW k \in KeyRecord, NEW t \in Instant
  PROVE  Fail(k, t) \in KeyRecord
<1> DEFINE failed == [k EXCEPT !.consecutive_failures = @ + 1]
<1>1. failed \in KeyRecord
  <2>1. k.consecutive_failures + 1 \in Nat
    BY DEF KeyRecord
  <2>. QED BY <2>1 DEF KeyRecord
<1>2. Disable(failed, t, FAIL_BACKOFF_BASE, FAIL_BACKOFF_MAX) \in KeyRecord
  BY <1>1, DisableType
<1>. QED BY <1>1, <1>2, Zenon DEF Fail

LEMMA SucceedType ==
  ASSUME NEW k \in KeyRecord, NEW t \in Instant, NEW rl \in RateLimitInfo
  PROVE  Succeed(k, t, rl) \in KeyRecord
<1> DEFINE served == [k EXCEPT !.ok = @ + 1, !.consecutive_failures = 0,
                               !.consecutive_429 = 0, !.disable_strikes = 0]
           cap_reset == IF MonthReset(rl) = Absent
                        THEN OVERRIDE_CAP_FALLBACK ELSE MonthReset(rl)
<1>1. served \in KeyRecord
  <2>1. k.ok + 1 \in Nat
    BY DEF KeyRecord
  <2>. QED BY <2>1 DEF KeyRecord
<1>2. MonthReset(rl) \in OptNat /\ cap_reset \in OptNat
  BY MonthResetType DEF OptNat
<1>3. /\ Exhaust(served, t, MonthReset(rl)) \in KeyRecord
      /\ Exhaust(served, t, cap_reset) \in KeyRecord
  <2> HIDE DEF served, cap_reset
  <2>. QED BY <1>1, <1>2, ExhaustType
<1>. QED BY <1>1, <1>3, Zenon DEF Succeed

LEMMA TooManyRequestsType ==
  ASSUME NEW k \in KeyRecord, NEW t \in Instant, NEW rl \in RateLimitInfo
  PROVE  TooManyRequests(k, t, rl) \in KeyRecord
<1> DEFINE counted == [k EXCEPT !.consecutive_429 = @ + 1]
           held    == [counted EXCEPT !.hold_until = t + Secs(2)]
           told    == [counted EXCEPT !.hold_until = t + SecondWait(rl)]
<1>1. counted \in KeyRecord
  <2>1. k.consecutive_429 + 1 \in Nat
    BY DEF KeyRecord
  <2>. QED BY <2>1 DEF KeyRecord
<1>2. held \in KeyRecord /\ told \in KeyRecord
  <2>1. Secs(2) \in Nat /\ SecondWait(rl) \in Nat
    BY SecsType, SecondWaitType
  <2>2. t + Secs(2) \in OptInstant /\ t + SecondWait(rl) \in OptInstant
    BY <2>1 DEF OptInstant, Instant
  <2> HIDE DEF counted
  <2>. QED BY <1>1, <2>2 DEF KeyRecord
<1>4. Exhaust(counted, t, MonthReset(rl)) \in KeyRecord
  BY <1>1, MonthResetType, ExhaustType
<1>5. Disable(held, t, UNEXPLAINED_429_BACKOFF, UNEXPLAINED_429_BACKOFF) \in KeyRecord
  BY <1>2, DisableType
<1>. QED BY <1>2, <1>4, <1>5, Zenon DEF TooManyRequests

LEMMA DigestType ==
  ASSUME NEW k \in KeyRecord, NEW t \in Instant, NEW o \in Outcome
  PROVE  Digest(k, t, o) \in KeyRecord
<1> DEFINE learned == LearnLimits(k, t, o.rl)
<1>1. o.rl \in RateLimitInfo
  BY DEF Outcome
<1>2. learned \in KeyRecord
  BY <1>1, LearnLimitsType
<1>3. /\ Succeed(learned, t, o.rl) \in KeyRecord
      /\ TooManyRequests(learned, t, o.rl) \in KeyRecord
      /\ Disable(learned, t, AUTH_BACKOFF_BASE, AUTH_BACKOFF_MAX) \in KeyRecord
      /\ Fail(learned, t) \in KeyRecord
  <2> HIDE DEF learned
  <2>. QED BY <1>1, <1>2, SucceedType, TooManyRequestsType, DisableType, FailType
<1>. QED BY <1>2, <1>3, Zenon DEF Digest

-----------------------------------------------------------------------------
(* A result changes nothing about the sends of the key; time and the       *)
(* selection only drop the expired ones.                                   *)

LEMMA RefreshKeepsSends ==
  ASSUME NEW k \in KeyRecord, NEW t
  PROVE  Refresh(k, t).sends = k.sends /\ Refresh(k, t).sec_limit = k.sec_limit
BY DEF Refresh, KeyRecord

LEMMA SettlePrunes ==
  ASSUME NEW k \in KeyRecord, NEW t
  PROVE  /\ Settle(k, t).sec_limit = k.sec_limit
         /\ \/ Settle(k, t).sends = k.sends
            \/ Settle(k, t).sends = PruneWindow(k.sends, t)
BY DEF Settle, KeyRecord

LEMMA DigestKeepsSends ==
  ASSUME NEW k \in KeyRecord, NEW t, NEW o
  PROVE  Digest(k, t, o).sends = k.sends
<1> DEFINE learned == LearnLimits(k, t, o.rl)
<1> USE DEF KeyRecord
<1>1. learned.sends = k.sends
  BY DEF LearnLimits
<1>. QED BY <1>1 DEF Digest, Succeed, TooManyRequests, Disable, Fail, Exhaust

-----------------------------------------------------------------------------
(* Pruning at two instants, t and then u.                                  *)

LEMMA WindowType == Window \in Nat
BY DEF Window

\* What has expired at one instant has expired at every later one.
LEMMA ExpiredStays ==
  ASSUME NEW s \in Instant, NEW t \in Instant, NEW u \in Instant, t <= u,
         Expired(s, t)
  PROVE  Expired(s, u)
BY WindowType DEF Expired, Instant

\* What is left after pruning begins with the first send that is fresh.
LEMMA PruneFromFirstFresh ==
  ASSUME NEW sends \in Seq(Instant), NEW t \in Instant,
         NEW m \in 1..Len(sends), ~Expired(sends[m], t),
         \A n \in 1..(m - 1) : Expired(sends[n], t)
  PROVE  PruneWindow(sends, t) = SubSeq(sends, m, Len(sends))
<1> DEFINE fresh == {i \in 1..Len(sends) : ~Expired(sends[i], t)}
<1>1. m \in fresh /\ fresh \subseteq Nat
  OBVIOUS
<1>2. ASSUME NEW i \in fresh PROVE m <= i
  <2>1. SUFFICES ASSUME i \in 1..(m - 1) PROVE FALSE
    OBVIOUS
  <2>. QED BY <2>1
<1>3. Min(fresh) = m
  <2> DEFINE least == Min(fresh)
  <2> HIDE DEF fresh
  <2>1. least \in fresh /\ least <= m
    BY <1>1, MinOfNats
  <2>2. m <= least /\ least \in Nat /\ m \in Nat
    BY <1>1, <1>2, <2>1
  <2> HIDE DEF least
  <2>3. least = m
    BY <2>1, <2>2
  <2>. QED BY <2>3 DEF least
<1>. QED BY <1>1, <1>3 DEF PruneWindow

LEMMA PruneCases ==
  ASSUME NEW sends \in Seq(Instant), NEW t \in Instant
  PROVE  \/ /\ \A n \in 1..Len(sends) : Expired(sends[n], t)
            /\ PruneWindow(sends, t) = <<>>
         \/ \E m \in 1..Len(sends) :
              /\ ~Expired(sends[m], t)
              /\ \A n \in 1..(m - 1) : Expired(sends[n], t)
              /\ PruneWindow(sends, t) = SubSeq(sends, m, Len(sends))
<1> DEFINE fresh == {i \in 1..Len(sends) : ~Expired(sends[i], t)}
<1>1. CASE fresh = {}
  BY <1>1 DEF PruneWindow
<1>2. CASE fresh # {}
  <2>1. PICK m \in fresh : \A i \in fresh : m <= i
    <3>1. fresh \subseteq Nat
      OBVIOUS
    <3> HIDE DEF fresh
    <3>. QED BY <1>2, <3>1, MinOfNats
  <2>2. m \in 1..Len(sends) /\ ~Expired(sends[m], t)
    BY <2>1
  <2>3. ASSUME NEW n \in 1..(m - 1) PROVE Expired(sends[n], t)
    <3>1. n \in 1..Len(sends) /\ ~(m <= n)
      BY <2>2
    <3>2. n \notin fresh
      <4> HIDE DEF fresh
      <4>. QED BY <2>1, <3>1
    <3>. QED BY <3>1, <3>2
  <2>. QED BY <2>2, <2>3, PruneFromFirstFresh
<1>. QED BY <1>1, <1>2

\* Pruning once more, later, is pruning later.
LEMMA PruneTwice ==
  ASSUME NEW sends \in Seq(Instant), NEW t \in Instant, NEW u \in Instant,
         t <= u
  PROVE  PruneWindow(PruneWindow(sends, t), u) = PruneWindow(sends, u)
<1> DEFINE L == Len(sends)
<1>0. L \in Nat /\ \A n \in 1..L : sends[n] \in Instant
  OBVIOUS
<1>1. \A n \in 1..L : Expired(sends[n], t) => Expired(sends[n], u)
  BY <1>0, ExpiredStays
<1>2. ASSUME NEW s \in Seq(Instant), \A n \in 1..Len(s) : Expired(s[n], u)
      PROVE  PruneWindow(s, u) = <<>>
  BY <1>2, PruneCases
<1>3. CASE /\ \A n \in 1..L : Expired(sends[n], t)
           /\ PruneWindow(sends, t) = <<>>
  <2>1. PruneWindow(sends, u) = <<>>
    BY <1>1, <1>2, <1>3
  <2>2. <<>> \in Seq(Instant) /\ \A n \in 1..Len(<<>>) : Expired(<<>>[n], u)
    OBVIOUS
  <2>3. PruneWindow(<<>>, u) = <<>>
    BY <1>2, <2>2
  <2>. QED BY <1>3, <2>1, <2>3
<1>4. ASSUME NEW m \in 1..L, ~Expired(sends[m], t),
             \A n \in 1..(m - 1) : Expired(sends[n], t),
             PruneWindow(sends, t) = SubSeq(sends, m, L)
      PROVE  PruneWindow(PruneWindow(sends, t), u) = PruneWindow(sends, u)
  <2> DEFINE p == SubSeq(sends, m, L)
  <2>1. /\ p \in Seq(Instant) /\ Len(p) = L - m + 1
        /\ \A n \in 1..(L - m + 1) : p[n] = sends[m + n - 1]
    <3>1. /\ m \in Int /\ L \in Int /\ m <= L
          /\ \A i \in m..L : sends[i] \in Instant
      BY <1>0
    <3> HIDE DEF L
    <3>2. p \in Seq(Instant)
      BY <3>1, SubSeqProperties
    <3>3. Len(p) = IF m <= L THEN L - m + 1 ELSE 0
      BY <3>1, SubSeqProperties
    <3>4. \A i \in 1..(L - m + 1) : p[i] = sends[m + i - 1]
      BY <3>1, SubSeqProperties
    <3> HIDE DEF p
    <3>. QED BY <3>1, <3>2, <3>3, <3>4
  <2>0. p = PruneWindow(sends, t)
    BY <1>4
  <2> HIDE DEF p
  <2>2. CASE \A n \in 1..L : Expired(sends[n], u)
    <3>1. ASSUME NEW n \in 1..Len(p) PROVE Expired(p[n], u)
      <4> HIDE DEF L
      <4>1. n \in 1..(L - m + 1) /\ m + n - 1 \in 1..L
        BY <1>0, <2>1
      <4>. QED BY <2>1, <2>2, <4>1
    <3>2. PruneWindow(p, u) = <<>> /\ PruneWindow(sends, u) = <<>>
      BY <1>2, <2>1, <2>2, <3>1
    <3>. QED BY <2>0, <3>2
  <2>3. ASSUME NEW f \in 1..L, ~Expired(sends[f], u),
               \A n \in 1..(f - 1) : Expired(sends[n], u)
        PROVE  PruneWindow(p, u) = PruneWindow(sends, u)
    <3>1. f >= m
      <4>1. SUFFICES ASSUME f \in 1..(m - 1) PROVE FALSE
        BY <1>0
      <4>. QED BY <1>0, <1>1, <1>4, <2>3, <4>1
    <3> DEFINE g == f - m + 1
    <3>2. g \in 1..(L - m + 1) /\ m + g - 1 = f
      <4> HIDE DEF L
      <4>. QED BY <1>0, <3>1
    <3>3. g \in 1..Len(p) /\ p[g] = sends[f]
      <4> HIDE DEF g
      <4>. QED BY <2>1, <3>2
    <3>4. ASSUME NEW n \in 1..(g - 1) PROVE Expired(p[n], u)
      <4> HIDE DEF L, g
      <4>1. n \in 1..(L - m + 1) /\ m + n - 1 \in 1..(f - 1)
        BY <1>0, <3>1, <3>2
      <4>. QED BY <2>1, <2>3, <4>1
    <3>5. PruneWindow(p, u) = SubSeq(p, g, Len(p))
      <4> HIDE DEF g
      <4>. QED BY <2>1, <2>3, <3>3, <3>4, PruneFromFirstFresh
    <3>6. PruneWindow(sends, u) = SubSeq(sends, f, L)
      BY <2>3, PruneFromFirstFresh
    <3>7. SubSeq(p, g, Len(p)) = SubSeq(sends, f, L)
      <4> DEFINE a == SubSeq(p, g, Len(p))
                 b == SubSeq(sends, f, L)
      <4>1. /\ a \in Seq(Instant) /\ Len(a) = L - f + 1
            /\ \A n \in 1..(L - f + 1) : a[n] = p[g + n - 1]
        <5>1. /\ g \in 1..(Len(p) + 1) /\ Len(p) \in g..Len(p)
              /\ \A i \in g..Len(p) : p[i] \in Instant
              /\ Len(p) - g + 1 = L - f + 1
          <6>1. Len(p) \in Nat /\ \A i \in 1..Len(p) : p[i] \in Instant
            <7>1. p \in Seq(Instant)
              BY <2>1
            <7> HIDE DEF L, g
            <7>. QED BY <7>1
          <6> HIDE DEF L, g
          <6>. QED BY <1>0, <2>1, <3>2, <6>1
        <5>2. /\ a \in Seq(Instant) /\ Len(a) = Len(p) - g + 1
              /\ \A n \in 1..(Len(p) - g + 1) : a[n] = p[g + n - 1]
          <6> HIDE DEF g
          <6>. QED BY <2>1, <5>1, SubSeqProperties
        <5>. QED BY <5>1, <5>2, Zenon
      <4>2. /\ b \in Seq(Instant) /\ Len(b) = L - f + 1
            /\ \A n \in 1..(L - f + 1) : b[n] = sends[f + n - 1]
        BY <1>0, SubSeqProperties
      <4>3. \A n \in 1..(L - f + 1) : p[g + n - 1] = sends[f + n - 1]
        <5> SUFFICES ASSUME NEW n \in 1..(L - f + 1)
                     PROVE  p[g + n - 1] = sends[f + n - 1]
          OBVIOUS
        <5> HIDE DEF L, g
        <5>1. /\ g + n - 1 \in 1..(L - m + 1)
              /\ m + (g + n - 1) - 1 = f + n - 1
          BY <1>0, <3>1, <3>2
        <5>. QED BY <2>1, <5>1
      <4> HIDE DEF a, b, g
      <4>4. a = b
        BY <4>1, <4>2, <4>3, SeqEqual
      <4>. QED BY <4>4 DEF a, b, g
    <3>. QED BY <3>5, <3>6, <3>7
  <2>4. \/ \A n \in 1..L : Expired(sends[n], u)
        \/ \E f \in 1..L : /\ ~Expired(sends[f], u)
                           /\ \A n \in 1..(f - 1) : Expired(sends[n], u)
    BY PruneCases
  <2>. QED BY <2>0, <2>2, <2>3, <2>4
<1>. QED BY <1>3, <1>4, PruneCases

\* What pruning leaves when its oldest send is still inside the window later:
\* the same as pruning then.
LEMMA PruneUnchanged ==
  ASSUME NEW sends \in Seq(Instant), NEW t \in Instant, NEW u \in Instant,
         t <= u, PruneWindow(sends, t) # <<>>,
         ~Expired(PruneWindow(sends, t)[1], u)
  PROVE  PruneWindow(sends, u) = PruneWindow(sends, t)
<1>1. PICK m \in 1..Len(sends) :
         /\ ~Expired(sends[m], t)
         /\ \A n \in 1..(m - 1) : Expired(sends[n], t)
         /\ PruneWindow(sends, t) = SubSeq(sends, m, Len(sends))
  BY PruneCases
<1>2. Len(sends) \in Nat /\ \A n \in 1..Len(sends) : sends[n] \in Instant
  OBVIOUS
<1>3. SubSeq(sends, m, Len(sends))[1] = sends[m]
  <2>1. 1 \in 1..(Len(sends) - m + 1) /\ m + 1 - 1 = m
    BY <1>2
  <2>. QED BY <1>2, <2>1, SubSeqProperties
<1>4. ~Expired(sends[m], u)
  BY <1>1, <1>3
<1>5. ASSUME NEW n \in 1..(m - 1) PROVE Expired(sends[n], u)
  <2>1. n \in 1..Len(sends) /\ Expired(sends[n], t)
    BY <1>1, <1>2
  <2>. QED BY <1>2, <2>1, ExpiredStays
<1>. QED BY <1>1, <1>4, <1>5, PruneFromFirstFresh

\* The fields of a key's record that the choice of a key depends on.
LEMMA FieldTypes ==
  ASSUME NEW k \in KeyRecord
  PROVE  /\ k.until \in Nat /\ k.hold_until \in Nat
         /\ k.sends \in Seq(Instant) /\ k.sec_limit \in Nat \ {0}
<1>1. RateLimits \subseteq Nat \ {0}
  BY DEF RateLimits
<1>. QED BY <1>1 DEF KeyRecord, OptInstant

-----------------------------------------------------------------------------
(* A look at a key, as the selection and the reports take it.              *)

Look(k, t) == Settle(Refresh(k, t), t)

LEMMA LookType ==
  ASSUME NEW k \in KeyRecord, NEW t \in Instant
  PROVE  Look(k, t) \in KeyRecord
BY RefreshType, SettleType DEF Look

LEMMA HealthyIsRefreshed ==
  ASSUME NEW k, k.health = "Ok", NEW t
  PROVE  Refresh(k, t) = k
BY DEF Refresh

LEMMA RefreshTwice ==
  ASSUME NEW k \in KeyRecord, NEW t \in Instant, NEW u \in Instant, t <= u
  PROVE  Refresh(Refresh(k, t), u) = Refresh(k, u)
<1>1. k.until \in Nat /\ t \in Nat /\ u \in Nat
  BY DEF KeyRecord, Instant, OptInstant
<1>2. CASE k.health # "Ok" /\ k.until <= t
  <2>1. k.until <= u
    BY <1>1, <1>2
  <2>2. Refresh(k, t) = Refresh(k, u)
    BY <1>2, <2>1 DEF Refresh
  <2>3. Refresh(k, t).health = "Ok"
    BY <1>2 DEF Refresh, KeyRecord, Health
  <2>. QED BY <2>2, <2>3, HealthyIsRefreshed
<1>3. CASE ~(k.health # "Ok" /\ k.until <= t)
  BY <1>3 DEF Refresh
<1>. QED BY <1>2, <1>3

LEMMA SettleTwice ==
  ASSUME NEW k \in KeyRecord, NEW t \in Instant, NEW u \in Instant, t <= u
  PROVE  Settle(Settle(k, t), u) = Settle(k, u)
<1>1. CASE k.health # "Ok" \/ k.hold_until > t
  BY <1>1 DEF Settle
<1>2. CASE k.health = "Ok" /\ ~(k.hold_until > t)
  <2> DEFINE s == PruneWindow(k.sends, t)
             k2 == [k EXCEPT !.hold_until = NoInstant, !.sends = s]
  <2>1. Settle(k, t) = k2
    BY <1>2 DEF Settle
  <2>2. PruneWindow(s, u) = PruneWindow(k.sends, u)
    BY PruneTwice DEF KeyRecord
  <2>3. ~(k.hold_until > u) /\ ~(NoInstant > u)
    <3>1. k.hold_until \in Nat /\ t \in Nat /\ u \in Nat /\ NoInstant = 0
      BY DEF KeyRecord, Instant, OptInstant, NoInstant
    <3>. QED BY <1>2, <3>1
  <2>4. Settle(k, u) = [k EXCEPT !.hold_until = NoInstant,
                                 !.sends = PruneWindow(k.sends, u)]
    BY <1>2, <2>3 DEF Settle
  <2> HIDE DEF s
  <2>5. k2.health = "Ok" /\ k2.hold_until = NoInstant /\ k2.sends = s
    BY <1>2 DEF KeyRecord
  <2>6. Settle(k2, u) = [k2 EXCEPT !.hold_until = NoInstant,
                                   !.sends = PruneWindow(s, u)]
    <3> HIDE DEF k2
    <3>. QED BY <2>3, <2>5 DEF Settle
  <2>7. Settle(k2, u) = [k EXCEPT !.hold_until = NoInstant,
                                  !.sends = PruneWindow(s, u)]
    BY <2>6 DEF KeyRecord
  <2>. QED BY <2>1, <2>2, <2>4, <2>7
<1>. QED BY <1>1, <1>2

\* What refresh does depends on the health alone, which availability keeps.
LEMMA SettleKeepsHealth ==
  ASSUME NEW k \in KeyRecord, NEW t
  PROVE  /\ Settle(k, t).health = k.health
         /\ Settle(k, t).until = k.until
         /\ k.health # "Ok" => Settle(k, t) = k
BY DEF Settle, KeyRecord

\* A look at a key that was refreshed, or looked at, earlier is the look at the
\* key as it was before that.
LEMMA LookTwice ==
  ASSUME NEW k \in KeyRecord, NEW t \in Instant, NEW u \in Instant, t <= u,
         NEW k2 \in {k, Refresh(k, t), Look(k, t)}
  PROVE  /\ Look(k2, u) = Look(k, u)
         /\ Refresh(k2, u).health = Refresh(k, u).health
<1> DEFINE r == Refresh(k, t)
<1>1. r \in KeyRecord /\ Refresh(r, u) = Refresh(k, u)
  BY RefreshType, RefreshTwice
<1>2. Look(r, u) = Look(k, u)
  BY <1>1, Zenon DEF Look
<1> DEFINE l == Settle(r, t)
<1> HIDE DEF r
<1>3. /\ Settle(r, t) \in KeyRecord
      /\ Settle(r, t).health = r.health
      /\ r.health # "Ok" => Settle(r, t) = r
      /\ Settle(Settle(r, t), u) = Settle(r, u)
  BY <1>1, SettleType, SettleKeepsHealth, SettleTwice
<1> HIDE DEF l
<1>4. CASE r.health = "Ok"
  <2>1. Refresh(l, u) = l /\ Refresh(r, u) = r
    BY <1>3, <1>4, HealthyIsRefreshed DEF l
  <2>2. Look(l, u) = Look(r, u)
    BY <1>3, <2>1, Zenon DEF Look, l
  <2>3. Refresh(l, u).health = Refresh(k, u).health
    BY <1>1, <1>3, <2>1, Zenon DEF l
  <2>. QED BY <1>1, <1>2, <2>2, <2>3 DEF Look, l, r
<1>5. CASE r.health # "Ok"
  <2>1. l = r
    BY <1>3, <1>5 DEF l
  <2>. QED BY <1>1, <1>2, <2>1 DEF Look, l, r
<1>. QED BY <1>4, <1>5

\* A key that is available stays so while time passes.
LEMMA AvailableStays ==
  ASSUME NEW k \in KeyRecord, NEW t \in Instant, NEW u \in Instant, t <= u,
         Available(Look(k, t))
  PROVE  Available(Look(k, u))
<1> DEFINE l == Look(k, t)
<1>1. l \in KeyRecord /\ Look(k, u) = Look(l, u)
  BY LookType, LookTwice
<1> HIDE DEF l
<1>2. /\ l.health = "Ok" /\ l.hold_until = NoInstant
      /\ Len(l.sends) < l.sec_limit
      /\ l.sends \in Seq(Instant) /\ l.sec_limit \in Nat
  BY <1>1, FieldTypes DEF Available, l
<1>3. ~(l.hold_until > u)
  BY <1>2 DEF NoInstant, Instant
<1>4. Look(l, u) = [l EXCEPT !.hold_until = NoInstant,
                            !.sends = PruneWindow(l.sends, u)]
  BY <1>2, <1>3, HealthyIsRefreshed DEF Look, Settle
<1>5. Len(PruneWindow(l.sends, u)) \in Nat
      /\ Len(PruneWindow(l.sends, u)) <= Len(l.sends)
  <2>1. /\ PruneWindow(l.sends, u) \in Seq(Instant)
        /\ Len(l.sends) - Len(PruneWindow(l.sends, u)) \in 0..Len(l.sends)
    BY <1>2, PruneDropsExpiredPrefix
  <2>2. Len(PruneWindow(l.sends, u)) \in Nat /\ Len(l.sends) \in Nat
    BY <1>2, <2>1
  <2>. QED BY <2>1, <2>2
<1>6. Len(l.sends) \in Nat
  BY <1>2
<1>7. /\ Look(l, u).health = "Ok" /\ Look(l, u).hold_until = NoInstant
      /\ Look(l, u).sends = PruneWindow(l.sends, u)
      /\ Look(l, u).sec_limit = l.sec_limit
  BY <1>1, <1>2, <1>4 DEF KeyRecord
<1>8. Len(Look(l, u).sends) < Look(l, u).sec_limit
  BY <1>2, <1>5, <1>6, <1>7
<1>. QED BY <1>1, <1>7, <1>8 DEF Available

\* A key that is healthy stays so while time passes.
LEMMA HealthyStays ==
  ASSUME NEW k \in KeyRecord, NEW t \in Instant, NEW u \in Instant, t <= u,
         Refresh(k, t).health = "Ok"
  PROVE  Refresh(k, u).health = "Ok"
BY RefreshTwice, RefreshType, HealthyIsRefreshed

\* What EligibleAt says of a key that is not available is exact: until then the
\* key, if left alone, stays as a look finds it, healthy or parked.
LEMMA WaitingStays ==
  ASSUME NEW k \in KeyRecord, NEW t \in Instant, NEW u \in Instant, t <= u,
         ~Available(Look(k, t)), u < EligibleAt(Look(k, t))
  PROVE  /\ Look(k, u) = Look(k, t)
         /\ Refresh(k, u).health = Refresh(k, t).health
<1> DEFINE r == Refresh(k, t)
           l == Look(k, t)
<1>1. r \in KeyRecord /\ l \in KeyRecord /\ Refresh(k, u) = Refresh(r, u)
  BY RefreshType, LookType, RefreshTwice
<1>2. l = Settle(r, t)
  BY DEF Look
<1>3. Look(k, u) = Settle(Refresh(r, u), u)
  BY <1>1 DEF Look
<1> HIDE DEF r, l
<1>4. /\ r.until \in Nat /\ r.hold_until \in Nat /\ r.sends \in Seq(Instant)
      /\ r.sec_limit \in Nat \ {0} /\ t \in Nat /\ u \in Nat
  BY <1>1, FieldTypes DEF Instant
<1>5. CASE r.health # "Ok"
  <2>1. l = r
    BY <1>1, <1>2, <1>5, SettleKeepsHealth
  <2>2. u < r.until
    BY <1>5, <2>1 DEF EligibleAt, l
  <2>3. Refresh(r, u) = r /\ Settle(r, u) = r
    <3>1. ~(r.until <= u)
      BY <1>4, <2>2
    <3>. QED BY <1>5, <3>1, Zenon DEF Refresh, Settle
  <2>. QED BY <1>1, <1>3, <2>1, <2>3 DEF r, l
<1>6. CASE r.health = "Ok"
  <2>1. Refresh(r, u) = r
    BY <1>6, HealthyIsRefreshed
  <2>2. CASE r.hold_until > t
    <3>1. l = r
      BY <1>2, <2>2 DEF Settle
    <3>2. r.hold_until # NoInstant
      BY <1>4, <2>2 DEF NoInstant
    <3>3. u < r.hold_until
      BY <1>6, <3>1, <3>2 DEF EligibleAt, l
    <3>4. Settle(r, u) = r
      BY <1>4, <3>3 DEF Settle
    <3>. QED BY <1>1, <1>3, <2>1, <3>1, <3>4 DEF r, l
  <2>3. CASE ~(r.hold_until > t)
    <3> DEFINE s == PruneWindow(r.sends, t)
    <3>1. l = [r EXCEPT !.hold_until = NoInstant, !.sends = s]
      BY <1>2, <1>6, <2>3 DEF Settle
    <3>2. s \in Seq(Instant)
      BY <1>4, PruneDropsExpiredPrefix
    <3> HIDE DEF s
    <3>3. /\ l.health = "Ok" /\ l.hold_until = NoInstant /\ l.sends = s
          /\ l.sec_limit = r.sec_limit
      BY <1>1, <1>6, <3>1 DEF KeyRecord
    <3>4. ~(Len(s) < r.sec_limit) /\ u < s[1] + Window
      BY <3>3 DEF Available, EligibleAt, l
    <3>5. s # <<>> /\ s[1] \in Nat
      <4>1. Len(s) \in Nat /\ Len(s) >= 1
        <5>1. Len(s) \in Nat
          BY <3>2
        <5>. QED BY <1>4, <3>4, <5>1
      <4>. QED BY <3>2, <4>1 DEF Instant
    <3>6. ~Expired(s[1], u)
      <4>1. ~(u - s[1] >= Window)
        BY <1>4, <3>4, <3>5, WindowType
      <4>. QED BY <4>1 DEF Expired
    <3>7. PruneWindow(r.sends, u) = s
      BY <1>4, <3>5, <3>6, PruneUnchanged DEF s
    <3>8. ~(r.hold_until > u)
      BY <1>4, <2>3
    <3>9. Settle(r, u) = l
      BY <1>6, <3>1, <3>7, <3>8 DEF Settle
    <3>. QED BY <1>1, <1>3, <2>1, <3>9 DEF r, l
  <2>. QED BY <2>2, <2>3
<1>. QED BY <1>5, <1>6

-----------------------------------------------------------------------------
(* The pool.                                                               *)

LEMMA ExaminedType ==
  ASSUME TypeOK, NEW exclude, NEW t \in Instant
  PROVE  Examined(exclude, t) \in [Key -> KeyRecord]
<1> SUFFICES ASSUME NEW i \in Key
             PROVE  Examined(exclude, t)[i] \in KeyRecord
  BY Zenon DEF Examined
<1>1. Refreshed(t)[i] \in KeyRecord
  BY RefreshType DEF TypeOK, Refreshed
<1>2. Settle(Refreshed(t)[i], t) \in KeyRecord
  BY <1>1, SettleType
<1>. QED BY <1>1, <1>2, Zenon DEF Examined

\* A reading of the clock is an instant, and not later than the clock.
LEMMA ReadingType ==
  ASSUME now \in Instant, NEW t \in Reading
  PROVE  t \in Instant /\ t <= now
BY DEF Reading, Instant, NoInstant

\* A result of whatever kind.
LEMMA RecordKeepsType ==
  ASSUME TypeOK, NEW i \in Key, NEW o \in Outcome, Record(i, o)
  PROVE  TypeOK'
<1> USE DEF TypeOK
<1>1. PICK t \in Reading : RecordAt(i, o, t)
  BY DEF Record
<1>2. Digest(keys[i], t, o) \in KeyRecord
  BY ReadingType, DigestType
<1>. QED BY <1>1, <1>2 DEF RecordAt

\* The step of every action that the type invariant needs.
LEMMA TypeStep == TypeOK /\ [Next]_vars => TypeOK'
<1> SUFFICES ASSUME TypeOK, [Next]_vars PROVE TypeOK'
  OBVIOUS
<1> USE DEF TypeOK
<1>1. ASSUME NEW exclude \in SUBSET Key, NEW i \in Key, Lease(exclude, i)
      PROVE  TypeOK'
  <2> DEFINE k == Examined(exclude, now)[i]
  <2>1. Examined(exclude, now) \in [Key -> KeyRecord]
    BY ExaminedType
  <2>2. k \in KeyRecord
    BY <2>1
  <2>3. [k EXCEPT !.sends = Append(@, now), !.last_used = now] \in KeyRecord
    <3>1. Append(k.sends, now) \in Seq(Instant)
      BY <2>2 DEF KeyRecord
    <3> HIDE DEF k
    <3>. QED BY <2>2, <3>1 DEF KeyRecord, OptInstant, Instant
  <2>4. keys' = [Examined(exclude, now) EXCEPT
                   ![i] = [k EXCEPT !.sends = Append(@, now), !.last_used = now]]
    BY <1>1, <2>1 DEF Lease
  <2>5. keys' \in [Key -> KeyRecord]
    <3> HIDE DEF k
    <3>. QED BY <2>1, <2>3, <2>4, Zenon
  <2>6. inflight' \in [Key -> Nat] /\ now' \in Instant
    BY <1>1 DEF Lease
  <2>. QED BY <2>5, <2>6
<1>2. ASSUME NEW exclude \in SUBSET Key, Refuse(exclude)
      PROVE  TypeOK'
  BY <1>2, ExaminedType DEF Refuse
<1>3. ASSUME NEW i \in Key, NEW o \in Outcomes, Record(i, o)
      PROVE  TypeOK'
  BY <1>3, RecordKeepsType, PoolAssumption
<1>4. ASSUME NEW i \in Key, Abandon(i)
      PROVE  TypeOK'
  BY <1>4 DEF Abandon
<1>5. CASE Snapshot
  <2>1. PICK t \in Reading :
          /\ keys' = [i \in Key |-> Settle(Refresh(keys[i], t), t)]
          /\ UNCHANGED <<now, inflight>>
    BY <1>5 DEF Snapshot, SnapshotAt, Reported
  <2>2. \A i \in Key : Settle(Refresh(keys[i], t), t) \in KeyRecord
    BY ReadingType, RefreshType, SettleType
  <2>. QED BY <2>1, <2>2
<1>6. CASE Tick
  BY <1>6 DEF Tick, Instant, NoInstant
<1>7. CASE UNCHANGED vars
  BY <1>7 DEF vars
<1>. QED BY <1>1, <1>2, <1>3, <1>4, <1>5, <1>6, <1>7 DEF Next, TryAcquire

\* Whatever is leased, refused, recorded, dropped or reported, the pool's
\* variables keep their types: every key keeps a rate limit of at least 1 and
\* at most the larger of the default and the cap on learned limits.
THEOREM TypeCorrect == Spec => []TypeOK
<1>1. Init => TypeOK
  BY NewKeyType, PoolAssumption DEF Init, TypeOK, Instant, NoInstant
<1>. QED BY <1>1, TypeStep, PTL DEF Spec

-----------------------------------------------------------------------------
\* Neither time nor a look at a parked key changes it before its time.
LEMMA ParkedIsUntouched ==
  ASSUME NEW k, NEW t \in Nat, k.until \in Nat,
         k.health # "Ok", k.until > t
  PROVE  Refresh(k, t) = k /\ Settle(k, t) = k
BY DEF Refresh, Settle

\* A key that is parked, with no request in flight, is neither leased nor
\* touched until its time has come (Pool::try_acquire, snapshot, record).
THEOREM QuietParkHoldsAlways == Spec => QuietParkHolds
<1>1. ASSUME TypeOK, [Next]_vars, NEW i \in Key,
             keys[i].health # "Ok", keys[i].until > now, inflight[i] = 0
      PROVE  /\ keys'[i].health = keys[i].health
             /\ keys'[i].until = keys[i].until
             /\ inflight'[i] = 0
  <2>0. now \in Instant /\ now \in Nat /\ keys[i].until \in Nat
    BY <1>1 DEF TypeOK, Instant, KeyRecord, OptInstant
  <2>1. ASSUME NEW t \in Nat, t <= now
        PROVE  Refresh(keys[i], t) = keys[i] /\ Settle(keys[i], t) = keys[i]
    <3>1. keys[i].until > t
      BY <1>1, <2>0, <2>1
    <3>. QED BY <1>1, <2>0, <3>1, ParkedIsUntouched
  <2>2. \A exclude : Examined(exclude, now)[i] = keys[i]
    BY <2>0, <2>1 DEF Examined, Refreshed
  <2>3. ASSUME NEW exclude \in SUBSET Key, NEW j \in Key, Lease(exclude, j)
        PROVE  keys'[i] = keys[i] /\ inflight'[i] = inflight[i]
    <3>1. j # i
      <4>1. SUFFICES ASSUME j = i PROVE FALSE
        OBVIOUS
      <4>2. Available(keys[i])
        BY <2>2, <2>3, <4>1 DEF Lease, Best, Usable
      <4>. QED BY <1>1, <4>2 DEF Available
    <3>. QED BY <2>2, <2>3, <3>1, <1>1, ExaminedType DEF Lease, TypeOK
  <2>4. ASSUME NEW exclude \in SUBSET Key, Refuse(exclude)
        PROVE  keys'[i] = keys[i] /\ inflight'[i] = inflight[i]
    BY <2>2, <2>4 DEF Refuse
  <2>5. ASSUME NEW j \in Key, NEW o \in Outcomes, Record(j, o)
        PROVE  keys'[i] = keys[i] /\ inflight'[i] = inflight[i]
    <3>1. j # i
      BY <1>1, <2>5 DEF Record, RecordAt
    <3>. QED BY <1>1, <2>5, <3>1 DEF Record, RecordAt, TypeOK
  <2>6. ASSUME NEW j \in Key, Abandon(j)
        PROVE  keys'[i] = keys[i] /\ inflight'[i] = inflight[i]
    BY <1>1, <2>6 DEF Abandon, TypeOK
  <2>7. CASE Snapshot
    <3>1. PICK t \in Reading :
            /\ keys' = [j \in Key |-> Settle(Refresh(keys[j], t), t)]
            /\ inflight' = inflight
      BY <2>7 DEF Snapshot, SnapshotAt, Reported
    <3>2. t \in Nat /\ t <= now
      BY <2>0, ReadingType DEF Instant
    <3>. QED BY <1>1, <2>1, <3>1, <3>2
  <2>8. CASE Tick
    BY <1>1, <2>8 DEF Tick
  <2>9. CASE UNCHANGED vars
    BY <1>1, <2>9 DEF vars
  <2>. QED BY <1>1, <2>3, <2>4, <2>5, <2>6, <2>7, <2>8, <2>9
           DEF Next, TryAcquire
<1>2. TypeOK /\ [Next]_vars =>
        [\A i \in Key :
           keys[i].health # "Ok" /\ keys[i].until > now /\ inflight[i] = 0
             => /\ keys'[i].health = keys[i].health
                /\ keys'[i].until = keys[i].until
                /\ inflight'[i] = 0]_vars
  BY <1>1
<1>. QED BY <1>2, TypeCorrect, PTL DEF Spec, QuietParkHolds

-----------------------------------------------------------------------------
(* The selection, in terms of looks at the keys.                           *)

LEMMA SelectionIsLooks ==
  ASSUME NEW exclude, NEW t
  PROVE  /\ Considered(exclude, t) \subseteq Key
         /\ Considered(exclude, t)
              = IF \E i \in Key \ exclude : Refresh(keys[i], t).health = "Ok"
                THEN Key \ exclude ELSE Key
         /\ \A i \in Considered(exclude, t) :
               Examined(exclude, t)[i] = Look(keys[i], t)
         /\ Usable(exclude, t)
              = {i \in Considered(exclude, t) : Available(Look(keys[i], t))}
         /\ NextAt(exclude, t)
              = Min({EligibleAt(Look(keys[i], t)) : i \in Considered(exclude, t)})
<1>1. \A i \in Key : Refreshed(t)[i] = Refresh(keys[i], t)
  BY DEF Refreshed
<1>2. /\ Considered(exclude, t) \subseteq Key
      /\ Considered(exclude, t)
           = IF \E i \in Key \ exclude : Refresh(keys[i], t).health = "Ok"
             THEN Key \ exclude ELSE Key
  BY <1>1 DEF Considered
<1>3. \A i \in Considered(exclude, t) :
         Examined(exclude, t)[i] = Look(keys[i], t)
  BY <1>1, <1>2, Zenon DEF Examined, Look
<1>4. Usable(exclude, t)
        = {i \in Considered(exclude, t) : Available(Look(keys[i], t))}
  BY <1>3 DEF Usable
<1>5. {EligibleAt(Examined(exclude, t)[i]) : i \in Considered(exclude, t)}
        = {EligibleAt(Look(keys[i], t)) : i \in Considered(exclude, t)}
  BY <1>3
<1>. QED BY <1>2, <1>3, <1>4, <1>5, Zenon DEF NextAt

LEMMA EligibleType ==
  ASSUME NEW k \in KeyRecord, ~Available(k)
  PROVE  EligibleAt(k) \in Nat
<1>1. /\ k.until \in Nat /\ k.hold_until \in Nat
      /\ k.sends \in Seq(Instant) /\ k.sec_limit \in Nat \ {0}
  BY FieldTypes
<1>2. CASE k.health = "Ok" /\ k.hold_until = NoInstant
  <2>1. Len(k.sends) \in Nat /\ Len(k.sends) >= 1
    BY <1>1, <1>2 DEF Available
  <2>2. k.sends[1] \in Nat
    BY <1>1, <2>1 DEF Instant
  <2>. QED BY <1>2, <2>2, WindowType DEF EligibleAt
<1>3. CASE ~(k.health = "Ok" /\ k.hold_until = NoInstant)
  BY <1>1, <1>3 DEF EligibleAt
<1>. QED BY <1>2, <1>3

\* What NextAt is of a caller that is refused.
LEMMA NextAtIsFirst ==
  ASSUME TypeOK, NEW exclude, NEW t \in Instant, Usable(exclude, t) = {}
  PROVE  /\ NextAt(exclude, t) \in Nat
         /\ \E i \in Considered(exclude, t) :
               NextAt(exclude, t) = EligibleAt(Look(keys[i], t))
         /\ \A i \in Considered(exclude, t) :
               /\ ~Available(Look(keys[i], t))
               /\ EligibleAt(Look(keys[i], t)) \in Nat
               /\ NextAt(exclude, t) <= EligibleAt(Look(keys[i], t))
<1> DEFINE C == Considered(exclude, t)
           S == {EligibleAt(Look(keys[i], t)) : i \in C}
<1>1. C \subseteq Key /\ NextAt(exclude, t) = Min(S)
  BY SelectionIsLooks
<1>2. \A i \in C : ~Available(Look(keys[i], t))
  <2>1. {i \in C : Available(Look(keys[i], t))} = {}
    BY SelectionIsLooks, Zenon
  <2>. QED BY <2>1, Zenon
<1>3. \A i \in C : EligibleAt(Look(keys[i], t)) \in Nat
  <2>1. \A i \in C : Look(keys[i], t) \in KeyRecord
    BY <1>1, LookType DEF TypeOK
  <2>. QED BY <1>2, <2>1, EligibleType
<1>4. C # {}
  <2>1. 1 \in Key
    BY PoolAssumption DEF Key
  <2>2. C = IF \E i \in Key \ exclude : Refresh(keys[i], t).health = "Ok"
            THEN Key \ exclude ELSE Key
    BY SelectionIsLooks
  <2>. QED BY <2>1, <2>2
<1>5. S \subseteq Nat /\ S # {}
  BY <1>3, <1>4
<1>6. Min(S) \in S /\ \A y \in S : Min(S) <= y
  BY <1>5, MinOfNats
<1> HIDE DEF C
<1>7. \E i \in C : Min(S) = EligibleAt(Look(keys[i], t))
  BY <1>6
<1>8. \A i \in C : Min(S) <= EligibleAt(Look(keys[i], t))
  BY <1>6
<1>9. Min(S) \in Nat
  BY <1>5, <1>6
<1>. QED BY <1>1, <1>2, <1>3, <1>7, <1>8, <1>9 DEF C

\* Until the instant a refusal names, the selection finds what it found.
LEMMA RefusalStays ==
  ASSUME TypeOK, NEW exclude, NEW t \in Instant, NEW u \in Instant, t <= u,
         Usable(exclude, t) = {}, u < NextAt(exclude, t)
  PROVE  /\ Usable(exclude, u) = {}
         /\ NextAt(exclude, u) = NextAt(exclude, t)
<1> DEFINE C == Considered(exclude, t)
<1>1. C \subseteq Key /\ \A i \in Key : keys[i] \in KeyRecord
  BY SelectionIsLooks DEF TypeOK
<1>2. ASSUME NEW i \in C
      PROVE  /\ ~Available(Look(keys[i], t))
             /\ Look(keys[i], u) = Look(keys[i], t)
             /\ Refresh(keys[i], u).health = Refresh(keys[i], t).health
  <2>1. /\ NextAt(exclude, t) \in Nat
        /\ ~Available(Look(keys[i], t))
        /\ EligibleAt(Look(keys[i], t)) \in Nat
        /\ NextAt(exclude, t) <= EligibleAt(Look(keys[i], t))
    BY NextAtIsFirst
  <2>2. u < EligibleAt(Look(keys[i], t))
    BY <2>1 DEF Instant
  <2>. QED BY <1>1, <2>1, <2>2, WaitingStays
<1>3. Considered(exclude, u) = C
  <2> DEFINE Healthy(v) ==
               \E i \in Key \ exclude : Refresh(keys[i], v).health = "Ok"
  <2>1. \A v : Considered(exclude, v) = IF Healthy(v) THEN Key \ exclude ELSE Key
    BY SelectionIsLooks
  <2>2. Key \ exclude \subseteq C
    BY <2>1
  <2>3. Healthy(u) <=> Healthy(t)
    BY <1>2, <2>2
  <2> HIDE DEF Healthy
  <2>. QED BY <2>1, <2>3
<1>4. Usable(exclude, u) = {}
  <2>1. Usable(exclude, u) = {i \in C : Available(Look(keys[i], u))}
    BY <1>3, SelectionIsLooks
  <2>. QED BY <1>2, <2>1
<1>5. {EligibleAt(Look(keys[i], u)) : i \in C} = {EligibleAt(Look(keys[i], t)) : i \in C}
  BY <1>2
<1>6. NextAt(exclude, u) = NextAt(exclude, t)
  <2>1. /\ NextAt(exclude, u)
             = Min({EligibleAt(Look(keys[i], u)) : i \in Considered(exclude, u)})
        /\ NextAt(exclude, t) = Min({EligibleAt(Look(keys[i], t)) : i \in C})
    BY SelectionIsLooks
  <2> HIDE DEF C
  <2>. QED BY <1>3, <1>5, <2>1, Zenon
<1>. QED BY <1>4, <1>6

\* Until the instant a refusal names, no key could have been leased to that
\* caller (Pool::try_acquire, Next::At), for any number of keys and whatever
\* each of them waits for: a cooldown, a hold, or a full window.
THEOREM NoEarlierSlotEver == Spec => []NoEarlierSlot
<1>1. ASSUME TypeOK PROVE NoEarlierSlot
  <2> SUFFICES ASSUME NEW exclude \in SUBSET Key, Usable(exclude, now) = {},
                      NEW t \in now..(NextAt(exclude, now) - 1)
               PROVE  Usable(exclude, t) = {}
    BY DEF NoEarlierSlot
  <2>1. now \in Instant /\ NextAt(exclude, now) \in Nat
    BY <1>1, NextAtIsFirst DEF TypeOK
  <2>2. t \in Instant /\ now <= t /\ t < NextAt(exclude, now)
    BY <2>1 DEF Instant, NoInstant
  <2>. QED BY <1>1, <2>1, <2>2, RefusalStays
<1>. QED BY <1>1, TypeCorrect, PTL

-----------------------------------------------------------------------------
\* A refusal that finds no healthy key has looked at all keys, found each of
\* them parked, and names the first return (Pool::try_acquire, Next::Unavailable).
LEMMA AllParked ==
  ASSUME TypeOK, NEW exclude \in SUBSET Key, ~AnyHealthy(exclude, now)
  PROVE  /\ \A i \in Key : keys[i].health # "Ok" /\ keys[i].until > now
         /\ \E i \in Key : keys[i].until = NextAt(exclude, now)
         /\ \A i \in Key : keys[i].until >= NextAt(exclude, now)
<1> DEFINE C == Considered(exclude, now)
<1>1. \A i \in Key : Refreshed(now)[i] = Refresh(keys[i], now)
  BY DEF Refreshed
<1>2. C \subseteq Key /\ \A i \in C : Refresh(keys[i], now).health # "Ok"
  BY <1>1, SelectionIsLooks DEF AnyHealthy
<1>3. C = Key
  <2>1. C = IF \E i \in Key \ exclude : Refresh(keys[i], now).health = "Ok"
            THEN Key \ exclude ELSE Key
    BY SelectionIsLooks
  <2>. QED BY <1>2, <2>1
<1> HIDE DEF C
<1>4. now \in Instant /\ now \in Nat /\ \A i \in Key : keys[i] \in KeyRecord
  BY DEF TypeOK, Instant
<1>5. ASSUME NEW i \in Key
      PROVE  /\ keys[i].health # "Ok" /\ keys[i].until > now
             /\ keys[i].until \in Nat
             /\ Look(keys[i], now) = keys[i]
  <2>1. keys[i].until \in Nat
    BY <1>4, FieldTypes
  <2>2. Refresh(keys[i], now).health # "Ok"
    BY <1>2, <1>3
  <2>3. keys[i].health # "Ok"
    BY <2>2, HealthyIsRefreshed
  <2>4. keys[i].until > now
    <3>1. SUFFICES ASSUME keys[i].until <= now PROVE FALSE
      BY <1>4, <2>1
    <3>2. keys[i].health \in {"Disabled", "Exhausted"}
      BY <1>4, <2>3 DEF KeyRecord, Health
    <3>3. Refresh(keys[i], now).health = "Ok"
      BY <1>4, <3>1, <3>2 DEF Refresh, KeyRecord
    <3>. QED BY <2>2, <3>3
  <2>. QED BY <1>4, <2>1, <2>3, <2>4, ParkedIsUntouched DEF Look
<1>6. \A i \in Key : EligibleAt(Look(keys[i], now)) = keys[i].until
  BY <1>5 DEF EligibleAt
<1>7. Usable(exclude, now) = {}
  <2>1. \A i \in Key : ~Available(Look(keys[i], now))
    BY <1>5 DEF Available
  <2>2. Usable(exclude, now) = {i \in C : Available(Look(keys[i], now))}
    BY SelectionIsLooks, Zenon DEF C
  <2>3. C \subseteq Key
    BY SelectionIsLooks, Zenon DEF C
  <2>. QED BY <2>1, <2>2, <2>3, Zenon
<1>8. /\ \E i \in Key : NextAt(exclude, now) = keys[i].until
      /\ NextAt(exclude, now) \in Nat
      /\ \A i \in Key : NextAt(exclude, now) <= keys[i].until
  BY <1>3, <1>4, <1>6, <1>7, NextAtIsFirst DEF C
<1>. QED BY <1>5, <1>8

\* "No key is usable" is said only when every key is parked, with the instant at
\* which the first of them comes back.
THEOREM UnavailableAlwaysMeansAllParked == Spec => []UnavailableMeansAllParked
<1>1. TypeOK => UnavailableMeansAllParked
  BY AllParked DEF UnavailableMeansAllParked
<1>. QED BY <1>1, TypeCorrect, PTL

-----------------------------------------------------------------------------
(* The selection as a function of the keys, to compare two states.         *)

ConsideredOf(ks, exclude, t) ==
    IF \E i \in Key \ exclude : Refresh(ks[i], t).health = "Ok"
    THEN Key \ exclude ELSE Key

UsableOf(ks, exclude, t) ==
    {i \in ConsideredOf(ks, exclude, t) : Available(Look(ks[i], t))}

NextAtOf(ks, exclude, t) ==
    Min({EligibleAt(Look(ks[i], t)) : i \in ConsideredOf(ks, exclude, t)})

LEMMA SelectionOf ==
  \A exclude, t : /\ Usable(exclude, t) = UsableOf(keys, exclude, t)
                  /\ NextAt(exclude, t) = NextAtOf(keys, exclude, t)
<1> SUFFICES ASSUME NEW exclude, NEW t
             PROVE  /\ Usable(exclude, t) = UsableOf(keys, exclude, t)
                    /\ NextAt(exclude, t) = NextAtOf(keys, exclude, t)
  OBVIOUS
<1>1. Considered(exclude, t) = ConsideredOf(keys, exclude, t)
  BY SelectionIsLooks DEF ConsideredOf
<1>. QED BY <1>1, SelectionIsLooks, Zenon DEF UsableOf, NextAtOf

LEMMA SelectionOfNextKeys ==
  (\A exclude, t : /\ Usable(exclude, t) = UsableOf(keys, exclude, t)
                   /\ NextAt(exclude, t) = NextAtOf(keys, exclude, t))'
BY SelectionOf, PTL

\* Looking at some of the keys, or refreshing them, changes nothing about what
\* any later selection finds.
LEMMA LookedAtAlike ==
  ASSUME NEW ks \in [Key -> KeyRecord], NEW ks2,
         NEW t \in Instant, NEW u \in Instant, t <= u,
         \A i \in Key : ks2[i] \in {ks[i], Refresh(ks[i], t), Look(ks[i], t)},
         NEW exclude
  PROVE  /\ UsableOf(ks2, exclude, u) = UsableOf(ks, exclude, u)
         /\ NextAtOf(ks2, exclude, u) = NextAtOf(ks, exclude, u)
<1>1. ASSUME NEW i \in Key
      PROVE  /\ Look(ks2[i], u) = Look(ks[i], u)
             /\ Refresh(ks2[i], u).health = Refresh(ks[i], u).health
  BY LookTwice
<1> DEFINE C == ConsideredOf(ks, exclude, u)
<1>2. ConsideredOf(ks2, exclude, u) = C /\ C \subseteq Key
  BY <1>1 DEF ConsideredOf
<1> HIDE DEF C
<1>3. /\ \A i \in C : Look(ks2[i], u) = Look(ks[i], u)
      /\ {EligibleAt(Look(ks2[i], u)) : i \in C}
           = {EligibleAt(Look(ks[i], u)) : i \in C}
  BY <1>1, <1>2
<1>4. UsableOf(ks2, exclude, u) = UsableOf(ks, exclude, u)
  BY <1>2, <1>3 DEF UsableOf, C
<1>5. NextAtOf(ks2, exclude, u) = NextAtOf(ks, exclude, u)
  BY <1>2, <1>3, Zenon DEF NextAtOf, C
<1>. QED BY <1>4, <1>5

\* Every step but a lease, a result and a tick only looks at keys.
LEMMA ExaminedLooks ==
  ASSUME NEW exclude, NEW t, NEW i \in Key
  PROVE  Examined(exclude, t)[i] \in {Refresh(keys[i], t), Look(keys[i], t)}
BY DEF Examined, Refreshed, Look

LEMMA ReportedLooks ==
  ASSUME NEW t, NEW i \in Key
  PROVE  Reported(t)[i] = Look(keys[i], t)
BY DEF Reported, Look
=============================================================================
