-------------------------- MODULE PoolPacingProofs ---------------------------
(***************************************************************************)
(* The pool never uses a key faster than its rate limit, proved for any    *)
(* number of keys, limits that change from response to response, and any   *)
(* interleaving of leases, results, reports and disconnects.               *)
(*                                                                         *)
(* The window alone says nothing about what the next step may do: the pool *)
(* decides by the sends it remembers.  SendsAreLatest ties these to the    *)
(* history, and is preserved because only expired sends are dropped, and   *)
(* an expired send stays expired.                                          *)
(***************************************************************************)
EXTENDS PoolPacing, PoolProofs, FiniteSetTheorems

\* The inductive invariant.
PacingInv == /\ TypeOK
             /\ LogTypeOK
             /\ SendsAreLatest
             /\ WindowRespected

\* What SendsAreLatest says of one key with sends s and history h at time t.
Latest(s, h, t) ==
    /\ Len(h) - Len(s) >= 0
    /\ \A n \in 1..Len(s) : s[n] = h[Len(h) - Len(s) + n].at
    /\ \A n \in 1..(Len(h) - Len(s)) : Expired(h[n].at, t)

Sends == Seq(Instant)
Histories == Seq([at: Instant, limit: RateLimits])

LEMMA LatestDef ==
  SendsAreLatest <=> \A i \in Key : Latest(keys[i].sends, log[i], now)
BY DEF SendsAreLatest, Latest

\* Pruning at a reading t of the clock, which may be older than the clock u.
LEMMA PruneKeepsLatest ==
  ASSUME NEW s \in Sends, NEW h \in Histories, NEW t \in Instant,
         NEW u \in Instant, t <= u, Latest(s, h, u)
  PROVE  Latest(PruneWindow(s, t), h, u)
<1> DEFINE p == PruneWindow(s, t)
           d == Len(s) - Len(p)
<1>1. /\ p \in Seq(Instant)
      /\ d \in 0..Len(s)
      /\ \A n \in 1..Len(p) : p[n] = s[d + n]
      /\ \A n \in 1..d : Expired(s[n], u)
  <2>1. /\ p \in Seq(Instant)
        /\ d \in 0..Len(s)
        /\ \A n \in 1..Len(p) : p[n] = s[d + n]
        /\ \A n \in 1..d : Expired(s[n], t)
    BY PruneDropsExpiredPrefix DEF Sends
  <2>2. ASSUME NEW n \in 1..d PROVE Expired(s[n], u)
    <3>1. s[n] \in Instant
      <4> HIDE DEF d
      <4>. QED BY <2>1, ElementOfSeq DEF Sends
    <3>. QED BY <2>1, <3>1, ExpiredStays
  <2>. QED BY <2>1, <2>2
<1>2. Len(s) \in Nat /\ Len(h) \in Nat /\ Len(p) \in Nat
  BY <1>1 DEF Sends, Histories
<1> HIDE DEF p
<1>3. Len(h) - Len(p) = Len(h) - Len(s) + d /\ Len(h) - Len(p) >= 0
  BY <1>1, <1>2 DEF Latest
<1>4. ASSUME NEW n \in 1..Len(p)
      PROVE  p[n] = h[Len(h) - Len(p) + n].at
  <2>1. d + n \in 1..Len(s)
    BY <1>1, <1>2
  <2>2. p[n] = h[Len(h) - Len(s) + (d + n)].at
    BY <1>1, <2>1 DEF Latest
  <2>3. Len(h) - Len(s) + (d + n) = Len(h) - Len(p) + n
    BY <1>1, <1>2
  <2>. QED BY <2>2, <2>3
<1>5. ASSUME NEW n \in 1..(Len(h) - Len(p))
      PROVE  Expired(h[n].at, u)
  <2>1. CASE n <= Len(h) - Len(s)
    BY <1>2, <2>1 DEF Latest
  <2>2. CASE n > Len(h) - Len(s)
    <3> DEFINE m == n - (Len(h) - Len(s))
    <3>1. m \in 1..d /\ m \in 1..Len(s)
      BY <1>1, <1>2, <1>3, <2>2
    <3>2. s[m] = h[Len(h) - Len(s) + m].at
      BY <3>1 DEF Latest
    <3>3. Len(h) - Len(s) + m = n
      BY <1>2
    <3>. QED BY <1>1, <3>1, <3>2, <3>3
  <2>. QED BY <1>2, <2>1, <2>2
<1>6. Latest(p, h, u)
  BY <1>3, <1>4, <1>5 DEF Latest
<1>. QED BY <1>6 DEF p

LEMMA LaterKeepsLatest ==
  ASSUME NEW s \in Sends, NEW h \in Histories, NEW t \in Instant,
         NEW u \in Instant, u >= t, Latest(s, h, t)
  PROVE  Latest(s, h, u)
<1>1. ASSUME NEW n \in 1..(Len(h) - Len(s)) PROVE Expired(h[n].at, u)
  <2>1. Len(s) \in Nat /\ Len(h) \in Nat /\ Len(h) - Len(s) >= 0
    BY DEF Sends, Histories, Latest
  <2>2. n \in 1..Len(h)
    BY <2>1
  <2>3. h[n].at \in Nat /\ Window \in Nat
    <3>1. h[n] \in [at: Instant, limit: RateLimits]
      BY <2>2, ElementOfSeq, Zenon DEF Histories
    <3>. QED BY <3>1, WindowType DEF Instant
  <2>4. t - h[n].at >= Window
    BY DEF Latest, Expired
  <2>. QED BY <2>3, <2>4 DEF Expired, Instant
<1>. QED BY <1>1 DEF Latest

LEMMA AppendKeepsLatest ==
  ASSUME NEW s \in Sends, NEW h \in Histories, NEW t \in Instant,
         NEW e \in [at: Instant, limit: RateLimits], e.at = t, Latest(s, h, t)
  PROVE  Latest(Append(s, t), Append(h, e), t)
<1>1. Len(s) \in Nat /\ Len(h) \in Nat /\ Len(h) - Len(s) >= 0
  BY DEF Sends, Histories, Latest
<1>2. /\ Len(Append(s, t)) = Len(s) + 1
      /\ \A n \in 1..Len(s) : Append(s, t)[n] = s[n]
      /\ Append(s, t)[Len(s) + 1] = t
  BY DEF Sends
<1>3. /\ Len(Append(h, e)) = Len(h) + 1
      /\ \A n \in 1..Len(h) : Append(h, e)[n] = h[n]
      /\ Append(h, e)[Len(h) + 1] = e
  BY DEF Histories
<1>4. ASSUME NEW n \in 1..(Len(s) + 1)
      PROVE  Append(s, t)[n] = Append(h, e)[Len(h) - Len(s) + n].at
  <2>1. CASE n = Len(s) + 1
    BY <1>1, <1>2, <1>3, <2>1
  <2>2. CASE n \in 1..Len(s)
    BY <1>1, <1>2, <1>3, <2>2 DEF Latest
  <2>. QED BY <1>1, <2>1, <2>2
<1>5. \A n \in 1..(Len(h) - Len(s)) : Expired(Append(h, e)[n].at, t)
  BY <1>1, <1>3 DEF Latest
<1>6. Len(Append(h, e)) - Len(Append(s, t)) = Len(h) - Len(s)
  BY <1>1, <1>2, <1>3
<1>. QED BY <1>1, <1>2, <1>4, <1>5, <1>6, Zenon DEF Latest

-----------------------------------------------------------------------------
\* What a look at a key (refresh, then availability) leaves of its sends.
LEMMA LookKeepsLatest ==
  ASSUME NEW k \in KeyRecord, NEW h \in Histories, NEW t \in Instant,
         NEW u \in Instant, t <= u, Latest(k.sends, h, u)
  PROVE  /\ Latest(Refresh(k, t).sends, h, u)
         /\ Latest(Settle(Refresh(k, t), t).sends, h, u)
<1> DEFINE r == Refresh(k, t)
<1>1. r \in KeyRecord /\ r.sends = k.sends
  BY RefreshType, RefreshKeepsSends
<1>2. k.sends \in Sends
  BY DEF KeyRecord, Sends
<1>3. \/ Settle(r, t).sends = k.sends
      \/ Settle(r, t).sends = PruneWindow(k.sends, t)
  <2> HIDE DEF r
  <2>. QED BY <1>1, SettlePrunes
<1>4. Latest(PruneWindow(k.sends, t), h, u)
  BY <1>2, PruneKeepsLatest
<1>. QED BY <1>1, <1>3, <1>4, Zenon

LEMMA ExaminedKeepsLatest ==
  ASSUME TypeOK, LogTypeOK, SendsAreLatest, NEW exclude, NEW i \in Key
  PROVE  /\ Latest(Examined(exclude, now)[i].sends, log[i], now)
         /\ Examined(exclude, now)[i].sec_limit = keys[i].sec_limit
<1>1. keys[i] \in KeyRecord /\ log[i] \in Histories /\ now \in Instant
  BY DEF TypeOK, LogTypeOK, Histories
<1>2. Latest(keys[i].sends, log[i], now)
  BY LatestDef
<1>3. Refreshed(now)[i] = Refresh(keys[i], now)
  BY DEF Refreshed
<1>4. \/ Examined(exclude, now)[i] = Refresh(keys[i], now)
      \/ Examined(exclude, now)[i] = Settle(Refresh(keys[i], now), now)
  BY <1>3 DEF Examined
<1>5. /\ Latest(Refresh(keys[i], now).sends, log[i], now)
      /\ Latest(Settle(Refresh(keys[i], now), now).sends, log[i], now)
  <2>1. now <= now
    BY <1>1 DEF Instant
  <2>. QED BY <1>1, <1>2, <2>1, LookKeepsLatest
<1>6. /\ Refresh(keys[i], now) \in KeyRecord
      /\ Refresh(keys[i], now).sec_limit = keys[i].sec_limit
  BY <1>1, RefreshType, RefreshKeepsSends
<1>7. Settle(Refresh(keys[i], now), now).sec_limit = keys[i].sec_limit
  BY <1>6, SettlePrunes
<1>. QED BY <1>4, <1>5, <1>6, <1>7, Zenon

\* A usable key has fewer sends in its window than its limit allows.
LEMMA UsableHasRoom ==
  ASSUME TypeOK, NEW exclude, NEW i \in Usable(exclude, now)
  PROVE  Len(Examined(exclude, now)[i].sends) < Examined(exclude, now)[i].sec_limit
BY DEF Usable, Available

-----------------------------------------------------------------------------
LEMMA PacingNextIsNext == [PacingNext]_pacingVars => [Next]_vars
BY DEF PacingNext, pacingVars, PacedLease, Next, vars, TryAcquire

LEMMA PacedLeaseStep ==
  ASSUME PacingInv, TypeOK', NEW exclude \in SUBSET Key, NEW i \in Key,
         PacedLease(exclude, i)
  PROVE  LogTypeOK' /\ SendsAreLatest' /\ WindowRespected'
<1> DEFINE k == Examined(exclude, now)[i]
           h == log[i]
           e == Send(i)
<1> USE DEF PacingInv
<1>1. /\ now' = now
      /\ keys' = [Examined(exclude, now) EXCEPT
                    ![i].sends = Append(@, now), ![i].last_used = now]
      /\ log' = [log EXCEPT ![i] = Append(h, e)]
      /\ i \in Usable(exclude, now)
  BY DEF PacedLease, Lease, Best
<1>2. /\ Examined(exclude, now) \in [Key -> KeyRecord]
      /\ now \in Instant
      /\ log \in [Key -> Histories]
      /\ h \in Histories
  BY ExaminedType DEF TypeOK, LogTypeOK, Histories
<1>3. k \in KeyRecord /\ k.sends \in Sends
  BY <1>2 DEF KeyRecord, Sends
<1>4. e \in [at: Instant, limit: RateLimits] /\ e.at = now /\ e.limit = k.sec_limit
  <2>1. keys[i].sec_limit \in RateLimits
    BY DEF TypeOK, KeyRecord
  <2>2. k.sec_limit = keys[i].sec_limit
    BY ExaminedKeepsLatest
  <2>. QED BY <1>2, <2>1, <2>2 DEF Send
<1>5. Latest(k.sends, h, now) /\ Len(k.sends) < k.sec_limit
  BY ExaminedKeepsLatest, UsableHasRoom, <1>1
<1>6. Append(h, e) \in Histories
  BY <1>2, <1>4 DEF Histories
<1>7. LogTypeOK'
  BY <1>1, <1>2, <1>6 DEF LogTypeOK, Histories
<1>8. SendsAreLatest'
  <2>1. Latest(Append(k.sends, now), Append(h, e), now)
    BY <1>2, <1>3, <1>4, <1>5, AppendKeepsLatest
  <2>2. keys'[i].sends = Append(k.sends, now) /\ log'[i] = Append(h, e)
    BY <1>1, <1>2, <1>3 DEF KeyRecord, LogTypeOK
  <2>3. ASSUME NEW j \in Key, j # i
        PROVE  Latest(keys'[j].sends, log'[j], now')
    <3>1. keys'[j] = Examined(exclude, now)[j] /\ log'[j] = log[j]
      BY <1>1, <1>2, <2>3
    <3>. QED BY <1>1, <3>1, ExaminedKeepsLatest
  <2>4. \A j \in Key : Latest(keys'[j].sends, log'[j], now')
    BY <1>1, <2>1, <2>2, <2>3
  <2>. QED BY <2>4 DEF SendsAreLatest, Latest
<1>9. WindowRespected'
  <2> SUFFICES ASSUME NEW j \in Key, NEW n \in 1..Len(log'[j]),
                      n - log'[j][n].limit >= 1
               PROVE  log'[j][n].at - log'[j][n - log'[j][n].limit].at >= Window
    BY DEF WindowRespected
  <2>1. CASE j # i
    BY <1>1, <1>2, <2>1 DEF WindowRespected
  <2>2. CASE j = i
    <3>1. /\ log'[j] = Append(h, e) /\ Len(h) \in Nat
          /\ Len(Append(h, e)) = Len(h) + 1
          /\ \A m \in 1..Len(h) : Append(h, e)[m] = h[m]
          /\ Append(h, e)[Len(h) + 1] = e
      BY <1>1, <1>2, <1>4, <2>2 DEF Histories
    <3>2. CASE n = Len(h) + 1
      <4> DEFINE first == n - e.limit
      <4>1. k.sec_limit \in Nat \ {0} /\ Len(k.sends) \in Nat
        BY <1>3 DEF KeyRecord, RateLimits, Sends
      <4>2. log'[j][n] = e /\ first >= 1
        BY <3>1, <3>2
      <4>3. first \in 1..(Len(h) - Len(k.sends)) /\ first \in 1..Len(h)
        <5>1. e.limit = k.sec_limit /\ n = Len(h) + 1
          BY <1>4, <3>2
        <5>2. Len(k.sends) < k.sec_limit /\ Len(h) \in Nat
          BY <1>5, <3>1
        <5> HIDE DEF k, h, e
        <5>. QED BY <4>1, <4>2, <5>1, <5>2
      <4>4. Expired(h[first].at, now)
        BY <1>5, <4>3 DEF Latest
      <4>5. log'[j][first] = h[first]
        BY <3>1, <4>3
      <4>. QED BY <1>4, <4>2, <4>4, <4>5 DEF Expired
    <3>3. CASE n \in 1..Len(h)
      <4>1. log'[j][n] = h[n]
        BY <3>1, <3>3
      <4>2. h[n].limit \in Nat \ {0}
        <5>1. h[n] \in [at: Instant, limit: RateLimits]
          BY <1>2, <3>3, ElementOfSeq DEF Histories
        <5>. QED BY <5>1 DEF RateLimits
      <4>3. n - h[n].limit \in 1..Len(h)
        BY <3>1, <3>3, <4>1, <4>2
      <4>4. log'[j][n - h[n].limit] = h[n - h[n].limit]
        BY <3>1, <4>3
      <4>5. h[n].at - h[n - h[n].limit].at >= Window
        BY <2>2, <3>3, <4>3 DEF WindowRespected
      <4>. QED BY <4>1, <4>4, <4>5
    <3>4. Len(log'[j]) = Len(h) + 1
      BY <3>1, Zenon
    <3>5. n = Len(h) + 1 \/ n \in 1..Len(h)
      <4> HIDE DEF h, e
      <4>. QED BY <3>1, <3>4
    <3>. QED BY <3>2, <3>3, <3>5, Zenon
  <2>. QED BY <2>1, <2>2
<1>. QED BY <1>7, <1>8, <1>9

\* The other actions leave the history alone, and the sends too but for what is
\* pruned.
LEMMA OtherStep ==
  ASSUME PacingInv, TypeOK', UNCHANGED log, now' >= now,
         \A i \in Key : \/ keys'[i].sends = keys[i].sends
                        \/ \E exclude \in SUBSET Key :
                             keys'[i].sends = Examined(exclude, now)[i].sends
                        \/ \E t \in Reading :
                             keys'[i].sends
                               = Settle(Refresh(keys[i], t), t).sends
  PROVE  LogTypeOK' /\ SendsAreLatest' /\ WindowRespected'
<1> USE DEF PacingInv
<1>1. LogTypeOK' /\ WindowRespected'
  BY DEF LogTypeOK, WindowRespected
<1>2. ASSUME NEW i \in Key
      PROVE  Latest(keys'[i].sends, log'[i], now')
  <2>1. /\ keys[i] \in KeyRecord /\ keys'[i] \in KeyRecord
        /\ log[i] \in Histories /\ now \in Instant /\ now' \in Instant
    BY DEF TypeOK, LogTypeOK, Histories
  <2>2. Latest(keys[i].sends, log[i], now)
    BY LatestDef
  <2>3. Latest(keys'[i].sends, log[i], now)
    <3>1. \A t \in Reading :
            Latest(Settle(Refresh(keys[i], t), t).sends, log[i], now)
      BY <2>1, <2>2, ReadingType, LookKeepsLatest
    <3>. QED BY <2>2, <3>1, ExaminedKeepsLatest
  <2>4. keys'[i].sends \in Sends
    BY <2>1 DEF KeyRecord, Sends
  <2>. QED BY <2>1, <2>3, <2>4, LaterKeepsLatest
<1>3. SendsAreLatest'
  BY <1>2 DEF SendsAreLatest, Latest
<1>. QED BY <1>1, <1>3

LEMMA PacingStep == PacingInv /\ [PacingNext]_pacingVars => PacingInv'
<1> SUFFICES ASSUME PacingInv, [PacingNext]_pacingVars
             PROVE  LogTypeOK' /\ SendsAreLatest' /\ WindowRespected'
  BY PacingNextIsNext, TypeStep DEF PacingInv
<1>1. TypeOK /\ TypeOK'
  BY PacingNextIsNext, TypeStep DEF PacingInv
<1>2. ASSUME NEW exclude \in SUBSET Key, NEW i \in Key, PacedLease(exclude, i)
      PROVE  LogTypeOK' /\ SendsAreLatest' /\ WindowRespected'
  BY <1>1, <1>2, PacedLeaseStep
<1>3. ASSUME NEW exclude \in SUBSET Key, Refuse(exclude), UNCHANGED log
      PROVE  LogTypeOK' /\ SendsAreLatest' /\ WindowRespected'
  <2>1. now' = now /\ keys' = Examined(exclude, now)
    BY <1>3 DEF Refuse
  <2>. QED BY <1>1, <1>3, <2>1, OtherStep DEF TypeOK, Instant
<1>4. ASSUME NEW i \in Key, NEW o \in Outcomes, Record(i, o), UNCHANGED log
      PROVE  LogTypeOK' /\ SendsAreLatest' /\ WindowRespected'
  <2>1. now' = now /\ \E t : keys' = [keys EXCEPT ![i] = Digest(keys[i], t, o)]
    BY <1>4 DEF Record, RecordAt
  <2>2. \A j \in Key : keys'[j].sends = keys[j].sends
    BY <1>1, <2>1, DigestKeepsSends DEF TypeOK
  <2>. QED BY <1>1, <1>4, <2>1, <2>2, OtherStep DEF TypeOK, Instant
<1>5. ASSUME NEW i \in Key, Abandon(i), UNCHANGED log
      PROVE  LogTypeOK' /\ SendsAreLatest' /\ WindowRespected'
  <2>1. now' = now /\ keys' = keys
    BY <1>5 DEF Abandon
  <2>. QED BY <1>1, <1>5, <2>1, OtherStep DEF TypeOK, Instant
<1>6. CASE Snapshot /\ UNCHANGED log
  <2>1. /\ now' = now
        /\ \E t \in Reading :
              keys' = [i \in Key |-> Settle(Refresh(keys[i], t), t)]
    BY <1>6 DEF Snapshot, SnapshotAt, Reported
  <2>2. \E t \in Reading : \A i \in Key :
          keys'[i].sends = Settle(Refresh(keys[i], t), t).sends
    BY <2>1
  <2>. QED BY <1>1, <1>6, <2>1, <2>2, OtherStep DEF TypeOK, Instant
<1>7. CASE Tick /\ UNCHANGED log
  <2>1. now' = now + 1 /\ keys' = keys
    BY <1>7 DEF Tick
  <2>. QED BY <1>1, <1>7, <2>1, OtherStep DEF TypeOK, Instant
<1>8. CASE UNCHANGED pacingVars
  <2>1. now' = now /\ keys' = keys /\ UNCHANGED log
    BY <1>8 DEF pacingVars
  <2>. QED BY <1>1, <2>1, OtherStep DEF TypeOK, Instant
<1>. QED BY <1>2, <1>3, <1>4, <1>5, <1>6, <1>7, <1>8 DEF PacingNext

LEMMA PacingInvHolds == PacingSpec => []PacingInv
<1>1. PacingInit => PacingInv
  <2> SUFFICES ASSUME PacingInit PROVE PacingInv
    OBVIOUS
  <2>1. TypeOK
    BY NewKeyType, PoolAssumption
       DEF PacingInit, Init, TypeOK, Instant, NoInstant
  <2>2. \A i \in Key : log[i] = <<>> /\ keys[i].sends = <<>>
    BY DEF PacingInit, Init, NewKey
  <2>3. LogTypeOK
    BY DEF PacingInit, LogTypeOK
  <2>4. SendsAreLatest /\ WindowRespected
    <3>1. \A i \in Key : Len(log[i]) = 0 /\ Len(keys[i].sends) = 0
      BY <2>2
    <3>2. \A i \in Key : 1..Len(log[i]) = {}
      BY <3>1
    <3>3. ASSUME NEW i \in Key
          PROVE  Latest(keys[i].sends, log[i], now)
      <4>1. log[i] = <<>> /\ keys[i].sends = <<>>
        BY <2>2
      <4>2. Latest(<<>>, <<>>, now)
        BY DEF Latest
      <4>. QED BY <4>1, <4>2, Zenon
    <3>4. SendsAreLatest
      BY <3>3, LatestDef
    <3>. QED BY <3>2, <3>4, Zenon DEF WindowRespected
  <2>. QED BY <2>1, <2>3, <2>4 DEF PacingInv
<1>. QED BY <1>1, PacingStep, PTL DEF PacingSpec

\* The history has an instant and a rate limit for every lease.
THEOREM LogTypeCorrect == PacingSpec => []LogTypeOK
BY PacingInvHolds, PTL DEF PacingInv

\* The central promise of the README ("never sends more than the plan's
\* requests/second inside one second"), for any number of keys: of any limit+1
\* consecutive leases of a key the last comes at least a window after the first.
THEOREM WindowAlwaysRespected == PacingSpec => []WindowRespected
BY PacingInvHolds, PTL DEF PacingInv

\* The sends a key remembers are the last of its history and the forgotten ones
\* have left the window, so that counting them is counting the whole history.
THEOREM SendsAlwaysLatest == PacingSpec => []SendsAreLatest
BY PacingInvHolds, PTL DEF PacingInv

-----------------------------------------------------------------------------
\* The instance's copy of Cardinality is Cardinality.
LEMMA LimiterCardinality == \A S : Limiter!Cardinality(S) = Cardinality(S)
BY Zenon DEF Limiter!Cardinality, Cardinality

\* The sends of the window are among those the key remembers.
LEMMA RecentIsRemembered ==
  ASSUME NEW i \in Key, log[i] \in Histories, NEW s \in Sends, now \in Instant,
         Latest(s, log[i], now)
  PROVE  Cardinality(Limiter!Recent(i)) <= Len(s)
<1> DEFINE h == log[i]
           forgotten == Len(h) - Len(s)
<1>1. Len(h) \in Nat /\ Len(s) \in Nat /\ forgotten \in Nat
  BY DEF Latest, Histories, Sends
<1>2. Limiter!Recent(i) \subseteq (forgotten + 1)..Len(h)
  <2> SUFFICES ASSUME NEW n \in 1..Len(h), h[n].at + Window > now
               PROVE  n >= forgotten + 1
    BY <1>1 DEF Limiter!Recent
  <2>1. SUFFICES ASSUME n \in 1..forgotten PROVE FALSE
    BY <1>1
  <2>2. now - h[n].at >= Window
    BY <2>1 DEF Latest, Expired
  <2>3. h[n].at \in Int /\ now \in Int
    <3>1. h[n] \in [at: Instant, limit: RateLimits]
      BY ElementOfSeq, Zenon DEF Histories
    <3>. QED BY <3>1 DEF Instant
  <2>. QED BY <2>2, <2>3, WindowType
<1>3. /\ IsFiniteSet((forgotten + 1)..Len(h))
      /\ Cardinality((forgotten + 1)..Len(h)) = Len(s)
  <2> HIDE DEF h
  <2>1. forgotten + 1 \in Int /\ Len(h) \in Int
    BY <1>1
  <2>2. /\ IsFiniteSet((forgotten + 1)..Len(h))
        /\ Cardinality((forgotten + 1)..Len(h))
             = IF forgotten + 1 > Len(h) THEN 0 ELSE Len(h) - (forgotten + 1) + 1
    BY <2>1, FS_Interval
  <2>. QED BY <1>1, <2>2
<1>4. Cardinality(Limiter!Recent(i)) <= Cardinality((forgotten + 1)..Len(h))
  BY <1>2, <1>3, FS_Subset
<1>. QED BY <1>3, <1>4

\* The pool with its learning, pruning, parking and rotation implements the
\* plain sliding window of module SlidingWindow, one for each key.
THEOREM PoolImplementsSlidingWindow == PacingSpec => ImplementsSlidingWindow
<1>1. PacingInit => Limiter!Init
  BY DEF PacingInit, Init, Limiter!Init
<1>2. PacingInv /\ [PacingNext]_pacingVars => [Limiter!Next]_(Limiter!vars)
  <2> SUFFICES ASSUME PacingInv, [PacingNext]_pacingVars
               PROVE  Limiter!Next \/ UNCHANGED <<now, log>>
    BY DEF Limiter!vars
  <2> USE DEF PacingInv
  <2>1. ASSUME NEW exclude \in SUBSET Key, NEW i \in Key, PacedLease(exclude, i)
        PROVE  Limiter!Next
    <3> DEFINE k == Examined(exclude, now)[i]
    <3>1. /\ now' = now /\ i \in Usable(exclude, now)
          /\ log' = [log EXCEPT ![i] = Append(@, Send(i))]
      BY <2>1 DEF PacedLease, Lease, Best
    <3>2. k \in KeyRecord /\ now \in Instant /\ log[i] \in Histories
      BY ExaminedType DEF TypeOK, LogTypeOK, Histories
    <3>3. k.sends \in Sends /\ k.sec_limit \in RateLimits
      BY <3>2 DEF KeyRecord, Sends
    <3>4. Latest(k.sends, log[i], now) /\ k.sec_limit = keys[i].sec_limit
      BY ExaminedKeepsLatest
    <3>5. Cardinality(Limiter!Recent(i)) <= Len(k.sends)
      BY <3>2, <3>3, <3>4, RecentIsRemembered
    <3>6. Len(k.sends) < k.sec_limit
      BY <3>1, UsableHasRoom
    <3>7. IsFiniteSet(Limiter!Recent(i))
      <4>1. Len(log[i]) \in Nat
        BY <3>2 DEF Histories
      <4>2. IsFiniteSet(1..Len(log[i])) /\ Limiter!Recent(i) \subseteq 1..Len(log[i])
        BY <4>1, FS_Interval DEF Limiter!Recent
      <4>. QED BY <4>2, FS_Subset
    <3>8. Cardinality(Limiter!Recent(i)) < keys[i].sec_limit
      <4>1. Cardinality(Limiter!Recent(i)) \in Nat
        BY <3>7, FS_CardinalityType
      <4>2. Len(k.sends) \in Nat /\ k.sec_limit \in Nat
        BY <3>3 DEF Sends, RateLimits
      <4> HIDE DEF k
      <4>. QED BY <3>4, <3>5, <3>6, <4>1, <4>2
    <3>9. Limiter!Send(i)
      <4>1. log' = [log EXCEPT ![i] = Append(@, [at |-> now,
                                                 limit |-> keys[i].sec_limit])]
        BY <3>1 DEF Send
      <4>2. keys[i].sec_limit \in RateLimits /\ now' = now
        BY <3>1, <3>3, <3>4
      <4>3. \E limit \in RateLimits :
               /\ Limiter!Cardinality(Limiter!Recent(i)) < limit
               /\ log' = [log EXCEPT ![i] = Append(@, [at |-> now, limit |-> limit])]
               /\ UNCHANGED now
        <5>1. Limiter!Cardinality(Limiter!Recent(i)) < keys[i].sec_limit
          BY <3>8, LimiterCardinality
        <5>. QED BY <5>1, <4>1, <4>2, Zenon
      <4>. QED BY <4>3 DEF Limiter!Send
    <3>. QED BY <3>9 DEF Limiter!Next
  <2>2. CASE Tick /\ UNCHANGED log
    <3>1. now \in Nat
      BY DEF TypeOK, Instant
    <3>2. Limiter!Wait
      BY <2>2, <3>1 DEF Tick, Limiter!Wait
    <3>. QED BY <3>2 DEF Limiter!Next
  <2>3. CASE UNCHANGED <<now, log>>
    BY <2>3
  <2>. QED BY <2>1, <2>2, <2>3
           DEF PacingNext, pacingVars, Refuse, Record, RecordAt, Abandon, Snapshot, SnapshotAt
<1>. QED BY <1>1, <1>2, PacingInvHolds, PTL
        DEF PacingSpec, ImplementsSlidingWindow, Limiter!Spec
=============================================================================
