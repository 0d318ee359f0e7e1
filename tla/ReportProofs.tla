----------------------------- MODULE ReportProofs -----------------------------
(***************************************************************************)
(* Theorems about what the proxy says of its pool: that a slot it reports  *)
(* is there, that none comes free before the instant it reports, and that  *)
(* it is healthy when a request would find a healthy key.                  *)
(***************************************************************************)
EXTENDS Report, PoolProofs

\* OkIsKept, in terms of a look at the key.
OkInv ==
    \A i \in Key \ (leased \cup answered) :
        shown.state[i] = "ok" => Available(Look(keys[i], now))

\* Of a key without a result since the report: it has no slot before the instant
\* reported, by itself or by what other keys go through.
SlotInv ==
    \A i \in Key \ answered :
        /\ shown.next[i] \in Nat
        /\ \/ shown.next[i] <= now
           \/ LET k == Look(keys[i], now)
              IN  ~Available(k) /\ shown.next[i] <= EligibleAt(k)

\* The inductive invariant.
ReportInv == TypeOK /\ OkInv /\ SlotInv

-----------------------------------------------------------------------------
\* A report is made of looks.
LEMMA ReportIsLooks ==
  ASSUME NEW t, NEW i \in Key
  PROVE  /\ ReportAt(t).state[i] = State(Look(keys[i], t))
         /\ ReportAt(t).next[i] = NextSlot(Look(keys[i], t), t)
<1>1. Reported(t)[i] = Look(keys[i], t)
  BY ReportedLooks
<1>2. ReportAt(t).state = [j \in Key |-> State(Reported(t)[j])]
  BY Zenon DEF ReportAt
<1>3. ReportAt(t).next = [j \in Key |-> NextSlot(Reported(t)[j], t)]
  BY Zenon DEF ReportAt
<1>. QED BY <1>1, <1>2, <1>3

\* What a report made at t says is true of the keys it leaves behind, now.
LEMMA ReportIsTrue ==
  ASSUME TypeOK, NEW t \in Instant, t <= now, NEW i \in Key
  PROVE  /\ ReportAt(t).state[i] = "ok" => Available(Look(keys[i], now))
         /\ ReportAt(t).next[i] \in Nat
         /\ \/ ReportAt(t).next[i] <= now
            \/ /\ ~Available(Look(keys[i], now))
               /\ ReportAt(t).next[i] <= EligibleAt(Look(keys[i], now))
<1>1. keys[i] \in KeyRecord /\ now \in Instant /\ now \in Nat /\ t \in Nat
  BY DEF TypeOK, Instant
<1> DEFINE k == Look(keys[i], t)
<1>2. ReportAt(t).state[i] = State(k) /\ ReportAt(t).next[i] = NextSlot(k, t)
  BY ReportIsLooks
<1>3. k \in KeyRecord
  BY <1>1, LookType
<1>4. State(k) = "ok" => Available(Look(keys[i], now))
  <2> SUFFICES ASSUME State(k) = "ok" PROVE Available(Look(keys[i], now))
    OBVIOUS
  <2>1. Available(k)
    <3> HIDE DEF k
    <3>. QED BY DEF State
  <2>. QED BY <1>1, <2>1, AvailableStays
<1>5. CASE Available(k)
  <2>1. NextSlot(k, t) = t
    BY <1>5 DEF NextSlot
  <2>. QED BY <1>1, <1>2, <1>4, <2>1
<1>6. CASE ~Available(k)
  <2>1. NextSlot(k, t) = EligibleAt(k) /\ EligibleAt(k) \in Nat
    BY <1>3, <1>6, EligibleType DEF NextSlot
  <2>2. CASE EligibleAt(k) <= now
    BY <1>2, <1>4, <2>1, <2>2
  <2>3. CASE now < EligibleAt(k)
    <3>1. Look(keys[i], now) = k
      BY <1>1, <1>6, <2>3, WaitingStays
    <3> HIDE DEF k
    <3>2. NextSlot(k, t) <= EligibleAt(k)
      BY <2>1
    <3>. QED BY <1>2, <1>4, <1>6, <2>1, <3>1, <3>2
  <2>. QED BY <1>1, <2>1, <2>2, <2>3
<1>. QED BY <1>5, <1>6

\* A step that is neither a lease nor a result of key i at most looks at it.
LEMMA KeyIsLookedAt ==
  ASSUME TypeOK, NEW i \in Key,
         \/ \E exclude \in SUBSET Key, j \in Key \ {i} : Lease(exclude, j)
         \/ \E j \in Key \ {i}, o \in Outcomes : Record(j, o)
         \/ \E exclude \in SUBSET Key : Refuse(exclude)
         \/ \E j \in Key : Abandon(j)
         \/ \E t \in Reading : SnapshotAt(t)
         \/ Tick
         \/ UNCHANGED vars
  PROVE  \A u \in Instant : now <= u => Look(keys'[i], u) = Look(keys[i], u)
<1>1. /\ now \in Instant /\ now \in Nat /\ now <= now
      /\ keys \in [Key -> KeyRecord] /\ keys[i] \in KeyRecord
  BY DEF TypeOK, Instant
<1>2. ASSUME NEW t \in Instant, t <= now,
             keys'[i] \in {keys[i], Refresh(keys[i], t), Look(keys[i], t)},
             NEW u \in Instant, now <= u
      PROVE  Look(keys'[i], u) = Look(keys[i], u)
  <2>1. t <= u
    BY <1>1, <1>2 DEF Instant
  <2>. QED BY <1>1, <1>2, <2>1, LookTwice
<1>3. ASSUME NEW exclude \in SUBSET Key, NEW j \in Key \ {i}, Lease(exclude, j)
      PROVE  keys'[i] \in {keys[i], Refresh(keys[i], now), Look(keys[i], now)}
  <2>1. Examined(exclude, now) \in [Key -> KeyRecord]
    BY <1>1, ExaminedType
  <2>2. keys'[i] = Examined(exclude, now)[i]
    BY <1>3, <2>1 DEF Lease
  <2>. QED BY <2>2, ExaminedLooks
<1>4. ASSUME NEW exclude \in SUBSET Key, Refuse(exclude)
      PROVE  keys'[i] \in {keys[i], Refresh(keys[i], now), Look(keys[i], now)}
  BY <1>4, ExaminedLooks DEF Refuse
<1>5. ASSUME \/ \E j \in Key \ {i}, o \in Outcomes : Record(j, o)
             \/ \E j \in Key : Abandon(j)
             \/ Tick \/ UNCHANGED vars
      PROVE  keys'[i] = keys[i]
  BY <1>1, <1>5 DEF Record, RecordAt, Abandon, Tick, vars
<1>6. ASSUME NEW t \in Reading, SnapshotAt(t)
      PROVE  t \in Instant /\ t <= now /\ keys'[i] = Look(keys[i], t)
  BY <1>1, <1>6, ReadingType, ReportedLooks DEF SnapshotAt
<1>. QED BY <1>1, <1>2, <1>3, <1>4, <1>5, <1>6

\* To the keys, reports are nothing but a use of the pool.
LEMMA StepUsesPool ==
  ASSUME [ReportNext]_reportVars
  PROVE  [Next]_vars
<1>1. CASE Show
  BY <1>1 DEF Show, Snapshot, Next
<1>2. CASE UNCHANGED reportVars
  BY <1>2 DEF reportVars, vars
<1>. QED BY <1>1, <1>2, Zenon DEF ReportNext, Next, TryAcquire

\* Whatever is proved of every behaviour of Pool holds of the pool reported on.
THEOREM ReportUsesPool == ReportSpec => Spec
<1>1. ReportInit => Init
  BY DEF ReportInit
<1>2. [ReportNext]_reportVars => [Next]_vars
  BY StepUsesPool
<1>. QED BY <1>1, <1>2, PTL DEF ReportSpec, Spec

\* A lease is given with a key that is available.
LEMMA LeaseOfAvailable ==
  ASSUME NEW exclude, NEW i, Lease(exclude, i)
  PROVE  Available(Look(keys[i], now))
BY SelectionIsLooks DEF Lease, Best

LEMMA ReportInvInit == ReportInit => ReportInv
<1> SUFFICES ASSUME ReportInit PROVE ReportInv
  OBVIOUS
<1>1. TypeOK
  BY NewKeyType, PoolAssumption
     DEF ReportInit, Init, TypeOK, Instant, NoInstant
<1>2. now \in Instant /\ now <= now /\ shown = ReportAt(now)
  BY <1>1 DEF TypeOK, Instant, ReportInit
<1>3. OkInv
  BY <1>1, <1>2, ReportIsTrue DEF OkInv
<1>4. SlotInv
  BY <1>1, <1>2, ReportIsTrue DEF SlotInv
<1>. QED BY <1>1, <1>3, <1>4 DEF ReportInv

LEMMA ShowKeepsInv ==
  ASSUME ReportInv, Show
  PROVE  OkInv' /\ SlotInv'
<1>1. PICK t \in Reading : /\ SnapshotAt(t) /\ shown' = ReportAt(t)
                          /\ leased' = {} /\ answered' = {}
  BY DEF Show
<1>2. /\ TypeOK /\ now \in Instant /\ now <= now /\ t \in Instant /\ t <= now
  BY ReadingType DEF ReportInv, TypeOK, Instant
<1>3. now' = now
  BY <1>1 DEF SnapshotAt
<1>4. ASSUME NEW i \in Key
      PROVE  Look(keys'[i], now) = Look(keys[i], now)
  BY <1>1, <1>2, KeyIsLookedAt
<1>5. ASSUME NEW i \in Key
      PROVE  /\ shown'.state[i] = "ok" => Available(Look(keys'[i], now))
             /\ shown'.next[i] \in Nat
             /\ \/ shown'.next[i] <= now
                \/ /\ ~Available(Look(keys'[i], now))
                   /\ shown'.next[i] <= EligibleAt(Look(keys'[i], now))
  BY <1>1, <1>2, <1>4, ReportIsTrue
<1>. QED BY <1>3, <1>5 DEF OkInv, SlotInv

\* What the other steps do to a key without a result since the report.
LEMMA OtherStepsKeepInv ==
  ASSUME ReportInv, [ReportNext]_reportVars, ~Show
  PROVE  OkInv' /\ SlotInv'
<1>1. /\ now \in Instant /\ now \in Nat /\ now <= now
      /\ \A i \in Key : keys[i] \in KeyRecord
  BY DEF ReportInv, TypeOK, Instant
<1>2. /\ shown' = shown
      /\ leased \subseteq leased' /\ answered \subseteq answered'
  BY DEF ReportNext, reportVars
<1>3. now' = now \/ Tick
  BY DEF ReportNext, Lease, Record, RecordAt, Refuse, Abandon, reportVars
<1>4. now' \in Instant /\ now' \in Nat /\ now <= now'
  BY <1>1, <1>3 DEF Tick, Instant, NoInstant
<1>5. ASSUME NEW i \in Key \ (leased' \cup answered')
      PROVE  \A u \in Instant : now <= u => Look(keys'[i], u) = Look(keys[i], u)
  <2>1. \/ \E exclude \in SUBSET Key, j \in Key \ {i} : Lease(exclude, j)
        \/ \E j \in Key \ {i}, o \in Outcomes : Record(j, o)
        \/ \E exclude \in SUBSET Key : Refuse(exclude)
        \/ \E j \in Key : Abandon(j)
        \/ Tick
        \/ UNCHANGED vars
    BY <1>5, Zenon DEF ReportNext, reportVars, vars
  <2>. QED BY <2>1, KeyIsLookedAt DEF ReportInv
<1>6. OkInv'
  <2> SUFFICES ASSUME NEW i \in Key \ (leased' \cup answered'),
                      shown'.state[i] = "ok"
               PROVE  Available(Look(keys'[i], now'))
    BY DEF OkInv
  <2>1. Available(Look(keys[i], now))
    BY <1>2 DEF ReportInv, OkInv
  <2>2. Available(Look(keys[i], now'))
    BY <1>1, <1>4, <2>1, AvailableStays
  <2>. QED BY <1>4, <1>5, <2>2
<1>7. SlotInv'
  <2> SUFFICES ASSUME NEW i \in Key \ answered'
               PROVE  /\ shown.next[i] \in Nat
                      /\ \/ shown.next[i] <= now'
                         \/ /\ ~Available(Look(keys'[i], now'))
                            /\ shown.next[i] <= EligibleAt(Look(keys'[i], now'))
    BY <1>2 DEF SlotInv
  <2>1. /\ shown.next[i] \in Nat
        /\ \/ shown.next[i] <= now
           \/ /\ ~Available(Look(keys[i], now))
              /\ shown.next[i] <= EligibleAt(Look(keys[i], now))
    BY <1>2 DEF ReportInv, SlotInv
  <2>2. CASE shown.next[i] <= now
    BY <1>1, <1>4, <2>1, <2>2
  <2>3. CASE /\ now' < shown.next[i] /\ ~Available(Look(keys[i], now))
             /\ shown.next[i] <= EligibleAt(Look(keys[i], now))
    <3>1. now' < EligibleAt(Look(keys[i], now))
      <4>1. EligibleAt(Look(keys[i], now)) \in Nat
        BY <1>1, <2>3, LookType, EligibleType
      <4>. QED BY <1>4, <2>1, <2>3, <4>1
    <3>2. Look(keys[i], now') = Look(keys[i], now)
      BY <1>1, <1>4, <2>3, <3>1, WaitingStays
    <3>3. \A exclude : ~Lease(exclude, i)
      BY <2>3, LeaseOfAvailable
    <3>4. \/ \E exclude \in SUBSET Key, j \in Key \ {i} : Lease(exclude, j)
          \/ \E j \in Key \ {i}, o \in Outcomes : Record(j, o)
          \/ \E exclude \in SUBSET Key : Refuse(exclude)
          \/ \E j \in Key : Abandon(j)
          \/ Tick
          \/ UNCHANGED vars
      BY <3>3, Zenon DEF ReportNext, reportVars, vars
    <3>5. Look(keys'[i], now') = Look(keys[i], now')
      BY <1>4, <3>4, KeyIsLookedAt DEF ReportInv
    <3>. QED BY <2>1, <2>3, <3>2, <3>5
  <2>. QED BY <1>4, <2>1, <2>2, <2>3
<1>. QED BY <1>6, <1>7

LEMMA ReportInvStep == ReportInv /\ [ReportNext]_reportVars => ReportInv'
<1> SUFFICES ASSUME ReportInv, [ReportNext]_reportVars PROVE ReportInv'
  OBVIOUS
<1>1. TypeOK'
  BY StepUsesPool, TypeStep DEF ReportInv
<1>. QED BY <1>1, ShowKeepsInv, OtherStepsKeepInv DEF ReportInv

LEMMA ReportInvHolds == ReportSpec => []ReportInv
BY ReportInvInit, ReportInvStep, PTL DEF ReportSpec

\* A key reported as "ok" can be leased until it is, or until one of its results
\* comes in (Pool::snapshot, state).
THEOREM OkIsAlwaysKept == ReportSpec => []OkIsKept
<1>1. OkInv => OkIsKept
  BY ReportedLooks DEF OkInv, OkIsKept
<1>. QED BY <1>1, ReportInvHolds, PTL DEF ReportInv

\* A key is not leased before the slot it was reported with, unless one of its
\* results has come in since (Pool::snapshot, next_slot_in_ms).
THEOREM NextSlotIsAlwaysKept == ReportSpec => NextSlotIsKept
<1>1. ASSUME ReportInv, [ReportNext]_reportVars, NEW i \in Key \ answered,
             inflight'[i] > inflight[i]
      PROVE  now >= shown.next[i]
  <2>1. inflight \in [Key -> Nat] /\ inflight[i] \in Nat /\ now \in Nat
    BY <1>1 DEF ReportInv, TypeOK, Instant
  <2>2. \E exclude : Lease(exclude, i)
    <3>1. ASSUME NEW exclude, NEW j \in Key, Lease(exclude, j) PROVE j = i
      BY <1>1, <2>1, <3>1 DEF Lease
    <3>2. ASSUME NEW j \in Key, NEW o \in Outcomes, Record(j, o) PROVE FALSE
      BY <1>1, <2>1, <3>2 DEF Record, RecordAt
    <3>3. ASSUME NEW j \in Key, Abandon(j) PROVE FALSE
      BY <1>1, <2>1, <3>3 DEF Abandon
    <3>4. ASSUME UNCHANGED inflight PROVE FALSE
      BY <1>1, <2>1, <3>4
    <3>5. CASE Show
      BY <3>4, <3>5 DEF Show, SnapshotAt
    <3>6. CASE (\E exclude \in SUBSET Key : Refuse(exclude)) \/ Tick
                \/ UNCHANGED reportVars
      BY <3>4, <3>6 DEF Refuse, Tick, reportVars
    <3>. QED BY <1>1, <3>1, <3>2, <3>3, <3>5, <3>6 DEF ReportNext
  <2>3. Available(Look(keys[i], now))
    BY <2>2, LeaseOfAvailable
  <2>4. shown.next[i] \in Nat /\ shown.next[i] <= now
    BY <1>1, <2>3 DEF ReportInv, SlotInv
  <2>. QED BY <2>1, <2>4
<1>2. ReportInv /\ [ReportNext]_reportVars =>
        [\A i \in Key \ answered :
           inflight'[i] > inflight[i] => now >= shown.next[i]]_reportVars
  BY <1>1
<1>. QED BY <1>2, ReportInvHolds, PTL DEF ReportSpec, NextSlotIsKept

\* Health is degraded exactly when a request that came now would be told that no
\* key is usable (health, Pool::snapshot, Pool::try_acquire).
THEOREM HealthAlwaysMatchesAcquire == ReportSpec => []HealthMatchesAcquire
<1>1. ASSUME TypeOK PROVE HealthMatchesAcquire
  <2>1. now \in Instant /\ \A i \in Key : keys[i] \in KeyRecord
    BY <1>1 DEF TypeOK
  <2>2. \A i \in Key : Reported(now)[i].health = Refresh(keys[i], now).health
    BY <2>1, ReportedLooks, RefreshType, SettleKeepsHealth DEF Look
  <2>3. Considered({}, now) = Key
    <3>1. Key \ {} = Key
      OBVIOUS
    <3>. QED BY <3>1, SelectionIsLooks
  <2>4. \A i \in Key : Refreshed(now)[i] = Refresh(keys[i], now)
    BY DEF Refreshed
  <2>5. AnyHealthy({}, now) <=> \E i \in Key : Refresh(keys[i], now).health = "Ok"
    BY <2>3, <2>4 DEF AnyHealthy
  <2>6. HealthyKeys(now) # {} <=> \E i \in Key : Refresh(keys[i], now).health = "Ok"
    BY <2>2 DEF HealthyKeys
  <2>. QED BY <2>5, <2>6 DEF HealthMatchesAcquire, HealthStatus
<1>. QED BY <1>1, ReportInvHolds, PTL DEF ReportInv
=============================================================================
