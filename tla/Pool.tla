-------------------------------- MODULE Pool ---------------------------------
(***************************************************************************)
(* The key pool (src/pool.rs, Pool): the keys behind one mutex, the choice *)
(* of the key for the next request and the digestion of what came back.    *)
(*                                                                         *)
(* Every method that takes the mutex is one action, at the moment it holds *)
(* it.  The clock is read before: a result or a report may be digested at  *)
(* an instant up to CLOCK_LAG old, older than what others did meanwhile.   *)
(* Selections come one after the other through the turnstile; their        *)
(* instant is the one at which their step is taken.  Requests are only     *)
(* known by the leases they hold: inflight[i] requests have been sent with *)
(* key i and not yet recorded, so any number of them overlap, and their    *)
(* results come back in any order, or never (a client that disconnects     *)
(* drops its request).  The set of keys a caller excludes is arbitrary     *)
(* here; module Proxy composes the pool with the requests that use it.     *)
(***************************************************************************)
EXTENDS KeyState, FiniteSets

CONSTANTS N,          \* number of keys
          Caps,       \* monthly_cap_override of each key
          Outcomes,   \* the results a request may have
          CLOCK_LAG,  \* longest wait for the mutex after reading the clock
          MaxTime,    \* bound on the clock
          MaxInflight \* bound on the requests in flight with one key

Key == 1..N

ASSUME PoolAssumption == /\ N \in Nat \ {0}
                         /\ Caps \in [Key -> OptNat]
                         /\ Outcomes \subseteq Outcome
                         /\ {CLOCK_LAG, MaxTime} \subseteq Nat
                         /\ MaxInflight \in Nat

VARIABLES now,      \* the monotonic clock
          keys,     \* the KeyState of each key
          inflight  \* requests sent with each key and not yet recorded

vars == <<now, keys, inflight>>

TypeOK == /\ now \in Instant
          /\ keys \in [Key -> KeyRecord]
          /\ inflight \in [Key -> Nat]

Init == /\ now = 1
        /\ keys = [i \in Key |-> NewKey(Caps[i])]
        /\ inflight = [i \in Key |-> 0]

-----------------------------------------------------------------------------
(* Pool::try_acquire at instant t, for a request that has tried `exclude'. *)

Refreshed(t) == [i \in Key |-> Refresh(keys[i], t)]

\* Mutant of Considered: the excluded keys are never looked at again.
ConsideredOnce(exclude, t) == IF exclude = Key THEN Key ELSE Key \ exclude

\* Mutant of Considered: the second look does not wait for the healthy keys.
ConsideredEagerly(exclude, t) ==
    IF \E i \in Key \ exclude : Available(Settle(Refreshed(t)[i], t))
    THEN Key \ exclude ELSE Key

\* Excluded keys are considered only when no other key is healthy.
Considered(exclude, t) ==
    IF \E i \in Key \ exclude : Refreshed(t)[i].health = "Ok"
    THEN Key \ exclude ELSE Key

\* The keys as the selection leaves them: all refreshed, and the considered
\* ones settled by availability.
Examined(exclude, t) ==
    [i \in Key |-> IF i \in Considered(exclude, t)
                   THEN Settle(Refreshed(t)[i], t) ELSE Refreshed(t)[i]]

Usable(exclude, t) ==
    {i \in Considered(exclude, t) : Available(Examined(exclude, t)[i])}

\* Least recently used first, then most monthly quota left, then position.
Better(k, i, l, j) ==
    \/ k.last_used < l.last_used
    \/ /\ k.last_used = l.last_used
       /\ \/ MonthRemainingForRanking(k) > MonthRemainingForRanking(l)
          \/ MonthRemainingForRanking(k) = MonthRemainingForRanking(l) /\ i < j

Best(exclude, t, i) ==
    /\ i \in Usable(exclude, t)
    /\ \A j \in Usable(exclude, t) \ {i} :
          Better(Examined(exclude, t)[i], i, Examined(exclude, t)[j], j)

AnyHealthy(exclude, t) ==
    \E i \in Considered(exclude, t) : Refreshed(t)[i].health = "Ok"

\* Mutant of NextAt: waits for the last of the keys instead of the first.
NextAtLast(exclude, t) ==
    Max({EligibleAt(Examined(exclude, t)[i]) : i \in Considered(exclude, t)})

\* Of a refused caller: when to try again, or when the first key comes back.
NextAt(exclude, t) ==
    Min({EligibleAt(Examined(exclude, t)[i]) : i \in Considered(exclude, t)})

-----------------------------------------------------------------------------
\* The best key is leased: its send is recorded at once.
Lease(exclude, i) ==
    /\ inflight[i] < MaxInflight
    /\ Best(exclude, now, i)
    /\ keys' = [Examined(exclude, now) EXCEPT
                  ![i].sends = Append(@, now), ![i].last_used = now]
    /\ inflight' = [inflight EXCEPT ![i] = @ + 1]
    /\ UNCHANGED now

\* No key now: Next::At when a considered key is healthy, else Unavailable.
Refuse(exclude) ==
    /\ Usable(exclude, now) = {}
    /\ keys' = Examined(exclude, now)
    /\ UNCHANGED <<now, inflight>>

TryAcquire(exclude) == Refuse(exclude) \/ \E i \in Key : Lease(exclude, i)

\* What the clock may have shown to the step that holds the mutex now.
Reading == {t \in 1..now : now - t <= CLOCK_LAG}

\* Pool::record at instant t: the result of a request sent with key i.
RecordAt(i, o, t) ==
    /\ inflight[i] > 0
    /\ keys' = [keys EXCEPT ![i] = Digest(@, t, o)]
    /\ inflight' = [inflight EXCEPT ![i] = @ - 1]
    /\ UNCHANGED now

Record(i, o) == \E t \in Reading : RecordAt(i, o, t)

\* The client went away: the request is dropped and nothing is recorded.
Abandon(i) ==
    /\ inflight[i] > 0
    /\ inflight' = [inflight EXCEPT ![i] = @ - 1]
    /\ UNCHANGED <<now, keys>>

\* Pool::snapshot at instant t refreshes and settles every key on its way.
Reported(t) == [i \in Key |-> Settle(Refresh(keys[i], t), t)]

SnapshotAt(t) == keys' = Reported(t) /\ UNCHANGED <<now, inflight>>

Snapshot == \E t \in Reading : SnapshotAt(t)

Tick == /\ now < MaxTime
        /\ now' = now + 1
        /\ UNCHANGED <<keys, inflight>>

Next == \/ \E exclude \in SUBSET Key : TryAcquire(exclude)
        \/ \E i \in Key : \/ \E o \in Outcomes : Record(i, o)
                          \/ Abandon(i)
        \/ Snapshot
        \/ Tick

Spec == Init /\ [][Next]_vars

-----------------------------------------------------------------------------
(* Properties                                                              *)

\* What a refusal tells the caller is exact as far as it can be: until the
\* instant it names, no key could have been leased to that caller, provided
\* that nothing else happened meanwhile.  So a request neither sleeps past a
\* free slot (Pool::acquire, sleep_until) nor is rejected as saturated when a
\* slot would have come free by its deadline.
NoEarlierSlot ==
    \A exclude \in SUBSET Key :
        Usable(exclude, now) = {} =>
            \A t \in now..(NextAt(exclude, now) - 1) : Usable(exclude, t) = {}

\* "No key is usable at all" is said only when every key of the pool is parked,
\* the keys the caller excluded included, and the instant given with it is
\* exactly when the first of them comes back.
UnavailableMeansAllParked ==
    \A exclude \in SUBSET Key :
        ~AnyHealthy(exclude, now) =>
            /\ \A i \in Key : keys[i].health # "Ok" /\ keys[i].until > now
            /\ \E i \in Key : keys[i].until = NextAt(exclude, now)
            /\ \A i \in Key : keys[i].until >= NextAt(exclude, now)

\* The slots a status report counts (snapshot, slots_available_now) are exactly
\* the leases that can be taken one after the other at that instant: none is
\* given when there are no slots, and each one given takes one of them.
Slots(t) == MapThenSumSet(LAMBDA i : FreeSlots(Reported(t)[i]), Key)

SlotsAreReal ==
    /\ [](Slots(now) = 0 <=> Usable({}, now) = {})
    /\ [][(\E i \in Key : inflight'[i] > inflight[i])
            => Slots(now)' = Slots(now) - 1]_vars

\* A key that is parked, and with which no request is in flight, stays parked
\* as it is until its time has come: no selection, no report and no result of
\* another key touches it.
QuietParkHolds ==
    [][\A i \in Key :
         keys[i].health # "Ok" /\ keys[i].until > now /\ inflight[i] = 0
           => /\ keys'[i].health = keys[i].health
              /\ keys'[i].until = keys[i].until
              /\ inflight'[i] = 0]_vars

-----------------------------------------------------------------------------
(* Statements of the documentation that the code does not keep.            *)

\* README, "Monthly quota": a key whose quota hits zero is parked until the
\* reset time Brave reported.  So no key is leased while it remembers that the
\* month is used up and its reset is still to come.
ParkedUntilReset ==
    [][\A i \in Key :
         inflight'[i] > inflight[i] =>
            ~ /\ keys[i].month_remaining = 0 /\ keys[i].month_limit # 0
              /\ keys[i].month_reset_at > now]_vars

\* README, BRAVE_MONTHLY_LIMITS: a hard monthly cap per key enforced locally.
\* So the requests a key has served stay within its cap.
CapIsHard == \A i \in Key : keys[i].cap # Absent => keys[i].ok <= keys[i].cap
=============================================================================
