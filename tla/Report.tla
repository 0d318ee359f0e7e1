------------------------------- MODULE Report --------------------------------
(***************************************************************************)
(* What the proxy says about its pool: the states and figures of           *)
(* Pool::snapshot, as /proxy/status prints them, /proxy/health sums them   *)
(* up and every proxied response carries them in its rate-limit headers.   *)
(*                                                                         *)
(* A report is read after the pool has moved on.  The last one is kept     *)
(* here, with which keys were leased and which had a result since, to      *)
(* compare what it said with what happens.                                 *)
(***************************************************************************)
EXTENDS Pool

VARIABLES shown,    \* the last report
          leased,   \* keys leased since it was made
          answered  \* keys with a result recorded since

reportVars == <<now, keys, inflight, shown, leased, answered>>

\* Mutant of State: the hold is forgotten.
StateUnheld(k) == CASE k.health = "Disabled" -> "disabled"
                    [] k.health = "Exhausted" -> "exhausted"
                    [] OTHER -> IF Len(k.sends) < k.sec_limit THEN "ok" ELSE "busy"

\* `hold_until' is NoInstant once the hold has elapsed, of a settled key.
State(k) == CASE k.health = "Disabled" -> "disabled"
              [] k.health = "Exhausted" -> "exhausted"
              [] k.health = "Ok" /\ k.hold_until # NoInstant -> "cooling"
              [] OTHER -> IF Available(k) THEN "ok" ELSE "busy"

\* next_slot_in_ms, as an instant.
NextSlot(k, t) == IF Available(k) THEN t ELSE EligibleAt(k)

\* The sum of the values that are there, Absent if none is.
Total(figure) ==
    LET there == {i \in Key : figure[i] # Absent}
    IN  IF there = {} THEN Absent ELSE MapThenSumSet(LAMBDA i : figure[i], there)

\* Of a monthly value in the headers Absent is "?", and 0 means no cap.
HeaderMonth(ks, figure) ==
    IF \E i \in Key : ks[i].health = "Ok" /\ MonthUnlimited(ks[i]) THEN 0
    ELSE Total([i \in Key |-> IF MonthUnlimited(ks[i]) THEN Absent ELSE figure[i]])

\* Mutant of HealthyKeys: the keys as they were before the snapshot.
HealthyKeysUnrefreshed(t) == {i \in Key : keys[i].health = "Ok"}

HealthyKeys(t) == {i \in Key : Reported(t)[i].health = "Ok"}

\* /proxy/health: 200 or 503.
HealthStatus(t) == IF HealthyKeys(t) # {} THEN 200 ELSE 503

ReportAt(t) ==
    LET ks == Reported(t)
    IN  [status    |-> HealthStatus(t),
         state     |-> [i \in Key |-> State(ks[i])],
         next      |-> [i \in Key |-> NextSlot(ks[i], t)],
         limit     |-> <<MapThenSumSet(LAMBDA i : Max2(1, ks[i].sec_limit), HealthyKeys(t)),
                         HeaderMonth(ks, [i \in Key |-> ks[i].month_limit])>>,
         remaining |-> <<Slots(t),
                         HeaderMonth(ks, [i \in Key |-> ks[i].month_remaining])>>]

-----------------------------------------------------------------------------
ReportInit == Init /\ shown = ReportAt(now) /\ leased = {} /\ answered = {}

Show == \E t \in Reading : /\ SnapshotAt(t)
                           /\ shown' = ReportAt(t)
                           /\ leased' = {} /\ answered' = {}

ReportNext ==
    \/ Show
    \/ /\ UNCHANGED shown
       /\ \/ \E exclude \in SUBSET Key, i \in Key :
                 Lease(exclude, i) /\ leased' = leased \cup {i} /\ UNCHANGED answered
          \/ \E i \in Key, o \in Outcomes :
                 Record(i, o) /\ answered' = answered \cup {i} /\ UNCHANGED leased
          \/ /\ \/ \E exclude \in SUBSET Key : Refuse(exclude)
                \/ \E i \in Key : Abandon(i)
                \/ Tick
             /\ UNCHANGED <<leased, answered>>

ReportSpec == ReportInit /\ [][ReportNext]_reportVars

-----------------------------------------------------------------------------
(* Properties                                                              *)

\* A key reported "ok" can be leased until it is, or until one of its results
\* comes in: neither time nor what other keys go through takes the slot away.
OkIsKept ==
    \A i \in Key \ (leased \cup answered) :
        shown.state[i] = "ok" => Available(Reported(now)[i])

\* A key is not leased before the next slot it was reported with, unless one of
\* its results has come in since and, say, raised its limit: a client that
\* waits for the slot it was told of does not wait for less than it could have.
NextSlotIsKept ==
    [][\A i \in Key \ answered :
         inflight'[i] > inflight[i] => now >= shown.next[i]]_reportVars

\* Health is degraded exactly when a request that came now would be told that
\* no key is usable (README: 200 while at least one key is usable, else 503).
HealthMatchesAcquire ==
    HealthStatus(now) = 200 <=> AnyHealthy({}, now)
=============================================================================
