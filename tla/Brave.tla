-------------------------------- MODULE Brave --------------------------------
(***************************************************************************)
(* The pool against the Brave it was written for, as the end-to-end test   *)
(* imitates it (scripts/mock_brave.py): a sliding window of one second and *)
(* a monthly quota for each key, whose state every answer reports in its   *)
(* headers.  Requests take up to JITTER to reach Brave, their answers any  *)
(* time to come back, both in any order; a connection may break before or  *)
(* after Brave has counted the request, the proxy may stop waiting, and    *)
(* its client may leave, while the request goes on to Brave.  The process  *)
(* may end at any moment, by a signal or by a panic, which aborts it; it   *)
(* is started again (compose.yml) with nothing of what it knew.            *)
(***************************************************************************)
EXTENDS Pool

CONSTANTS RPS,       \* MOCK_RPS, the plan's requests per second
          MONTH,     \* MOCK_MONTH, the plan's requests per month, 0 for no cap
          MONTH_LENGTH,  \* from one reset of the quota to the next, in ticks
          JITTER,    \* longest way of a request to Brave
          MaxCalls,  \* bound on the requests Brave or the proxy still deals with
          DOWN,      \* shortest time from the end of the process to its restart
          MaxLost,   \* bound on the requests without an answer
          MaxRestarts

\* The margin is there to absorb the jitter, and no key is used faster than its
\* plan allows before its plan is known.
ASSUME BraveAssumption ==
    /\ {RPS, MONTH_LENGTH, MaxCalls} \subseteq Nat \ {0}
    /\ {MONTH, JITTER, DOWN, MaxLost, MaxRestarts} \subseteq Nat
    /\ JITTER <= WINDOW_MARGIN
    /\ Max2(DEFAULT_RPS, 1) <= RPS

VARIABLES calls,     \* the requests on their way, at Brave, or on the way back
          sends,     \* Brave's own sliding window of each key
          used,      \* requests Brave has counted for each key this month
          reset_at,  \* when the quota is reset next
          lost,      \* number of requests that failed without an answer
          restarts,  \* number of restarts
          up_at,     \* when the process is there again, or since when
          told       \* history: the reset the pool was last told of with a used-up month

processVars == <<restarts, up_at>>
braveVars == <<now, keys, inflight, calls, sends, used, reset_at, lost, told,
               processVars>>

NoResult == [class |-> "none", rl |-> NoInfo]

\* `waited': the proxy still waits for the answer; `refused': the limit for which
\* Brave has answered 429; `reset_at': the reset that its answer announces.
Call == [id: 1..MaxCalls, key: Key, at: Instant, waited: BOOLEAN,
         stage: {"travelling", "answered"}, refused: {"no", "second", "month"},
         result: Outcome \cup {NoResult}, reset_at: OptInstant]

BraveInit == /\ Init
             /\ calls = {}
             /\ sends = [i \in Key |-> <<>>]
             /\ used = [i \in Key |-> 0]
             /\ reset_at = 1 + MONTH_LENGTH
             /\ lost = 0
             /\ restarts = 0 /\ up_at = 1
             /\ told = [i \in Key |-> NoInstant]

-----------------------------------------------------------------------------
(* Brave.  A request is counted only when it is served.                    *)

\* rl_headers: what is left of the window and the month, the time until the
\* oldest send leaves the window, rounded up to a second, and until the reset,
\* rounded down.
RlHeaders(q, spent) ==
    FromHeaders([limit     |-> <<RPS, MONTH>>,
                 remaining |-> <<Max2(0, RPS - Len(q)), Max2(0, MONTH - spent)>>,
                 reset     |-> <<1, (reset_at - now) \div WINDOW>>,
                 policy    |-> <<RPS, MONTH>>, retry_after |-> Absent])

Answer(c, class, refused, q, spent) ==
    LET answered == [c EXCEPT !.stage = "answered", !.refused = refused,
                              !.reset_at = reset_at,
                              !.result = [class |-> class,
                                          rl |-> RlHeaders(q, spent)]]
    IN  /\ calls' = (calls \ {c}) \cup (IF c.waited THEN {answered} ELSE {})
        /\ sends' = [sends EXCEPT ![c.key] = q]
        /\ used' = [used EXCEPT ![c.key] = spent]

\* Sends are popped from the left, up to the first inside the second.
Popped(q) == LET fresh == {n \in 1..Len(q) : now - q[n] < WINDOW}
             IN  IF fresh = {} THEN <<>> ELSE SubSeq(q, Min(fresh), Len(q))

\* handle_any: the month is looked at before the second.
Arrive(c) ==
    LET i == c.key
        q == Popped(sends[i])
    IN  /\ c.stage = "travelling"
        /\ CASE MONTH # 0 /\ used[i] >= MONTH -> Answer(c, "429", "month", q, used[i])
             [] (MONTH = 0 \/ used[i] < MONTH) /\ Len(q) >= RPS ->
                  Answer(c, "429", "second", q, used[i])
             [] OTHER -> Answer(c, "2xx", "no", Append(q, now), used[i] + 1)
        /\ UNCHANGED <<now, keys, inflight, reset_at, lost, told, processVars>>

-----------------------------------------------------------------------------
(* The proxy.                                                              *)

SendOut(exclude, i) ==
    LET free == (1..MaxCalls) \ {c.id : c \in calls}
    IN  /\ now >= up_at
        /\ free # {}
        /\ Lease(exclude, i)
        /\ calls' = calls \cup {[id |-> Min(free), key |-> i, at |-> now,
                                 waited |-> TRUE, stage |-> "travelling",
                                 refused |-> "no", result |-> NoResult,
                                 reset_at |-> NoInstant]}
        /\ UNCHANGED <<sends, used, reset_at, lost, told, processVars>>

Receive(c) ==
    /\ c.stage = "answered"
    /\ Record(c.key, c.result)
    /\ calls' = calls \ {c}
    /\ told' = [told EXCEPT ![c.key] =
                  IF MonthExhausted(c.result.rl) THEN c.reset_at ELSE @]
    /\ UNCHANGED <<sends, used, reset_at, lost, processVars>>

\* The proxy no longer waits for c; a request that travels goes on to Brave.
Forget(c) ==
    calls' = (calls \ {c}) \cup
             (IF c.stage = "travelling" THEN {[c EXCEPT !.waited = FALSE]} ELSE {})

\* The upstream timeout, or a connection that breaks after the request was sent.
TimeOut(c) == /\ c.waited
              /\ lost < MaxLost
              /\ Record(c.key, TransportError)
              /\ Forget(c)
              /\ lost' = lost + 1
              /\ UNCHANGED <<sends, used, reset_at, told, processVars>>

\* The connection breaks and the request never reaches Brave.
Break(c) == /\ c.waited /\ c.stage = "travelling"
            /\ lost < MaxLost
            /\ Record(c.key, TransportError)
            /\ calls' = calls \ {c}
            /\ lost' = lost + 1
            /\ UNCHANGED <<sends, used, reset_at, told, processVars>>

Leave(c) == /\ c.waited
            /\ Abandon(c.key)
            /\ Forget(c)
            /\ UNCHANGED <<sends, used, reset_at, lost, told, processVars>>

-----------------------------------------------------------------------------
\* The process ends and is restarted: a new pool, no request waits any more.
Restart ==
    /\ restarts < MaxRestarts /\ now + DOWN <= MaxTime
    /\ restarts' = restarts + 1
    /\ up_at' = now + DOWN
    /\ keys' = [i \in Key |-> NewKey(Caps[i])]
    /\ inflight' = [i \in Key |-> 0]
    /\ calls' = {[c EXCEPT !.waited = FALSE] :
                    c \in {c \in calls : c.stage = "travelling"}}
    /\ told' = [i \in Key |-> NoInstant]
    /\ UNCHANGED <<now, sends, used, reset_at, lost>>

\* A report, or a request that finds no key.
Observe == /\ now >= up_at
           /\ Snapshot \/ \E exclude \in SUBSET Key : Refuse(exclude)
           /\ UNCHANGED <<calls, sends, used, reset_at, lost, told, processVars>>

\* No request travels for longer than JITTER.
BraveTick ==
    /\ \A c \in calls : c.stage = "travelling" => now < c.at + JITTER
    /\ Tick
    /\ IF now' >= reset_at
       THEN /\ used' = [i \in Key |-> 0]
            /\ reset_at' = reset_at + MONTH_LENGTH
       ELSE UNCHANGED <<used, reset_at>>
    /\ UNCHANGED <<calls, sends, lost, told, processVars>>

BraveNext == \/ \E exclude \in SUBSET Key, i \in Key : SendOut(exclude, i)
             \/ \E c \in calls : \/ Arrive(c)
                                 \/ Receive(c)
                                 \/ TimeOut(c)
                                 \/ Break(c)
                                 \/ Leave(c)
             \/ Restart
             \/ Observe
             \/ BraveTick

BraveSpec == BraveInit /\ [][BraveNext]_braveVars

-----------------------------------------------------------------------------
(* Properties                                                              *)

\* Brave never answers 429 for the second: whatever way requests take, and
\* however many of them time out or lose their client on the way and arrive all
\* the same, what the pool has counted covers what Brave counts (README, "never
\* sends more than the plan's requests/second inside one second"; e2e.sh, "pacing
\* failed").  A restart must take a second and the jitter (DOWN) for that: a new
\* pool knows nothing of what was just sent.
NoBurstRefused == \A c \in calls : c.refused # "second"

\* Once the pool was told that a key's month is used up, it leaves the key alone
\* until the reset that answer announced, but for the part of a second by which
\* the header rounds it down and the lag of the clock, although older answers
\* with quota left come in later, and requests fail.  It holds of keys without a
\* cap of their own, and while fewer than FAIL_THRESHOLD requests fail;
\* ParkedUntilReset (module Pool) shows what more of them do to a park.  The
\* answer that was heard last counts: one that outlives its month, and comes in
\* when the next one is used up too, ends the park of the next one.
UsedUpIsLeftAlone ==
    [][\A i \in Key : inflight'[i] > inflight[i]
                       => now > told[i] - WINDOW - CLOCK_LAG]_braveVars
=============================================================================
