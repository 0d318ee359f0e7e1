---------------------------- MODULE ProcessProofs -----------------------------
(***************************************************************************)
(* Theorems about time, for any number of requests and keys and any length *)
(* of the waits: how long a request stays inside Pool::acquire, and how    *)
(* long the process takes to drain after a signal.  They hold under the    *)
(* clock of ProxyTimed, which waits for a handler that can act.            *)
(***************************************************************************)
EXTENDS Process, ProxyProofs

\* How long the requests have been where they are.
TimedInv ==
    /\ queuedAt \in [Requests -> Nat]
    /\ \A r \in Requests :
          /\ req[r].deadline <= now + MAX_QUEUE_WAIT
          /\ req[r].pc = "acquire" =>
                /\ queuedAt[r] <= now
                /\ now <= queuedAt[r] + MAX_QUEUE_WAIT
                /\ req[r].deadline <= queuedAt[r] + MAX_QUEUE_WAIT
          /\ req[r].pc = "send" =>
                /\ req[r].attempts >= 1
                /\ req[r].sent_at <= now
                /\ now <= req[r].sent_at + UPSTREAM_TIMEOUT
    /\ \A m, n \in 1..Len(turnstile) :
          m <= n => queuedAt[turnstile[m]] <= queuedAt[turnstile[n]]

\* By when a request that drains has the result of its n-th attempt.
DrainedBy(n) == signal_at + MAX_QUEUE_WAIT + n * UPSTREAM_TIMEOUT

DrainInv ==
    life = "draining" =>
        /\ signal_at <= now /\ now <= DrainedBy(MaxAttempts)
        /\ \A r \in Requests :
              /\ req[r].deadline <= DrainedBy(0)
              /\ req[r].pc = "acquire" => now <= DrainedBy(req[r].attempts)
              /\ req[r].pc = "send" =>
                    req[r].sent_at <= DrainedBy(req[r].attempts - 1)

\* The inductive invariant, next to ProxyInv.
ProcessInv == TimedInv /\ DrainInv /\ signal_at \in Nat

-----------------------------------------------------------------------------
\* To the requests, the process is a clock and a door.
LEMMA StepUsesProxy ==
  ASSUME [ProcessNext]_processVars
  PROVE  [ProxyNext]_proxyVars
<1>1. CASE Serve
  <2>1. TimedNext
    BY <1>1 DEF Serve
  <2>. QED BY <2>1, Zenon DEF TimedNext, TimedTick, ProxyNext
<1>2. CASE Signal \/ Exit \/ UNCHANGED processVars
  BY <1>2 DEF Signal, Exit, processVars, timedVars, proxyVars
<1>. QED BY <1>1, <1>2 DEF ProcessNext

\* Whatever is proved of every behaviour of Proxy holds of the process.
THEOREM ProcessUsesProxy == ProcessSpec => ProxySpec
<1>1. ProcessInit => ProxyInit
  BY DEF ProcessInit, TimedInit
<1>2. [ProcessNext]_processVars => [ProxyNext]_proxyVars
  BY StepUsesProxy
<1>. QED BY <1>1, <1>2, PTL DEF ProcessSpec, ProxySpec

-----------------------------------------------------------------------------
(* What a step of request r does to its times, when its handler becomes h. *)

Advances(r, h) ==
    /\ \/ h.deadline \in {req[r].deadline, NoInstant}
       \/ req[r].pc = "new" /\ h.deadline = now + MAX_QUEUE_WAIT
    /\ h.pc = "acquire" => /\ req[r].pc \in {"new", "acquire", "send"}
                           /\ h.attempts = req[r].attempts
    /\ h.pc = "send" => /\ req[r].pc = "acquire" /\ h.sent_at = now
                        /\ h.attempts = req[r].attempts + 1
    /\ h.pc # "new"
    /\ UNCHANGED now

LEMMA RequestAdvances ==
  ASSUME ProxyInv, NEW r \in Requests,
         \/ Reject(r) \/ Arrive(r) \/ Acquire(r) \/ UpstreamAnswer(r)
         \/ UpstreamTimeout(r) \/ Respond(r) \/ Disconnect(r)
  PROVE  Moves(r, req'[r]) /\ Advances(r, req'[r])
<1>1. req \in [Requests -> Handler] /\ req[r] \in Handler
  BY DEF ProxyInv, ProxyTypeOK
<1>2. ASSUME NEW h, req' = [req EXCEPT ![r] = h] PROVE req'[r] = h
  BY <1>1, <1>2
<1>3. Moves(r, req'[r])
  <2>1. PICK h : Moves(r, h)
    BY RequestMoves
  <2>. QED BY <1>2, <2>1 DEF Moves
<1>4. CASE Reject(r)
  <2> DEFINE h == [req[r] EXCEPT !.pc = "done", !.answer = "rejected"]
  <2>1. req' = [req EXCEPT ![r] = h] /\ UNCHANGED now
    BY <1>1, <1>4 DEF Reject
  <2>2. h.pc = "done" /\ h.deadline = req[r].deadline
    BY <1>1 DEF Handler
  <2> HIDE DEF h
  <2>. QED BY <1>2, <1>3, <2>1, <2>2 DEF Advances
<1>5. CASE Arrive(r)
  <2> DEFINE h == [req[r] EXCEPT !.pc = "acquire",
                                 !.deadline = now + MAX_QUEUE_WAIT]
  <2>1. req' = [req EXCEPT ![r] = h] /\ UNCHANGED now /\ req[r].pc = "new"
    BY <1>1, <1>5 DEF Arrive
  <2>2. /\ h.pc = "acquire" /\ h.deadline = now + MAX_QUEUE_WAIT
        /\ h.attempts = req[r].attempts
    BY <1>1 DEF Handler
  <2> HIDE DEF h
  <2>. QED BY <1>2, <1>3, <2>1, <2>2 DEF Advances
<1>6. CASE Respond(r)
  <2> DEFINE h == [req[r] EXCEPT !.pc = "done", !.answer = "upstream"]
  <2>1. req' = [req EXCEPT ![r] = h] /\ UNCHANGED now
    BY <1>1, <1>6 DEF Respond, Snapshot, SnapshotAt
  <2>2. h.pc = "done" /\ h.deadline = req[r].deadline
    BY <1>1 DEF Handler
  <2> HIDE DEF h
  <2>. QED BY <1>2, <1>3, <2>1, <2>2 DEF Advances
<1>7. CASE Disconnect(r)
  <2> DEFINE h == [NewHandler EXCEPT !.pc = "gone"]
  <2>1. req' = [req EXCEPT ![r] = h] /\ UNCHANGED now
    BY <1>7 DEF Disconnect, Abandon
  <2>2. h.pc = "gone" /\ h.deadline = NoInstant
    BY DEF NewHandler
  <2> HIDE DEF h
  <2>. QED BY <1>2, <1>3, <2>1, <2>2 DEF Advances
<1>8. ASSUME NEW i \in Key, LeaseFor(r, i) PROVE Advances(r, req'[r])
  <2> DEFINE h == [req[r] EXCEPT !.pc = "send", !.wake = NoInstant, !.lease = i,
                                 !.tried = req[r].tried \cup {i},
                                 !.attempts = req[r].attempts + 1,
                                 !.sent_at = now]
  <2>1. req' = [req EXCEPT ![r] = h]
    BY <1>8, Zenon DEF LeaseFor
  <2>2. UNCHANGED now /\ req[r].pc = "acquire"
    BY <1>8, FirstOfQueue DEF LeaseFor, Lease
  <2>3. /\ h.pc = "send" /\ h.deadline = req[r].deadline /\ h.sent_at = now
        /\ h.attempts = req[r].attempts + 1
    BY <1>1 DEF Handler
  <2> HIDE DEF h
  <2>. QED BY <1>2, <2>1, <2>2, <2>3 DEF Advances
<1>9. CASE Sleep(r)
  <2> DEFINE h == [req[r] EXCEPT !.wake = NextAt(req[r].tried, now)]
  <2>1. req' = [req EXCEPT ![r] = h] /\ UNCHANGED now /\ req[r].pc = "acquire"
    BY <1>9, FirstOfQueue DEF Sleep, Refuse
  <2>2. /\ h.pc = req[r].pc /\ h.deadline = req[r].deadline
        /\ h.attempts = req[r].attempts
    BY <1>1 DEF Handler
  <2> HIDE DEF h
  <2>. QED BY <1>2, <1>3, <2>1, <2>2 DEF Advances
<1>10. ASSUME NEW error, GiveUpQueueing(r, error) PROVE Advances(r, req'[r])
  <2> DEFINE h == [req[r] EXCEPT !.pc = "done", !.wake = NoInstant, !.answer = error]
  <2>1. req' = [req EXCEPT ![r] = h] /\ UNCHANGED now
    BY <1>10 DEF GiveUpQueueing, Refuse
  <2>2. h.pc = "done" /\ h.deadline = req[r].deadline
    BY <1>1 DEF Handler
  <2> HIDE DEF h
  <2>. QED BY <1>2, <2>1, <2>2 DEF Advances
<1>11. ASSUME NEW o \in Outcomes, Answered(r, o) PROVE Advances(r, req'[r])
  <2> DEFINE f == Upstream(r)
  <2>1. UNCHANGED now /\ req[r].pc = "send"
    BY <1>11 DEF Answered, Record, RecordAt
  <2>2. /\ f \in Handler /\ f.attempts = req[r].attempts
        /\ f.deadline = req[r].deadline
    BY <1>1, <2>1, UpstreamType DEF Upstream, Handler
  <2>3. \/ req' = [req EXCEPT ![r] = [f EXCEPT !.pc = "respond", !.status = o.class]]
        \/ Retry(r, [f EXCEPT !.last_error = TRUE])
        \/ Retry(r, [f EXCEPT !.last_response = o.class])
    BY <1>11, Zenon DEF Answered, Upstream
  <2> HIDE DEF f
  <2>4. ASSUME NEW g, DOMAIN g = DOMAIN f, Retry(r, g),
               g.attempts = f.attempts, g.deadline = f.deadline
        PROVE  Advances(r, req'[r])
    <3> DEFINE a == [g EXCEPT !.pc = "acquire"]
               b == [g EXCEPT !.pc = "respond", !.status = g.last_response]
               c == [g EXCEPT !.pc = "done", !.answer = "upstream_unreachable"]
    <3>1. req' = [req EXCEPT ![r] = a] \/ req' = [req EXCEPT ![r] = b]
            \/ req' = [req EXCEPT ![r] = c]
      BY <2>4, Zenon DEF Retry
    <3>2. /\ a.pc = "acquire" /\ b.pc = "respond" /\ c.pc = "done"
          /\ a.attempts = g.attempts
          /\ a.deadline = g.deadline /\ b.deadline = g.deadline
          /\ c.deadline = g.deadline
      BY <2>2, <2>4 DEF Handler
    <3> HIDE DEF a, b, c
    <3>. QED BY <1>2, <2>1, <2>2, <2>4, <3>1, <3>2 DEF Advances
  <2>5. /\ [f EXCEPT !.pc = "respond", !.status = o.class].pc = "respond"
        /\ [f EXCEPT !.pc = "respond", !.status = o.class].deadline = f.deadline
        /\ [f EXCEPT !.last_error = TRUE].attempts = f.attempts
        /\ [f EXCEPT !.last_error = TRUE].deadline = f.deadline
        /\ [f EXCEPT !.last_response = o.class].attempts = f.attempts
        /\ [f EXCEPT !.last_response = o.class].deadline = f.deadline
        /\ DOMAIN [f EXCEPT !.last_error = TRUE] = DOMAIN f
        /\ DOMAIN [f EXCEPT !.last_response = o.class] = DOMAIN f
    BY <2>2 DEF Handler
  <2>6. CASE req' = [req EXCEPT ![r] =
                       [f EXCEPT !.pc = "respond", !.status = o.class]]
    <3>1. req'[r].pc = "respond" /\ req'[r].deadline = req[r].deadline
      BY <1>2, <2>2, <2>5, <2>6
    <3>. QED BY <2>1, <3>1 DEF Advances
  <2>. QED BY <2>3, <2>4, <2>5, <2>6
<1>12. ASSUME UpstreamAnswer(r) \/ UpstreamTimeout(r)
       PROVE  Advances(r, req'[r])
  BY <1>11, <1>12, ProxyAssumption DEF UpstreamAnswer, UpstreamTimeout
<1>. QED BY <1>3, <1>4, <1>5, <1>6, <1>7, <1>8, <1>9, <1>10, <1>12
         DEF Acquire, Saturated, Unavailable

-----------------------------------------------------------------------------
(* The clock moves only while everybody waits, and whoever waits in the    *)
(* turnstile waits for its head, which wakes by its own deadline.          *)

LEMMA HeadWakesInTime ==
  ASSUME ProxyInv, ~Due, NEW r \in Requests, req[r].pc = "acquire"
  PROVE  \E n \in 1..Len(turnstile) :
            /\ turnstile[n] = r
            /\ 1 \in 1..Len(turnstile) /\ 1 <= n
            /\ turnstile[1] \in Requests
            /\ req[turnstile[1]].pc = "acquire"
            /\ now + 1 <= req[turnstile[1]].deadline
<1>1. PICK n \in 1..Len(turnstile) : turnstile[n] = r
  BY DEF ProxyInv, QueueInv
<1>2. /\ turnstile \in Seq(Requests) /\ Len(turnstile) \in Nat
      /\ now \in Nat /\ req \in [Requests -> Handler]
  BY DEF ProxyInv, ProxyTypeOK, TypeOK, Instant
<1>3. 1 \in 1..Len(turnstile) /\ 1 <= n
  BY <1>2
<1> DEFINE h == turnstile[1]
<1>4. h \in Requests /\ req[h].pc = "acquire" /\ turnstile # <<>> /\ Head(turnstile) = h
  BY <1>2, <1>3 DEF ProxyInv, QueueInv
<1> HIDE DEF h
<1>5. req[h].wake \in Nat /\ req[h].deadline \in Nat
  BY <1>2, <1>4 DEF Handler, OptInstant
<1>6. ~(req[h].wake <= now)
  BY <1>4 DEF Due, HasTurn
<1>7. req[h].wake # NoInstant
  BY <1>2, <1>5, <1>6 DEF NoInstant
<1>8. req[h].wake <= req[h].deadline
  BY <1>4, <1>7 DEF ProxyInv, SleepInv
<1>9. now + 1 <= req[h].deadline
  BY <1>2, <1>5, <1>6, <1>8
<1>. QED BY <1>1, <1>3, <1>4, <1>9 DEF h

\* The instants and counts the two invariants compare are numbers.
LEMMA TimesType ==
  ASSUME ProxyInv
  PROVE  /\ now \in Nat /\ turnstile \in Seq(Requests) /\ Len(turnstile) \in Nat
         /\ req \in [Requests -> Handler]
         /\ \A r \in Requests :
               /\ req[r].deadline \in Nat /\ req[r].sent_at \in Nat
               /\ req[r].attempts \in Nat /\ req[r].attempts <= MaxAttempts
         /\ MAX_QUEUE_WAIT \in Nat /\ UPSTREAM_TIMEOUT \in Nat
         /\ MaxAttempts \in Nat
BY MaxAttemptsType, ProxyAssumption
   DEF ProxyInv, ProxyTypeOK, TypeOK, Instant, Handler, OptInstant

\* What a step does to the times at which requests queued.
LEMMA Remembered ==
  ASSUME Remember, NEW r \in Requests
  PROVE  queuedAt'[r] = IF req'[r].pc # "acquire" THEN NoInstant
                        ELSE IF req[r].pc # "acquire" THEN now ELSE queuedAt[r]
BY DEF Remember

LEMMA TickKeepsTimes ==
  ASSUME ProxyInv, TimedInv, TimedTick, Remember
  PROVE  TimedInv'
<1>1. /\ now \in Nat /\ MAX_QUEUE_WAIT \in Nat /\ UPSTREAM_TIMEOUT \in Nat
      /\ \A r \in Requests : req[r].deadline \in Nat /\ req[r].sent_at \in Nat
      /\ turnstile \in Seq(Requests)
  BY TimesType
<1>2. /\ now' = now + 1 /\ req' = req /\ turnstile' = turnstile /\ ~Due
  BY DEF TimedTick, ProxyTick, Tick
<1>3. /\ \A r \in Requests : req[r].pc = "acquire" => queuedAt'[r] = queuedAt[r]
      /\ queuedAt' \in [Requests -> Nat]
  <2>1. \A r \in Requests : queuedAt'[r] \in Nat /\ queuedAt[r] \in Nat
    BY <1>1, Remembered DEF TimedInv, NoInstant
  <2>2. queuedAt' = [r \in Requests |-> queuedAt'[r]]
    BY DEF Remember
  <2>3. \A r \in Requests : req[r].pc = "acquire" => queuedAt'[r] = queuedAt[r]
    BY <1>2, Remembered
  <2>. QED BY <2>1, <2>2, <2>3
<1>4. ASSUME NEW r \in Requests, req[r].pc = "acquire"
      PROVE  now + 1 <= queuedAt[r] + MAX_QUEUE_WAIT
  <2>1. PICK n \in 1..Len(turnstile) :
          /\ turnstile[n] = r /\ 1 \in 1..Len(turnstile) /\ 1 <= n
          /\ turnstile[1] \in Requests /\ req[turnstile[1]].pc = "acquire"
          /\ now + 1 <= req[turnstile[1]].deadline
    BY <1>2, <1>4, HeadWakesInTime
  <2>2. queuedAt[turnstile[1]] <= queuedAt[r]
    BY <2>1 DEF TimedInv
  <2>3. req[turnstile[1]].deadline <= queuedAt[turnstile[1]] + MAX_QUEUE_WAIT
    BY <2>1 DEF TimedInv
  <2>4. queuedAt[turnstile[1]] \in Nat /\ queuedAt[r] \in Nat
    BY <2>1 DEF TimedInv
  <2>. QED BY <1>1, <2>1, <2>2, <2>3, <2>4
<1>5. ASSUME NEW r \in Requests, req[r].pc = "send"
      PROVE  now + 1 <= req[r].sent_at + UPSTREAM_TIMEOUT
  BY <1>1, <1>2, <1>5 DEF Due, UpstreamDue
<1>6. ASSUME NEW r \in Requests
      PROVE  /\ req[r].deadline <= now + 1 + MAX_QUEUE_WAIT
             /\ req[r].pc = "acquire" =>
                   /\ queuedAt[r] <= now + 1
                   /\ req[r].deadline <= queuedAt[r] + MAX_QUEUE_WAIT
             /\ req[r].pc = "send" => req[r].sent_at <= now + 1
  <2>1. queuedAt[r] \in Nat
    BY DEF TimedInv
  <2>. QED BY <1>1, <2>1 DEF TimedInv
<1>7. ASSUME NEW m \in 1..Len(turnstile), NEW n \in 1..Len(turnstile), m <= n
      PROVE  queuedAt'[turnstile[m]] <= queuedAt'[turnstile[n]]
  <2>1. \A k \in 1..Len(turnstile) :
           turnstile[k] \in Requests /\ req[turnstile[k]].pc = "acquire"
    BY <1>1 DEF ProxyInv, QueueInv
  <2>2. queuedAt[turnstile[m]] <= queuedAt[turnstile[n]]
    BY <1>7 DEF TimedInv
  <2>. QED BY <1>3, <2>1, <2>2
<1>. QED BY <1>2, <1>3, <1>4, <1>5, <1>6, <1>7 DEF TimedInv

\* The turnstile stays in the order in which its requests queued.
LEMMA MoveKeepsOrder ==
  ASSUME ProxyInv, ProxyInv', TimedInv, Remember, UNCHANGED now,
         NEW r \in Requests, NEW h, Moves(r, h)
  PROVE  \A m, n \in 1..Len(turnstile') :
            m <= n => queuedAt'[turnstile'[m]] <= queuedAt'[turnstile'[n]]
<1>1. /\ now \in Nat /\ turnstile \in Seq(Requests) /\ Len(turnstile) \in Nat
      /\ req \in [Requests -> Handler]
      /\ \A q \in Requests : queuedAt[q] \in Nat
  BY TimesType DEF TimedInv
<1>2. /\ \A n \in 1..Len(turnstile) :
            turnstile[n] \in Requests /\ req[turnstile[n]].pc = "acquire"
      /\ \A n \in 1..Len(turnstile') :
            turnstile'[n] \in Requests /\ req'[turnstile'[n]].pc = "acquire"
  <2>1. turnstile \in Seq(Requests) /\ turnstile' \in Seq(Requests)
    BY DEF ProxyInv, ProxyTypeOK
  <2>. QED BY <2>1 DEF ProxyInv, QueueInv
<1>3. ASSUME NEW q \in Requests, req[q].pc = "acquire", req'[q].pc = "acquire"
      PROVE  queuedAt'[q] = queuedAt[q]
  BY <1>3, Remembered
<1>4. CASE Queues(r, h)
  <2>1. turnstile' = Append(turnstile, r) /\ req[r].pc # "acquire"
    BY <1>4 DEF Queues
  <2>2. /\ Len(turnstile') = Len(turnstile) + 1
        /\ \A n \in 1..Len(turnstile) : turnstile'[n] = turnstile[n]
        /\ turnstile'[Len(turnstile) + 1] = r
    BY <1>1, <2>1
  <2>3. /\ \A n \in 1..Len(turnstile) : n \in 1..Len(turnstile')
        /\ Len(turnstile) + 1 \in 1..Len(turnstile')
        /\ \A n \in 1..Len(turnstile') :
              n \in 1..Len(turnstile) \/ n = Len(turnstile) + 1
    BY <1>1, <2>2
  <2>4. \A n \in 1..Len(turnstile) :
           queuedAt'[turnstile'[n]] = queuedAt[turnstile[n]]
    BY <1>2, <1>3, <2>2, <2>3
  <2>5. queuedAt'[r] = now
    <3>1. req'[r].pc = "acquire"
      BY <1>2, <2>2, <2>3
    <3>. QED BY <2>1, <3>1, Remembered
  <2>6. \A n \in 1..Len(turnstile) : queuedAt[turnstile[n]] <= now
    BY <1>2 DEF TimedInv
  <2> SUFFICES ASSUME NEW m \in 1..Len(turnstile'), NEW n \in 1..Len(turnstile'),
                      m <= n
               PROVE  queuedAt'[turnstile'[m]] <= queuedAt'[turnstile'[n]]
    OBVIOUS
  <2>7. CASE n \in 1..Len(turnstile)
    <3>1. m \in 1..Len(turnstile)
      BY <2>7
    <3>2. queuedAt[turnstile[m]] <= queuedAt[turnstile[n]]
      BY <2>7, <3>1 DEF TimedInv
    <3>. QED BY <2>4, <2>7, <3>1, <3>2
  <2>8. CASE n = Len(turnstile) + 1
    <3>1. CASE m = Len(turnstile) + 1
      BY <1>1, <2>2, <2>5, <2>8, <3>1
    <3>2. CASE m \in 1..Len(turnstile)
      BY <2>2, <2>4, <2>5, <2>6, <2>8, <3>2
    <3>. QED BY <2>3, <3>1, <3>2
  <2>. QED BY <2>3, <2>7, <2>8
<1>5. CASE LeavesQueue(r, h)
  <2>1. PICK p \in 1..Len(turnstile) : Without(turnstile, p, turnstile')
    BY <1>5 DEF LeavesQueue
  <2> DEFINE old(m) == IF m < p THEN m ELSE m + 1
  <2>2. /\ Len(turnstile') = Len(turnstile) - 1
        /\ \A m \in 1..Len(turnstile') :
              old(m) \in 1..Len(turnstile) /\ turnstile'[m] = turnstile[old(m)]
    BY <1>1, <2>1 DEF Without
  <2>3. \A m, n \in 1..Len(turnstile') : m <= n => old(m) <= old(n)
    BY <2>1, <2>2
  <2> HIDE DEF old
  <2>4. \A m \in 1..Len(turnstile') :
           queuedAt'[turnstile'[m]] = queuedAt[turnstile[old(m)]]
    <3> SUFFICES ASSUME NEW m \in 1..Len(turnstile')
                 PROVE  queuedAt'[turnstile'[m]] = queuedAt[turnstile[old(m)]]
      OBVIOUS
    <3>1. /\ turnstile'[m] \in Requests /\ turnstile'[m] = turnstile[old(m)]
          /\ req'[turnstile'[m]].pc = "acquire" /\ req[turnstile'[m]].pc = "acquire"
      BY <1>2, <2>2
    <3>. QED BY <1>3, <3>1
  <2> SUFFICES ASSUME NEW m \in 1..Len(turnstile'), NEW n \in 1..Len(turnstile'),
                      m <= n
               PROVE  queuedAt'[turnstile'[m]] <= queuedAt'[turnstile'[n]]
    OBVIOUS
  <2>5. queuedAt[turnstile[old(m)]] <= queuedAt[turnstile[old(n)]]
    BY <2>2, <2>3 DEF TimedInv
  <2>. QED BY <2>4, <2>5
<1>6. CASE KeepsPlace(r, h)
  <2>1. turnstile' = turnstile
    BY <1>6 DEF KeepsPlace
  <2>2. \A n \in 1..Len(turnstile) :
           queuedAt'[turnstile[n]] = queuedAt[turnstile[n]]
    BY <1>2, <1>3, <2>1
  <2>3. \A m, n \in 1..Len(turnstile) :
           m <= n => queuedAt[turnstile[m]] <= queuedAt[turnstile[n]]
    BY DEF TimedInv
  <2>. QED BY <2>1, <2>2, <2>3
<1>. QED BY <1>4, <1>5, <1>6 DEF Moves

LEMMA MoveKeepsTimes ==
  ASSUME ProxyInv, ProxyInv', TimedInv, Remember,
         NEW r \in Requests, Moves(r, req'[r]), Advances(r, req'[r])
  PROVE  TimedInv'
<1>1. /\ now \in Nat /\ MAX_QUEUE_WAIT \in Nat /\ UPSTREAM_TIMEOUT \in Nat
      /\ \A q \in Requests : req[q].deadline \in Nat /\ req[q].sent_at \in Nat
      /\ req \in [Requests -> Handler]
      /\ \A q \in Requests : queuedAt[q] \in Nat
  BY TimesType DEF TimedInv
<1>2. now' = now /\ \A q \in Requests : q # r => req'[q] = req[q]
  <2>1. req' = [req EXCEPT ![r] = req'[r]] /\ now' = now
    BY DEF Moves, Advances
  <2>2. \A q \in Requests : q # r => [req EXCEPT ![r] = req'[r]][q] = req[q]
    BY <1>1
  <2>. QED BY <2>1, <2>2
<1>3. queuedAt' \in [Requests -> Nat]
  <2>1. \A q \in Requests : queuedAt'[q] \in Nat
    BY <1>1, Remembered DEF NoInstant
  <2>2. queuedAt' = [q \in Requests |-> queuedAt'[q]]
    BY DEF Remember
  <2>. QED BY <2>1, <2>2
<1>4. ASSUME NEW q \in Requests
      PROVE  /\ req'[q].deadline <= now + MAX_QUEUE_WAIT
             /\ req'[q].pc = "acquire" =>
                   /\ queuedAt'[q] <= now
                   /\ now <= queuedAt'[q] + MAX_QUEUE_WAIT
                   /\ req'[q].deadline <= queuedAt'[q] + MAX_QUEUE_WAIT
             /\ req'[q].pc = "send" =>
                   /\ req'[q].attempts >= 1
                   /\ req'[q].sent_at <= now
                   /\ now <= req'[q].sent_at + UPSTREAM_TIMEOUT
  <2>1. /\ req[q].deadline <= now + MAX_QUEUE_WAIT
        /\ req[q].pc = "acquire" =>
              /\ queuedAt[q] <= now
              /\ now <= queuedAt[q] + MAX_QUEUE_WAIT
              /\ req[q].deadline <= queuedAt[q] + MAX_QUEUE_WAIT
        /\ req[q].pc = "send" =>
              /\ req[q].attempts >= 1
              /\ req[q].sent_at <= now
              /\ now <= req[q].sent_at + UPSTREAM_TIMEOUT
    BY DEF TimedInv
  <2>2. queuedAt'[q] = IF req'[q].pc # "acquire" THEN NoInstant
                       ELSE IF req[q].pc # "acquire" THEN now ELSE queuedAt[q]
    BY Remembered
  <2>3. CASE q # r
    BY <1>2, <2>1, <2>2, <2>3
  <2>4. CASE q = r
    <3>1. req'[r].deadline <= now + MAX_QUEUE_WAIT
      BY <1>1, <2>1, <2>4 DEF Advances, NoInstant
    <3>2. req'[r].pc = "send" => /\ req'[r].sent_at = now
                                 /\ req'[r].attempts >= 1
      <4>1. req[r].attempts \in Nat
        BY TimesType
      <4>. QED BY <4>1 DEF Advances
    <3>3. CASE req[r].pc = "acquire"
      <4>1. req'[r].deadline \in {req[r].deadline, 0}
        BY <3>3 DEF Advances, NoInstant
      <4>2. req'[r].pc = "acquire" => queuedAt'[r] = queuedAt[r]
        BY <2>2, <2>4, <3>3
      <4>. QED BY <1>1, <2>1, <2>4, <3>1, <3>2, <3>3, <4>1, <4>2
    <3>4. CASE req[r].pc # "acquire"
      <4>1. req'[r].pc = "acquire" => queuedAt'[r] = now
        BY <2>2, <2>4, <3>4
      <4>. QED BY <1>1, <2>4, <3>1, <3>2, <4>1
    <3>. QED BY <3>3, <3>4
  <2>. QED BY <2>3, <2>4
<1>5. \A m, n \in 1..Len(turnstile') :
         m <= n => queuedAt'[turnstile'[m]] <= queuedAt'[turnstile'[n]]
  BY <1>2, MoveKeepsOrder
<1>. QED BY <1>2, <1>3, <1>4, <1>5 DEF TimedInv

LEMMA BackgroundKeepsTimes ==
  ASSUME ProxyInv, TimedInv, Background, UNCHANGED now,
         Remember \/ UNCHANGED queuedAt
  PROVE  TimedInv'
<1>1. \A r \in Requests : req[r].pc = "acquire" => queuedAt'[r] = queuedAt[r]
  BY Remembered DEF Background
<1>2. queuedAt' \in [Requests -> Nat]
  <2>1. CASE Remember
    <3>1. \A r \in Requests : queuedAt'[r] \in Nat
      BY <2>1, TimesType, Remembered DEF TimedInv, NoInstant
    <3>2. queuedAt' = [r \in Requests |-> queuedAt'[r]]
      BY <2>1 DEF Remember
    <3>. QED BY <3>1, <3>2
  <2>2. CASE UNCHANGED queuedAt
    BY <2>2 DEF TimedInv
  <2>. QED BY <2>1, <2>2
<1>3. /\ req' = req /\ turnstile' = turnstile /\ now' = now
      /\ turnstile \in Seq(Requests)
  BY TimesType DEF Background
<1>4. \A n \in 1..Len(turnstile) : queuedAt'[turnstile[n]] = queuedAt[turnstile[n]]
  BY <1>1, <1>3 DEF ProxyInv, QueueInv
<1>5. \A m, n \in 1..Len(turnstile) :
         m <= n => queuedAt'[turnstile[m]] <= queuedAt'[turnstile[n]]
  BY <1>4 DEF TimedInv
<1>. QED BY <1>1, <1>2, <1>3, <1>5 DEF TimedInv

\* The steps under the clock that waits.
LEMMA TimedSteps ==
  ASSUME ProxyInv, TimedNext
  PROVE  \/ TimedTick
         \/ Background /\ UNCHANGED now
         \/ \E r \in Requests : Moves(r, req'[r]) /\ Advances(r, req'[r])
<1>1. CASE Report
  BY <1>1 DEF Report, Snapshot, SnapshotAt, Background
<1>. QED BY <1>1, RequestAdvances DEF TimedNext

-----------------------------------------------------------------------------
(* Draining.                                                               *)

LEMMA DrainedByGrows ==
  ASSUME signal_at \in Nat, NEW n \in Nat
  PROVE  /\ DrainedBy(n) \in Nat
         /\ DrainedBy(0) = signal_at + MAX_QUEUE_WAIT
         /\ DrainedBy(0) <= DrainedBy(n)
         /\ n >= 1 => DrainedBy(n - 1) + UPSTREAM_TIMEOUT = DrainedBy(n)
         /\ n <= MaxAttempts => DrainedBy(n) <= DrainedBy(MaxAttempts)
<1>1. MAX_QUEUE_WAIT \in Nat /\ UPSTREAM_TIMEOUT \in Nat /\ MaxAttempts \in Nat
  BY ProxyAssumption, MaxAttemptsType
<1>2. \A a, b, c \in Nat : a <= b => a * c <= b * c
  <2> SUFFICES ASSUME NEW a \in Nat, NEW b \in Nat, NEW c \in Nat, a <= b
               PROVE  a * c <= b * c
    OBVIOUS
  <2>1. (b - a) * c \in Nat /\ b - a \in Nat
    OBVIOUS
  <2>2. b * c = a * c + (b - a) * c /\ a * c \in Nat
    OBVIOUS
  <2>. QED BY <2>1, <2>2
<1>3. n * UPSTREAM_TIMEOUT \in Nat /\ 0 * UPSTREAM_TIMEOUT = 0
  BY <1>1
<1>4. n >= 1 => (n - 1) * UPSTREAM_TIMEOUT + UPSTREAM_TIMEOUT
                  = n * UPSTREAM_TIMEOUT
  BY <1>1
<1>5. n >= 1 => (n - 1) * UPSTREAM_TIMEOUT \in Nat
  BY <1>1
<1>6. n <= MaxAttempts =>
         n * UPSTREAM_TIMEOUT <= MaxAttempts * UPSTREAM_TIMEOUT
  BY <1>1, <1>2
<1>7. MaxAttempts * UPSTREAM_TIMEOUT \in Nat
  BY <1>1
<1>. QED BY <1>1, <1>3, <1>4, <1>5, <1>6, <1>7 DEF DrainedBy

LEMMA TickKeepsDrain ==
  ASSUME ProxyInv, TimedInv, DrainInv, signal_at \in Nat, life = "draining",
         TimedTick, ~Idle, UNCHANGED lifeVars
  PROVE  DrainInv'
<1>1. /\ now \in Nat /\ UPSTREAM_TIMEOUT \in Nat /\ MaxAttempts \in Nat
      /\ req \in [Requests -> Handler]
      /\ \A r \in Requests : /\ req[r].deadline \in Nat /\ req[r].sent_at \in Nat
                              /\ req[r].attempts \in Nat
                              /\ req[r].attempts <= MaxAttempts
  BY TimesType
<1>2. /\ now' = now + 1 /\ req' = req /\ signal_at' = signal_at /\ life' = life
      /\ ~Due
  BY DEF TimedTick, ProxyTick, Tick, lifeVars
<1>3. \A n : DrainedBy(n)' = DrainedBy(n)
  BY <1>2 DEF DrainedBy
<1>4. ASSUME NEW r \in Requests, req[r].pc = "acquire"
      PROVE  now + 1 <= DrainedBy(0)
  <2>1. PICK n \in 1..Len(turnstile) :
          /\ turnstile[1] \in Requests
          /\ now + 1 <= req[turnstile[1]].deadline
    BY <1>2, <1>4, HeadWakesInTime
  <2>2. req[turnstile[1]].deadline <= DrainedBy(0) /\ DrainedBy(0) \in Nat
    BY <2>1, DrainedByGrows DEF DrainInv
  <2>. QED BY <1>1, <2>1, <2>2
<1>5. ASSUME NEW r \in Requests, req[r].pc = "send"
      PROVE  now + 1 <= DrainedBy(req[r].attempts)
  <2>1. now + 1 <= req[r].sent_at + UPSTREAM_TIMEOUT
    BY <1>1, <1>2, <1>5 DEF Due, UpstreamDue
  <2>2. /\ req[r].attempts >= 1
        /\ req[r].sent_at <= DrainedBy(req[r].attempts - 1)
    BY <1>5 DEF DrainInv, TimedInv
  <2>3. DrainedBy(req[r].attempts - 1) + UPSTREAM_TIMEOUT
          = DrainedBy(req[r].attempts)
    BY <1>1, <2>2, DrainedByGrows
  <2>4. DrainedBy(req[r].attempts - 1) \in Nat
    BY <1>1, <2>2, DrainedByGrows
  <2>. QED BY <1>1, <2>1, <2>2, <2>3, <2>4
<1>6. now + 1 <= DrainedBy(MaxAttempts)
  <2>1. PICK r \in Requests : req[r].pc \notin {"new", "done", "gone"}
    BY DEF Idle
  <2>2. req[r].pc \in {"acquire", "send"}
    BY <1>1, <1>2, <2>1 DEF Due, Handler
  <2>3. /\ DrainedBy(0) \in Nat /\ DrainedBy(req[r].attempts) \in Nat
        /\ DrainedBy(0) <= DrainedBy(req[r].attempts)
        /\ DrainedBy(req[r].attempts) <= DrainedBy(MaxAttempts)
        /\ DrainedBy(MaxAttempts) \in Nat
    BY <1>1, DrainedByGrows
  <2>. QED BY <1>1, <1>4, <1>5, <2>2, <2>3
<1>7. ASSUME NEW r \in Requests, req[r].pc = "acquire"
      PROVE  now + 1 <= DrainedBy(req[r].attempts)
  <2>1. DrainedBy(0) <= DrainedBy(req[r].attempts)
        /\ DrainedBy(0) \in Nat /\ DrainedBy(req[r].attempts) \in Nat
    BY <1>1, DrainedByGrows
  <2>. QED BY <1>1, <1>4, <1>7, <2>1
<1>8. signal_at <= now + 1
  BY <1>1 DEF DrainInv
<1>. QED BY <1>2, <1>3, <1>6, <1>7, <1>8 DEF DrainInv

LEMMA MoveKeepsDrain ==
  ASSUME ProxyInv, ProxyInv', TimedInv, DrainInv, signal_at \in Nat,
         life = "draining", UNCHANGED lifeVars,
         \A q \in Requests : req[q].pc = "new" => req'[q].pc = "new",
         NEW r \in Requests, Moves(r, req'[r]), Advances(r, req'[r])
  PROVE  DrainInv'
<1>1. /\ now \in Nat /\ UPSTREAM_TIMEOUT \in Nat /\ MaxAttempts \in Nat
      /\ req \in [Requests -> Handler]
      /\ \A q \in Requests : /\ req[q].deadline \in Nat /\ req[q].sent_at \in Nat
                              /\ req[q].attempts \in Nat
                              /\ req[q].attempts <= MaxAttempts
  BY TimesType
<1>2. /\ now' = now /\ signal_at' = signal_at /\ life' = life
      /\ \A q \in Requests : q # r => req'[q] = req[q]
  <2>1. req' = [req EXCEPT ![r] = req'[r]] /\ now' = now
    BY DEF Moves, Advances
  <2>2. \A q \in Requests : q # r => [req EXCEPT ![r] = req'[r]][q] = req[q]
    BY <1>1
  <2>. QED BY <2>1, <2>2 DEF lifeVars
<1>3. \A n : DrainedBy(n)' = DrainedBy(n)
  BY <1>2 DEF DrainedBy
<1>4. req[r].pc # "new"
  BY DEF Advances
<1>5. req'[r].deadline <= DrainedBy(0)
  <2>1. req'[r].deadline \in {req[r].deadline, 0}
    BY <1>4 DEF Advances, NoInstant
  <2>2. req[r].deadline <= DrainedBy(0) /\ DrainedBy(0) \in Nat
    BY DrainedByGrows DEF DrainInv
  <2>. QED BY <2>1, <2>2
<1>6. ASSUME req'[r].pc = "acquire" PROVE now <= DrainedBy(req'[r].attempts)
  <2>1. req'[r].attempts = req[r].attempts /\ req[r].pc \in {"acquire", "send"}
    BY <1>4, <1>6 DEF Advances
  <2>2. CASE req[r].pc = "acquire"
    BY <2>1, <2>2 DEF DrainInv
  <2>3. CASE req[r].pc = "send"
    <3>1. now <= req[r].sent_at + UPSTREAM_TIMEOUT
      BY <2>3 DEF TimedInv
    <3>2. /\ req[r].attempts >= 1
          /\ req[r].sent_at <= DrainedBy(req[r].attempts - 1)
      BY <2>3 DEF DrainInv, TimedInv
    <3>3. /\ DrainedBy(req[r].attempts - 1) + UPSTREAM_TIMEOUT
               = DrainedBy(req[r].attempts)
          /\ DrainedBy(req[r].attempts - 1) \in Nat
      BY <1>1, <3>2, DrainedByGrows
    <3>. QED BY <1>1, <2>1, <3>1, <3>2, <3>3
  <2>. QED BY <2>1, <2>2, <2>3
<1>7. ASSUME req'[r].pc = "send"
      PROVE  req'[r].sent_at <= DrainedBy(req'[r].attempts - 1)
  <2>1. /\ req[r].pc = "acquire" /\ req'[r].sent_at = now
        /\ req'[r].attempts = req[r].attempts + 1
    BY <1>7 DEF Advances
  <2>2. now <= DrainedBy(req[r].attempts)
    BY <2>1 DEF DrainInv
  <2>3. req'[r].attempts - 1 = req[r].attempts
    BY <1>1, <2>1
  <2>. QED BY <2>1, <2>2, <2>3
<1>8. ASSUME NEW q \in Requests
      PROVE  /\ req'[q].deadline <= DrainedBy(0)
             /\ req'[q].pc = "acquire" => now <= DrainedBy(req'[q].attempts)
             /\ req'[q].pc = "send" =>
                   req'[q].sent_at <= DrainedBy(req'[q].attempts - 1)
  <2>1. CASE q = r
    BY <1>5, <1>6, <1>7, <2>1
  <2>2. CASE q # r
    BY <1>2, <2>2 DEF DrainInv
  <2>. QED BY <2>1, <2>2
<1>9. signal_at <= now /\ now <= DrainedBy(MaxAttempts)
  BY DEF DrainInv
<1>. QED BY <1>2, <1>3, <1>8, <1>9 DEF DrainInv

LEMMA SignalStartsDrain ==
  ASSUME ProxyInv, TimedInv, Signal
  PROVE  DrainInv' /\ signal_at' \in Nat
<1>1. /\ now \in Nat /\ MAX_QUEUE_WAIT \in Nat /\ MaxAttempts \in Nat
      /\ \A r \in Requests : /\ req[r].deadline \in Nat /\ req[r].sent_at \in Nat
                              /\ req[r].attempts \in Nat
  BY TimesType
<1>2. signal_at' = now /\ UNCHANGED <<now, req>>
  BY DEF Signal, timedVars
<1>3. \A n \in Nat : /\ DrainedBy(n)' \in Nat /\ now <= DrainedBy(n)'
                    /\ DrainedBy(0)' = now + MAX_QUEUE_WAIT
  <2> SUFFICES ASSUME NEW n \in Nat
               PROVE  /\ DrainedBy(n)' \in Nat /\ now <= DrainedBy(n)'
                      /\ DrainedBy(0)' = now + MAX_QUEUE_WAIT
    OBVIOUS
  <2>1. n * UPSTREAM_TIMEOUT \in Nat /\ 0 * UPSTREAM_TIMEOUT = 0
    BY ProxyAssumption
  <2>. QED BY <1>1, <1>2, <2>1 DEF DrainedBy
<1>4. ASSUME NEW r \in Requests
      PROVE  /\ req[r].deadline <= now + MAX_QUEUE_WAIT
             /\ req[r].pc = "send" =>
                   req[r].attempts >= 1 /\ req[r].sent_at <= now
  BY DEF TimedInv
<1>5. ASSUME NEW r \in Requests, req[r].pc = "send"
      PROVE  req[r].sent_at <= DrainedBy(req[r].attempts - 1)'
  <2>1. req[r].attempts - 1 \in Nat
    BY <1>1, <1>4, <1>5
  <2>2. now <= DrainedBy(req[r].attempts - 1)'
        /\ DrainedBy(req[r].attempts - 1)' \in Nat
    BY <1>2, <1>3, <2>1
  <2>. QED BY <1>1, <1>4, <1>5, <2>2
<1>6. signal_at' \in Nat /\ signal_at' <= now'
  BY <1>1, <1>2
<1>. QED BY <1>1, <1>2, <1>3, <1>4, <1>5, <1>6 DEF DrainInv

-----------------------------------------------------------------------------
LEMMA ProcessInvInit == ProcessInit => ProcessInv
<1> SUFFICES ASSUME ProcessInit PROVE ProcessInv
  OBVIOUS
<1>1. /\ ProxyInit /\ queuedAt = [r \in Requests |-> 0]
      /\ life = "serving" /\ signal_at = 0
  BY DEF ProcessInit, TimedInit, NoInstant
<1>2. /\ now = 1 /\ turnstile = <<>> /\ \A r \in Requests : req[r] = NewHandler
  BY <1>1 DEF ProxyInit, Init
<1>3. 1..Len(turnstile) = {}
  BY <1>2
<1>. QED BY <1>1, <1>2, <1>3, ProxyAssumption
         DEF ProcessInv, TimedInv, DrainInv, NewHandler, NoInstant

LEMMA ProcessInvStep ==
  ProxyInv /\ ProxyInv' /\ ProcessInv /\ [ProcessNext]_processVars => ProcessInv'
<1> SUFFICES ASSUME ProxyInv, ProxyInv', ProcessInv, [ProcessNext]_processVars
             PROVE  ProcessInv'
  OBVIOUS
<1> USE DEF ProcessInv
<1>1. CASE Serve
  <2>1. /\ TimedNext /\ Remember /\ UNCHANGED lifeVars
        /\ life = "draining" =>
              /\ \A r \in Requests : req[r].pc = "new" => req'[r].pc = "new"
              /\ Idle => now' = now
    BY <1>1 DEF Serve, TimedNext
  <2>2. life' = life /\ signal_at' = signal_at
    BY <2>1 DEF lifeVars
  <2>3. life # "draining" => DrainInv'
    BY <2>2 DEF DrainInv
  <2>4. CASE TimedTick
    <3>1. life = "draining" => ~Idle
      <4>1. now' # now
        BY <2>4, TimesType DEF TimedTick, ProxyTick, Tick
      <4>. QED BY <2>1, <4>1
    <3>. QED BY <2>1, <2>2, <2>3, <2>4, <3>1, TickKeepsTimes, TickKeepsDrain
  <2>5. CASE Background /\ UNCHANGED now
    <3>1. DrainInv'
      BY <2>2, <2>5 DEF Background, DrainInv, DrainedBy
    <3>. QED BY <2>1, <2>2, <2>5, <3>1, BackgroundKeepsTimes
  <2>6. ASSUME NEW r \in Requests, Moves(r, req'[r]), Advances(r, req'[r])
        PROVE  ProcessInv'
    BY <2>1, <2>2, <2>3, <2>6, MoveKeepsTimes, MoveKeepsDrain
  <2>. QED BY <2>1, <2>4, <2>5, <2>6, TimedSteps
<1>2. ASSUME UNCHANGED timedVars PROVE TimedInv'
  BY <1>2, BackgroundKeepsTimes DEF timedVars, Background
<1>3. CASE Signal
  BY <1>2, <1>3, SignalStartsDrain DEF Signal
<1>4. CASE Exit
  <2>1. DrainInv'
    BY <1>4 DEF Exit, DrainInv
  <2>. QED BY <1>2, <1>4, <2>1 DEF Exit
<1>5. CASE UNCHANGED processVars
  <2>1. DrainInv'
    BY <1>5 DEF processVars, DrainInv, DrainedBy
  <2>. QED BY <1>2, <1>5, <2>1 DEF processVars, timedVars
<1>. QED BY <1>1, <1>3, <1>4, <1>5 DEF ProcessNext

LEMMA ProcessInvHolds == ProcessSpec => [](ProxyInv /\ ProcessInv)
<1>1. ProcessSpec => []ProxyInv
  BY ProcessUsesProxy, ProxyInvHolds, PTL
<1>. QED BY <1>1, ProcessInvInit, ProcessInvStep, PTL DEF ProcessSpec

\* No request stays inside Pool::acquire for longer than MAX_QUEUE_WAIT, the time
\* it waits behind other sleepers included (Pool::acquire, the turnstile).
THEOREM QueueWaitAlwaysBounded == ProcessSpec => []QueueWaitIsBounded
<1>1. ASSUME ProxyInv, ProcessInv PROVE QueueWaitIsBounded
  <2> SUFFICES ASSUME NEW r \in Requests, req[r].pc = "acquire"
               PROVE  now - queuedAt[r] <= MAX_QUEUE_WAIT
    BY DEF QueueWaitIsBounded
  <2>1. now <= queuedAt[r] + MAX_QUEUE_WAIT /\ queuedAt[r] \in Nat
    BY <1>1 DEF ProcessInv, TimedInv
  <2>. QED BY <1>1, <2>1, TimesType
<1>. QED BY <1>1, ProcessInvHolds, PTL

\* After a signal the process drains within the longest wait for a key and the
\* upstream timeouts of all attempts of one request (run, shutdown_signal).
THEOREM DrainAlwaysBounded == ProcessSpec => []DrainIsBounded
<1>1. ASSUME ProxyInv, ProcessInv PROVE DrainIsBounded
  <2> SUFFICES ASSUME life = "draining"
               PROVE  now - signal_at
                        <= MAX_QUEUE_WAIT + MaxAttempts * UPSTREAM_TIMEOUT
    BY DEF DrainIsBounded
  <2>1. /\ now <= signal_at + MAX_QUEUE_WAIT + MaxAttempts * UPSTREAM_TIMEOUT
        /\ signal_at \in Nat
    BY <1>1 DEF ProcessInv, DrainInv, DrainedBy
  <2>2. MaxAttempts * UPSTREAM_TIMEOUT \in Nat
    BY MaxAttemptsType, ProxyAssumption
  <2>. QED BY <1>1, <2>1, <2>2, TimesType
<1>. QED BY <1>1, ProcessInvHolds, PTL
=============================================================================
