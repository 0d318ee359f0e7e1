----------------------------- MODULE PoolPacing ------------------------------
(***************************************************************************)
(* The pool with the history of its leases: for every key, when each lease *)
(* was given and under which limit.  The pool itself keeps only the sends  *)
(* that are still in the window (KeyState.sends), and forgets, prunes and  *)
(* relearns; the history shows that what is forgotten no longer matters.   *)
(***************************************************************************)
EXTENDS Pool

VARIABLE log

pacingVars == <<now, keys, inflight, log>>

PacingInit == Init /\ log = [i \in Key |-> <<>>]

Send(i) == [at |-> now, limit |-> keys[i].sec_limit]

PacedLease(exclude, i) ==
    Lease(exclude, i) /\ log' = [log EXCEPT ![i] = Append(@, Send(i))]

PacingNext ==
    \/ \E exclude \in SUBSET Key, i \in Key : PacedLease(exclude, i)
    \/ /\ \/ \E exclude \in SUBSET Key : Refuse(exclude)
          \/ \E i \in Key : \/ \E o \in Outcomes : Record(i, o)
                            \/ Abandon(i)
          \/ Snapshot
          \/ Tick
       /\ UNCHANGED log

PacingSpec == PacingInit /\ [][PacingNext]_pacingVars

-----------------------------------------------------------------------------
LogTypeOK == log \in [Key -> Seq([at: Instant, limit: RateLimits])]

\* No key is used faster than its rate limit: of any limit+1 consecutive leases
\* of a key, the last is at least a whole window (Brave's second plus the
\* margin) after the first, whatever was pruned, learned, held, parked or
\* returned in between.  `limit' is the limit of the last of them.
WindowRespected ==
    \A i \in Key : \A n \in 1..Len(log[i]) :
        LET first == n - log[i][n].limit
        IN  first >= 1 => log[i][n].at - log[i][first].at >= Window

\* Why it holds: the sends a key remembers are the last ones of its history,
\* and every earlier one has left the window for good.
SendsAreLatest ==
    \A i \in Key :
        LET forgotten == Len(log[i]) - Len(keys[i].sends)
        IN  /\ forgotten >= 0
            /\ \A n \in 1..Len(keys[i].sends) :
                  keys[i].sends[n] = log[i][forgotten + n].at
            /\ \A n \in 1..forgotten : Expired(log[i][n].at, now)

\* The pool is a sliding-window rate limiter for each key.
Limiter == INSTANCE SlidingWindow WITH Limits <- RateLimits
ImplementsSlidingWindow == Limiter!Spec
=============================================================================
