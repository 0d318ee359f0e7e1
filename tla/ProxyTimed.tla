----------------------------- MODULE ProxyTimed ------------------------------
(***************************************************************************)
(* The requests under a clock that waits for them: module Proxy lets time  *)
(* pass between any two steps, here it does not pass while a handler has   *)
(* something to do.  A tick is long compared to the time the runtime takes *)
(* to run a task that is ready, so a handler at the head of the turnstile  *)
(* acts, and a timer fires, in the tick in which they are due.  Only under *)
(* this assumption can the code promise anything about how long a request  *)
(* waits; and it lets a bounded clock be long enough for every request.    *)
(***************************************************************************)
EXTENDS Proxy

VARIABLE queuedAt   \* history: when each request last entered Pool::acquire

timedVars == <<now, keys, inflight, turnstile, req, queuedAt>>

\* Every request that starts by ArriveBy ends before the clock does.
ASSUME HorizonAssumption ==
    MaxTime >= ArriveBy + MaxAttempts * (MAX_QUEUE_WAIT + UPSTREAM_TIMEOUT) + 1

TimedInit == ProxyInit /\ queuedAt = [r \in Requests |-> NoInstant]

UpstreamDue(r) == req[r].pc = "send" /\ now >= req[r].sent_at + UPSTREAM_TIMEOUT

Due == \E r \in Requests : HasTurn(r) \/ UpstreamDue(r) \/ req[r].pc = "respond"

TimedTick == ~Due /\ ProxyTick

Remember == queuedAt' = [r \in Requests |->
                            CASE req'[r].pc # "acquire" -> NoInstant
                              [] req'[r].pc = "acquire" /\ req[r].pc # "acquire" -> now
                              [] OTHER -> queuedAt[r]]

TimedNext == /\ \/ \E r \in Requests : \/ Reject(r)
                                       \/ Arrive(r)
                                       \/ Acquire(r)
                                       \/ UpstreamAnswer(r)
                                       \/ UpstreamTimeout(r)
                                       \/ Respond(r)
                                       \/ Disconnect(r)
                \/ Report
                \/ TimedTick
             /\ Remember

-----------------------------------------------------------------------------
(* Properties                                                              *)

\* A request does not stay inside Pool::acquire for longer than
\* MAX_QUEUE_WAIT, the time behind other sleepers included: whoever is ahead
\* of it started before it queued, and sleeps only up to its own deadline.
QueueWaitIsBounded ==
    \A r \in Requests :
        req[r].pc = "acquire" => now - queuedAt[r] <= MAX_QUEUE_WAIT

\* Every request that is let in is answered, unless its client goes away.
EveryRequestEnds ==
    \A r \in Requests :
        req[r].pc = "acquire" ~> req[r].pc \in {"done", "gone"}
=============================================================================
