------------------------------- MODULE Process -------------------------------
(***************************************************************************)
(* The end of the process (src/main.rs, run): on a signal it takes no new  *)
(* request, lets the ones it has finish, and exits when none is left       *)
(* (axum's graceful shutdown, external; src/ relies on it).  The requests  *)
(* and the clock are those of module ProxyTimed.                           *)
(***************************************************************************)
EXTENDS ProxyTimed

VARIABLES life,      \* "serving", "draining" or "exited"
          signal_at  \* when the signal came

lifeVars == <<life, signal_at>>
processVars == <<now, keys, inflight, turnstile, req, queuedAt, life, signal_at>>

ProcessInit == TimedInit /\ life = "serving" /\ signal_at = NoInstant

Idle == \A r \in Requests : req[r].pc \in {"new", "done", "gone"}

\* A process that drains lets nobody in, and exits as soon as it is idle.
Serve ==
    /\ life # "exited"
    /\ TimedNext
    /\ life = "draining" =>
          /\ \A r \in Requests : req[r].pc = "new" => req'[r].pc = "new"
          /\ Idle => now' = now
    /\ UNCHANGED lifeVars

\* shutdown_signal: ctrl-c or SIGTERM; a second one changes nothing.
Signal == /\ life = "serving"
          /\ life' = "draining" /\ signal_at' = now
          /\ UNCHANGED timedVars

Exit == /\ life = "draining" /\ Idle
        /\ life' = "exited"
        /\ UNCHANGED <<timedVars, signal_at>>

ProcessNext == Serve \/ Signal \/ Exit

\* The runtime polls every handler that is ready, time goes on, and a process that
\* is idle exits.  Nothing is asked of Brave, whose silence the upstream timeout
\* ends, nor of the clients, nor that a signal ever comes.
ProcessFairness ==
    /\ \A r \in Requests : /\ WF_processVars(Serve /\ Acquire(r))
                           /\ WF_processVars(Serve /\ UpstreamTimeout(r))
                           /\ WF_processVars(Serve /\ Respond(r))
    /\ WF_processVars(Serve /\ TimedTick)
    /\ WF_processVars(Exit)

ProcessSpec == ProcessInit /\ [][ProcessNext]_processVars /\ ProcessFairness

-----------------------------------------------------------------------------
(* Properties                                                              *)

\* A process that was told to stop does, whatever its requests wait for.
ShutdownCompletes == life = "draining" ~> life = "exited"

\* It takes no longer than the longest wait for a key and the upstream timeouts
\* of all attempts of one request: the requests it still has drain side by side,
\* since none of them sleeps past its deadline, nor makes others wait for longer.
DrainIsBounded ==
    life = "draining" =>
        now - signal_at <= MAX_QUEUE_WAIT + MaxAttempts * UPSTREAM_TIMEOUT
=============================================================================
