-------------------------------- MODULE Proxy --------------------------------
(***************************************************************************)
(* The requests and the pool they share: the handler of src/proxy.rs with  *)
(* Pool::acquire and its FIFO turnstile.                                   *)
(*                                                                         *)
(* A request enters with a deadline, queues at the turnstile, and as head  *)
(* of the queue asks the pool for a key: it gets one and leaves the        *)
(* turnstile, is refused, or sleeps until the instant the pool named while *)
(* those behind it wait.  With a key it sends upstream, records what came  *)
(* back, and answers its client or starts over with the keys it has tried. *)
(* The client may disconnect whenever the handler waits; the handler is    *)
(* then dropped where it stands, its place in the queue and its lease with *)
(* it (this is what hyper does to a handler; src/ relies on it).           *)
(*                                                                         *)
(* A step ends where the handler awaits or releases the pool's mutex.  The *)
(* pool is module Pool: keys and inflight change only by its actions.      *)
(***************************************************************************)
EXTENDS Pool, SequencesExt

CONSTANTS Requests,          \* the requests, each used once
          MAX_QUEUE_WAIT,    \* from a request's start to its deadline
          UPSTREAM_TIMEOUT,  \* from sending to giving up on an answer
          ArriveBy           \* bound on when requests start

\* MaxInflight bounds nothing here: a request has one lease at a time.
ASSUME ProxyAssumption == /\ MAX_QUEUE_WAIT \in Nat
                          /\ UPSTREAM_TIMEOUT \in Nat \ {0}
                          /\ ArriveBy \in Nat
                          /\ TransportError \in Outcomes
                          /\ IsFiniteSet(Requests)
                          /\ Cardinality(Requests) <= MaxInflight

VARIABLES turnstile,  \* requests inside Pool::acquire in FIFO order; the first
                      \* holds the turn
          req         \* the local variables of each handler

proxyVars == <<now, keys, inflight, turnstile, req>>

\* Two attempts at least, five at most, else one per key.
MaxAttempts == Max2(2, Min2(N, 5))

NoKey == 0
NoResponse == "none"

\* pc: "new", "acquire" (queued at the turnstile, or asleep holding the turn
\* until `wake'), "send" (awaiting upstream), "respond" (about to pass on an
\* upstream response), "done" (answered), "gone".  `last_response' is the class
\* of the last response that asked for a retry; `answer' is the error the proxy
\* made up or, for "upstream", the response passed on, whose class is `status'.
Answers == {"none", "rejected", "upstream", "rotator_saturated",
            "no_usable_key", "upstream_unreachable"}

Handler == [pc: {"new", "acquire", "send", "respond", "done", "gone"},
            deadline: OptInstant, wake: OptInstant, sent_at: OptInstant,
            lease: Key \cup {NoKey}, tried: SUBSET Key, attempts: 0..MaxAttempts,
            last_response: Class \cup {NoResponse}, last_error: BOOLEAN,
            answer: Answers, status: Class \cup {NoResponse}]

ProxyTypeOK == /\ TypeOK
               /\ turnstile \in Seq(Requests)
               /\ req \in [Requests -> Handler]

NewHandler == [pc |-> "new", deadline |-> NoInstant, wake |-> NoInstant,
               sent_at |-> NoInstant, lease |-> NoKey, tried |-> {},
               attempts |-> 0, last_response |-> NoResponse,
               last_error |-> FALSE, answer |-> "none", status |-> NoResponse]

ProxyInit == /\ Init
             /\ turnstile = <<>>
             /\ req = [r \in Requests |-> NewHandler]

-----------------------------------------------------------------------------
\* Unauthorized, or the body too large: answered before a deadline is set.
Reject(r) ==
    /\ req[r].pc = "new"
    /\ req' = [req EXCEPT ![r].pc = "done", ![r].answer = "rejected"]
    /\ UNCHANGED <<now, keys, inflight, turnstile>>

Arrive(r) ==
    /\ req[r].pc = "new"
    /\ now <= ArriveBy
    /\ req' = [req EXCEPT ![r].pc = "acquire", ![r].deadline = now + MAX_QUEUE_WAIT]
    /\ turnstile' = Append(turnstile, r)
    /\ UNCHANGED <<now, keys, inflight>>

-----------------------------------------------------------------------------
(* Pool::acquire: the turn of the request at the head of the queue.        *)

HasTurn(r) == /\ turnstile # <<>>
              /\ Head(turnstile) = r
              /\ req[r].wake <= now

LeaseFor(r, i) ==
    /\ HasTurn(r)
    /\ Lease(req[r].tried, i)
    /\ turnstile' = Tail(turnstile)
    /\ req' = [req EXCEPT ![r] =
                 [@ EXCEPT !.pc = "send", !.wake = NoInstant, !.lease = i,
                           !.tried = req[r].tried \cup {i},
                           !.attempts = req[r].attempts + 1,
                           !.sent_at = now]]

\* Mutant of Sleep: the deadline is not looked at.
SleepAnyway(r) == /\ HasTurn(r)
                  /\ Refuse(req[r].tried)
                  /\ AnyHealthy(req[r].tried, now)
                  /\ req' = [req EXCEPT ![r].wake = NextAt(req[r].tried, now)]
                  /\ UNCHANGED turnstile

\* Next::At by the deadline: sleep, keeping the turn.
Sleep(r) ==
    LET at == NextAt(req[r].tried, now)
    IN  /\ HasTurn(r)
        /\ Refuse(req[r].tried)
        /\ AnyHealthy(req[r].tried, now)
        /\ at <= req[r].deadline
        /\ req' = [req EXCEPT ![r].wake = at]
        /\ UNCHANGED turnstile

\* Mutant of GiveUpQueueing: the turn is kept.
GiveUpKeepingTurn(r, error) ==
    /\ HasTurn(r)
    /\ Refuse(req[r].tried)
    /\ req' = [req EXCEPT ![r].pc = "done", ![r].answer = error]
    /\ UNCHANGED turnstile

GiveUpQueueing(r, error) ==
    /\ HasTurn(r)
    /\ Refuse(req[r].tried)
    /\ turnstile' = Tail(turnstile)
    /\ req' = [req EXCEPT ![r] = [@ EXCEPT !.pc = "done", !.wake = NoInstant,
                                           !.answer = error]]

\* Next::At after the deadline.
Saturated(r) == /\ GiveUpQueueing(r, "rotator_saturated")
                /\ AnyHealthy(req[r].tried, now)
                /\ NextAt(req[r].tried, now) > req[r].deadline

Unavailable(r) == /\ GiveUpQueueing(r, "no_usable_key")
                  /\ ~AnyHealthy(req[r].tried, now)

-----------------------------------------------------------------------------
(* The result of the upstream request.                                     *)

\* Mutant of Retry: one attempt too many.
RetryOnceMore(r, h) ==
    IF h.attempts <= MaxAttempts
    THEN /\ req' = [req EXCEPT ![r] = [h EXCEPT !.pc = "acquire"]]
         /\ turnstile' = Append(turnstile, r)
    ELSE /\ req' = [req EXCEPT ![r] = [h EXCEPT !.pc = "respond"]]
         /\ UNCHANGED turnstile

\* The handler after a retry verdict: back to the turnstile, or, when the
\* attempts are used up, the last response, or the last error if there is none.
Retry(r, h) ==
    IF h.attempts < MaxAttempts
    THEN /\ req' = [req EXCEPT ![r] = [h EXCEPT !.pc = "acquire"]]
         /\ turnstile' = Append(turnstile, r)
    ELSE /\ req' = [req EXCEPT ![r] =
                      IF h.last_response # NoResponse
                      THEN [h EXCEPT !.pc = "respond", !.status = h.last_response]
                      ELSE [h EXCEPT !.pc = "done",
                                     !.answer = "upstream_unreachable"]]
         /\ UNCHANGED turnstile

\* Mutant of Answered: an error replaces the response of an earlier attempt.
AnsweredForgetting(r, o) ==
    LET h == [req[r] EXCEPT !.lease = NoKey, !.sent_at = NoInstant]
    IN  /\ req[r].pc = "send"
        /\ Record(req[r].lease, o)
        /\ IF o.class = "transport"
           THEN Retry(r, [h EXCEPT !.last_error = TRUE, !.last_response = NoResponse])
           ELSE Retry(r, [h EXCEPT !.last_response = o.class])

\* Mutant of Answered: an attempt that failed without a response is not recorded.
AnsweredUnrecorded(r, o) ==
    LET h == [req[r] EXCEPT !.lease = NoKey, !.sent_at = NoInstant]
    IN  /\ req[r].pc = "send"
        /\ o.class = "transport"
        /\ Retry(r, [h EXCEPT !.last_error = TRUE])
        /\ UNCHANGED <<now, keys, inflight>>

\* Mutant of Answered: a failed attempt gives its slot in the window back.
AnsweredRefunding(r, o) ==
    LET h == [req[r] EXCEPT !.lease = NoKey, !.sent_at = NoInstant]
        i == req[r].lease
    IN  /\ req[r].pc = "send"
        /\ o.class = "transport"
        /\ keys' = [keys EXCEPT ![i] = [Digest(@, now, o) EXCEPT !.sends = <<>>]]
        /\ inflight' = [inflight EXCEPT ![i] = @ - 1]
        /\ UNCHANGED now
        /\ Retry(r, [h EXCEPT !.last_error = TRUE])

Answered(r, o) ==
    LET h == [req[r] EXCEPT !.lease = NoKey, !.sent_at = NoInstant]
    IN  /\ req[r].pc = "send"
        /\ Record(req[r].lease, o)
        /\ CASE Verdict(o) # "RetryOtherKey" ->
                  /\ req' = [req EXCEPT ![r] = [h EXCEPT !.pc = "respond",
                                                          !.status = o.class]]
                  /\ UNCHANGED turnstile
             [] Verdict(o) = "RetryOtherKey" /\ o.class = "transport" ->
                  Retry(r, [h EXCEPT !.last_error = TRUE])
             [] OTHER -> Retry(r, [h EXCEPT !.last_response = o.class])

UpstreamAnswer(r) == \E o \in Outcomes : Answered(r, o)

\* The total budget of the upstream request is spent: a transport error.
UpstreamTimeout(r) == /\ now >= req[r].sent_at + UPSTREAM_TIMEOUT
                      /\ Answered(r, TransportError)

\* The response is passed on with a report of the pool in its headers.  The
\* handler does not wait here, but the pool's mutex was released in between.
Respond(r) ==
    /\ req[r].pc = "respond"
    /\ Snapshot
    /\ req' = [req EXCEPT ![r].pc = "done", ![r].answer = "upstream"]
    /\ UNCHANGED turnstile

-----------------------------------------------------------------------------
Disconnect(r) ==
    /\ req[r].pc \in {"acquire", "send"}
    /\ req' = [req EXCEPT ![r] = [NewHandler EXCEPT !.pc = "gone"]]
    /\ \/ /\ req[r].pc = "acquire"
          /\ \E n \in DOMAIN turnstile :
                /\ turnstile[n] = r
                /\ turnstile' = RemoveAt(turnstile, n)
          /\ UNCHANGED <<now, keys, inflight>>
       \/ /\ req[r].pc = "send"
          /\ Abandon(req[r].lease)
          /\ UNCHANGED turnstile

Report == Snapshot /\ UNCHANGED <<turnstile, req>>

ProxyTick == Tick /\ UNCHANGED <<turnstile, req>>

Acquire(r) == \/ \E i \in Key : LeaseFor(r, i)
              \/ Sleep(r)
              \/ Saturated(r)
              \/ Unavailable(r)

ProxyNext == \/ \E r \in Requests : \/ Reject(r)
                                    \/ Arrive(r)
                                    \/ Acquire(r)
                                    \/ UpstreamAnswer(r)
                                    \/ UpstreamTimeout(r)
                                    \/ Respond(r)
                                    \/ Disconnect(r)
             \/ Report
             \/ ProxyTick

ProxySpec == ProxyInit /\ [][ProxyNext]_proxyVars

-----------------------------------------------------------------------------
(* Properties                                                              *)

\* Every lease belongs to the one request that is upstream with it: none is
\* recorded twice, and none outlives its request, answered or disconnected.
LeasesAreHeld ==
    \A i \in Key :
        inflight[i] = Cardinality({r \in Requests : req[r].lease = i})

\* The turnstile holds the requests inside Pool::acquire, each once, so that no
\* request waits for a turn that never comes; only its head is asleep, and
\* not past its own deadline.
TurnstileIsSound ==
    /\ \A r \in Requests :
          Cardinality({n \in DOMAIN turnstile : turnstile[n] = r})
            = IF req[r].pc = "acquire" THEN 1 ELSE 0
    /\ \A r \in Requests : req[r].wake # NoInstant =>
          r = Head(turnstile) /\ req[r].wake <= req[r].deadline

\* A request is sent again with a key it has already tried only while every key
\* it has not tried is parked.
RetriesAnotherKey ==
    [][\A r \in Requests :
         req'[r].attempts > req[r].attempts /\ req'[r].lease \in req[r].tried
           => \A i \in Key \ req[r].tried : keys'[i].health # "Ok"]_proxyVars

\* Once Brave has answered one of the attempts, the client is not told that
\* upstream was unreachable, whatever failed afterwards.
AnAnswerIsNotLost ==
    \A r \in Requests :
        [](req[r].last_response # NoResponse
             => [](req[r].answer # "upstream_unreachable"))

\* A client is shown an upstream response that another key might have avoided
\* (429, 401/403, 5xx) only after all the attempts were made.
FailureOnlyAfterAllAttempts ==
    \A r \in Requests :
        req[r].status \in {"429", "auth", "5xx"} => req[r].attempts = MaxAttempts

\* The pool would still tell request r what r sleeps on.
StillTold(r) == /\ Usable(req[r].tried, now) = {}
                /\ NextAt(req[r].tried, now) >= req[r].wake

\* What the holder of the turn was told when it went to sleep stays true until
\* it wakes, unless the result of another request comes in meanwhile, which may
\* raise a limit, shorten a hold or park the keys that come before: of such a
\* slot it knows nothing.  No report, no client that leaves or arrives, and no
\* time that passes makes a slot free earlier (Pool::acquire, sleep_until).
OnlyAResultFreesEarlier ==
    [][\A r \in Requests :
         /\ now' < req'[r].wake
         /\ req'[r].wake = req[r].wake => StillTold(r)
         /\ ~StillTold(r)'
         => \E q \in Requests : req[q].pc = "send"
                               /\ req'[q].pc \notin {"send", "gone"}]_proxyVars

\* To the keys, the requests are nothing but a use of the pool.
UsesPool == Spec
=============================================================================
