---------------------------- MODULE PoolHistory ------------------------------
(***************************************************************************)
(* The pool with the history of what came back with each key: how many     *)
(* failures in a row, how long the key was parked for what, how often it   *)
(* was tried since, and how long Brave asked it to be left alone.  The     *)
(* pool keeps counters in place of this history, which requests that       *)
(* overlap feed in any order; the properties compare the two.              *)
(*                                                                         *)
(* A response is given with the headers it carried, before FromHeaders has *)
(* made of them what the pool is told.                                     *)
(***************************************************************************)
EXTENDS Pool

CONSTANT Responses   \* the responses Brave may send

ASSUME PoolHistoryAssumption ==
    Responses \subseteq [class: Class \ {"transport"}, headers: Headers]

VARIABLE past

historyVars == <<now, keys, inflight, past>>

Failing == {"5xx", "transport"}
Cause   == {"auth", "failure", "429"}

\* For each key: `last', the class of the last result; `streak', the failing
\* results in a row since then the key was last parked or answered otherwise;
\* `park', how long it was last parked for each cause since the last success;
\* `probes', the requests sent since it was last parked; `asked', the latest
\* instant until which a 429 asked to wait.
Past == [last: Class \cup {"none"}, streak: Nat, park: [Cause -> Nat],
         probes: Nat, asked: OptInstant]

NoPark == [c \in Cause |-> 0]

HistoryInit ==
    /\ Init
    /\ past = [i \in Key |-> [last |-> "none", streak |-> 0, park |-> NoPark,
                              probes |-> 0, asked |-> NoInstant]]

-----------------------------------------------------------------------------
Struck(i) == keys'[i].disable_strikes > keys[i].disable_strikes

CauseOf(class) == CASE class = "auth" -> "auth"
                    [] class \in Failing -> "failure"
                    [] OTHER -> "429"

\* The result o, digested at instant t, of a request for which Brave asked to
\* wait until `asked'.
Digested(i, o, t, asked) ==
    /\ RecordAt(i, o, t)
    /\ past' = [past EXCEPT ![i] =
         [last   |-> o.class,
          streak |-> IF o.class \in Failing /\ ~Struck(i) THEN @.streak + 1 ELSE 0,
          park   |-> CASE o.class = "2xx" -> NoPark
                       [] Struck(i) -> [@.park EXCEPT ![CauseOf(o.class)] =
                                          keys'[i].until - t]
                       [] OTHER -> @.park,
          probes |-> IF Struck(i) THEN 0 ELSE @.probes,
          asked  |-> Max2(@.asked, asked)]]

Receive(i, r) ==
    \E t \in Reading :
        Digested(i, [class |-> r.class, rl |-> FromHeaders(r.headers)], t,
                 IF r.class = "429" /\ r.headers.retry_after # Absent
                 THEN t + Secs(Min2(r.headers.retry_after, SECOND_WAIT_MAX))
                 ELSE NoInstant)

ReceiveNothing(i) ==
    \E t \in Reading : Digested(i, TransportError, t, NoInstant)

Use(exclude, i) == /\ Lease(exclude, i)
                   /\ past' = [past EXCEPT ![i].probes = @ + 1]

HistoryNext ==
    \/ \E i \in Key : \/ \E exclude \in SUBSET Key : Use(exclude, i)
                      \/ \E r \in Responses : Receive(i, r)
                      \/ ReceiveNothing(i)
    \/ /\ \/ \E exclude \in SUBSET Key : Refuse(exclude)
          \/ \E i \in Key : Abandon(i)
          \/ Snapshot
          \/ Tick
       /\ UNCHANGED past

HistorySpec == HistoryInit /\ [][HistoryNext]_historyVars

-----------------------------------------------------------------------------
(* Properties                                                              *)

PastTypeOK == past \in [Key -> Past]

\* FAIL_THRESHOLD failing results in a row park the key, whatever happened
\* between them: cooldowns that ended, reports, clients that left, results of
\* requests sent before the last park (KeyState::fail).
FailingKeyIsParked == \A i \in Key : past[i].streak < FAIL_THRESHOLD

\* A key that is parked for the same cause again, without a success in between,
\* is parked at least twice as long, up to the longest back-off of that cause,
\* in whatever order the results of its requests are digested and however
\* parks of other causes mix with them (KeyState::disable, refresh).
LongestPark == [c \in Cause |-> CASE c = "auth" -> AUTH_BACKOFF_MAX
                                  [] c = "failure" -> FAIL_BACKOFF_MAX
                                  [] OTHER -> UNEXPLAINED_429_BACKOFF]

ParksGrow ==
    [][\A i \in Key : \A c \in Cause :
         Struck(i) /\ past[i].park[c] > 0 /\ CauseOf(past'[i].last) = c
           => past'[i].park[c] >= Min2(2 * past[i].park[c], LongestPark[c])]_historyVars

-----------------------------------------------------------------------------
(* Statements of the documentation that the code does not keep.            *)

\* pool.rs, Health::Disabled: skipped until `until', then probed with one live
\* request.  So no more than one is sent before anything is known of it.
OneLiveProbe ==
    [][\A i \in Key :
         inflight'[i] > inflight[i] /\ keys[i].disable_strikes > 0
           => past[i].probes = 0]_historyVars

\* README: if Brave answers 429, the key is held for the time given in
\* X-RateLimit-Reset / Retry-After.  So it is not used before.
RetryAfterIsHeard ==
    [][\A i \in Key :
         inflight'[i] > inflight[i] => now >= past[i].asked]_historyVars
=============================================================================
