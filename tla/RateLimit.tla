------------------------------ MODULE RateLimit ------------------------------
(***************************************************************************)
(* Brave's rate-limit headers, as src/ratelimit.rs reads them.             *)
(*                                                                         *)
(* Every response may carry X-RateLimit-Limit, -Remaining, -Reset and      *)
(* -Policy, each a comma-separated list whose entry 1 describes the        *)
(* one-second window and entry 2 the month, and possibly Retry-After.      *)
(* A header is the sequence of its entries, <<>> when it is not there; an  *)
(* entry that does not parse as a number is Absent, and so is every other  *)
(* Option<u64> that is None.  Durations are in ticks: a second is WINDOW   *)
(* ticks long.                                                             *)
(***************************************************************************)
EXTENDS Integers, Sequences

CONSTANTS WINDOW,           \* Brave's burst window, one second, in ticks
          SECOND_WAIT_MAX   \* longest hold taken over from a 429, in seconds

ASSUME RateLimitAssumption == /\ WINDOW \in Nat \ {0}
                              /\ SECOND_WAIT_MAX \in Nat \ {0}

Absent == -1
OptNat == Nat \cup {Absent}

Min2(a, b) == IF a <= b THEN a ELSE b
Max2(a, b) == IF a >= b THEN a ELSE b

(***************************************************************************)
(* What a response carries, and what is kept of it.  A RateLimitInfo with  *)
(* present = FALSE is the code's None: everything in it is Absent.         *)
(***************************************************************************)
Header  == Seq(OptNat)
Headers == [limit: Header, remaining: Header, reset: Header,
            policy: Header, retry_after: OptNat]

Windows == [second: OptNat, month: OptNat]

RateLimitInfo == [present: BOOLEAN, limit: Windows, remaining: Windows,
                  reset: Windows, retry_after: OptNat]

ParseWindows(v) ==
    [second |-> IF Len(v) >= 1 THEN v[1] ELSE Absent,
     month  |-> IF Len(v) >= 2 THEN v[2] ELSE Absent]

NoInfo == [present |-> FALSE, limit |-> ParseWindows(<<>>),
           remaining |-> ParseWindows(<<>>), reset |-> ParseWindows(<<>>),
           retry_after |-> Absent]

\* Retry-After is read only when one of the four X-RateLimit headers is there.
FromHeaders(h) ==
    IF \A v \in {h.limit, h.remaining, h.reset, h.policy} : v = <<>>
    THEN NoInfo
    ELSE [present |-> TRUE, limit |-> ParseWindows(h.limit),
          remaining |-> ParseWindows(h.remaining),
          reset |-> ParseWindows(h.reset), retry_after |-> h.retry_after]

-----------------------------------------------------------------------------
Secs(n) == n * WINDOW

\* A monthly limit of 0 means that the plan has no monthly cap.
MonthExhausted(rl) == rl.limit.month # 0 /\ rl.remaining.month = 0

\* How long a key is held after a 429: the longer of reset and Retry-After,
\* at least one second, at most SECOND_WAIT_MAX.
SecondWait(rl) ==
    LET reset == IF rl.reset.second = Absent THEN 1 ELSE rl.reset.second
    IN  Secs(Min2(SECOND_WAIT_MAX, Max2(1, Max2(reset, rl.retry_after))))

\* Time until the month resets, Absent if the response does not say.
MonthReset(rl) ==
    IF rl.reset.month = Absent THEN Absent ELSE Secs(rl.reset.month)
=============================================================================
