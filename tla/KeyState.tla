------------------------------ MODULE KeyState -------------------------------
(***************************************************************************)
(* One API key and everything the pool does to it (src/pool.rs, KeyState): *)
(* the sliding window of its own sends, the quota learned from Brave, the  *)
(* health of the key and the back-off that parks it.  The operators take   *)
(* the key's record and the instant `t' at which they are called, and      *)
(* return the new record.                                                  *)
(*                                                                         *)
(* Instants are positive ticks of the monotonic clock; NoInstant stands    *)
(* for None and is before every instant, as None is in Rust's order on     *)
(* Option<Instant>.  The fields that only feed logs and the status report  *)
(* (labels, reasons, last_ok, disabled_since, most counters) are left out. *)
(***************************************************************************)
EXTENDS RateLimit, FiniteSetsExt

CONSTANTS WINDOW_MARGIN,            \* added to WINDOW for network jitter
          DEFAULT_RPS,              \* requests/second until Brave says more
          MAX_LEARNED_RPS,
          FAIL_THRESHOLD, FAIL_BACKOFF_BASE, FAIL_BACKOFF_MAX,
          AUTH_BACKOFF_BASE, AUTH_BACKOFF_MAX,
          UNEXPLAINED_429_THRESHOLD, UNEXPLAINED_429_BACKOFF,
          EXHAUSTED_FALLBACK, OVERRIDE_CAP_FALLBACK,
          U64_MAX                   \* rank of a key whose quota is unknown

ASSUME KeyStateAssumption ==
    /\ {WINDOW_MARGIN, DEFAULT_RPS, U64_MAX} \subseteq Nat
    /\ {MAX_LEARNED_RPS, FAIL_THRESHOLD, UNEXPLAINED_429_THRESHOLD}
          \subseteq Nat \ {0}
    /\ {FAIL_BACKOFF_BASE, FAIL_BACKOFF_MAX, AUTH_BACKOFF_BASE,
        AUTH_BACKOFF_MAX, UNEXPLAINED_429_BACKOFF, EXHAUSTED_FALLBACK,
        OVERRIDE_CAP_FALLBACK} \subseteq Nat \ {0}

\* The longest back-off is reached before the factor of Disable stops growing
\* (in the code within five strikes, of the seventeen that its shift allows).
ASSUME BackoffAssumption ==
    /\ FAIL_BACKOFF_MAX <= FAIL_BACKOFF_BASE * 65536
    /\ AUTH_BACKOFF_MAX <= AUTH_BACKOFF_BASE * 65536

Window == WINDOW + WINDOW_MARGIN

NoInstant == 0
Instant   == Nat \ {NoInstant}
OptInstant == Nat

Health == {"Ok", "Disabled", "Exhausted"}

RateLimits == 1..Max2(MAX_LEARNED_RPS, Max2(DEFAULT_RPS, 1))

\* `until' belongs to Disabled and Exhausted, and is NoInstant in Ok; `cap' is
\* monthly_cap_override, `ok' is stats.ok.
KeyRecord == [health: Health, until: OptInstant, sec_limit: RateLimits,
              month_limit: OptNat, month_remaining: OptNat,
              month_reset_at: OptInstant, hold_until: OptInstant,
              sends: Seq(Instant), last_used: OptInstant,
              consecutive_failures: Nat, consecutive_429: Nat,
              disable_strikes: Nat, ok: Nat, cap: OptNat]

NewKey(cap) ==
    [health |-> "Ok", until |-> NoInstant, sec_limit |-> Max2(DEFAULT_RPS, 1),
     month_limit |-> Absent, month_remaining |-> Absent,
     month_reset_at |-> NoInstant, hold_until |-> NoInstant, sends |-> <<>>,
     last_used |-> NoInstant, consecutive_failures |-> 0,
     consecutive_429 |-> 0, disable_strikes |-> 0, ok |-> 0, cap |-> cap]

-----------------------------------------------------------------------------
(* Time passing: the cooldown that ends, the sends that leave the window.  *)
(* Here and below, a definition called a mutant is no part of the model:   *)
(* it is the definition after it with a mistake in it, which some property *)
(* has to notice.                                                          *)

\* Mutant of Refresh: a cooldown ends one tick early.
RefreshEarly(k, t) ==
    IF k.health # "Ok" /\ k.until <= t + 1
    THEN [k EXCEPT !.health = "Ok", !.until = NoInstant] ELSE k

\* Mutant of Refresh: a key that comes back starts with an empty window.
RefreshForgets(k, t) ==
    IF k.health # "Ok" /\ k.until <= t
    THEN [k EXCEPT !.health = "Ok", !.until = NoInstant, !.sends = <<>>] ELSE k

\* Mutant of Refresh: a key that comes back starts with a clean record.
RefreshForgives(k, t) ==
    IF k.health # "Ok" /\ k.until <= t
    THEN [k EXCEPT !.health = "Ok", !.until = NoInstant, !.disable_strikes = 0]
    ELSE k

\* A key whose cooldown has elapsed is used again; after an exhausted month
\* the remembered quota is forgotten (the lifetime counter `ok' is not).
Refresh(k, t) ==
    CASE k.health = "Disabled" /\ k.until <= t ->
           [k EXCEPT !.health = "Ok", !.until = NoInstant]
      [] k.health = "Exhausted" /\ k.until <= t ->
           [k EXCEPT !.health = "Ok", !.until = NoInstant,
                     !.month_remaining = Absent, !.month_reset_at = NoInstant]
      [] OTHER -> k

\* Mutant of Expired: the margin is forgotten.
ExpiredWithoutMargin(s, t) == t - s >= WINDOW

Expired(s, t) == t - s >= Window

\* Drops the expired sends at the front of the queue, up to the first that is
\* still inside the window.
PruneWindow(sends, t) ==
    LET fresh == {i \in 1..Len(sends) : ~Expired(sends[i], t)}
    IN  IF fresh = {} THEN <<>> ELSE SubSeq(sends, Min(fresh), Len(sends))

\* What KeyState::availability changes: an elapsed hold and the old sends go.
Settle(k, t) ==
    IF k.health # "Ok" \/ k.hold_until > t THEN k
    ELSE [k EXCEPT !.hold_until = NoInstant, !.sends = PruneWindow(@, t)]

\* Mutant of Available: one send too many in the window.
AvailableOneMore(k) == /\ k.health = "Ok"
                       /\ k.hold_until = NoInstant
                       /\ Len(k.sends) <= k.sec_limit

\* What it returns, of a settled key: Ok(()) when the key is available, else
\* the earliest instant at which it may be.
Available(k) == /\ k.health = "Ok"
                /\ k.hold_until = NoInstant
                /\ Len(k.sends) < k.sec_limit

\* Mutant of EligibleAt: waits for the newest send instead of the oldest.
EligibleAfterNewest(k) ==
    CASE k.health # "Ok" -> k.until
      [] k.health = "Ok" /\ k.hold_until # NoInstant -> k.hold_until
      [] OTHER -> k.sends[Len(k.sends)] + Window

EligibleAt(k) ==
    CASE k.health # "Ok" -> k.until
      [] k.health = "Ok" /\ k.hold_until # NoInstant -> k.hold_until
      [] OTHER -> k.sends[1] + Window

\* Mutant of FreeSlots: a held key is counted.
FreeSlotsWhileHeld(k) ==
    IF k.health # "Ok" THEN 0 ELSE Max2(0, k.sec_limit - Len(k.sends))

FreeSlots(k) ==
    IF k.health # "Ok" \/ k.hold_until # NoInstant THEN 0
    ELSE Max2(0, k.sec_limit - Len(k.sends))

-----------------------------------------------------------------------------
(* The monthly quota.  A configured cap takes precedence over the headers. *)

MonthUnlimited(k) == k.cap = Absent /\ k.month_limit = 0

EffectiveMonthUsed(k) ==
    CASE k.cap # Absent -> k.ok
      [] k.cap = Absent /\ k.month_limit # Absent /\ k.month_remaining # Absent
           -> Max2(0, k.month_limit - k.month_remaining)
      [] OTHER -> 0

MonthRemainingForRanking(k) ==
    CASE k.cap # Absent -> Max2(0, k.cap - EffectiveMonthUsed(k))
      [] k.cap = Absent /\ (MonthUnlimited(k) \/ k.month_remaining = Absent)
           -> U64_MAX
      [] OTHER -> k.month_remaining

OverrideCapExhausted(k) == k.cap # Absent /\ EffectiveMonthUsed(k) >= k.cap

\* Mutant of LearnLimits: what the response says is believed without a bound.
LearnAnyLimit(k, t, rl) ==
    [k EXCEPT !.sec_limit = IF rl.limit.second > 0 THEN rl.limit.second ELSE @]

LearnLimits(k, t, rl) ==
    [k EXCEPT
       !.sec_limit = IF rl.limit.second > 0
                     THEN Min2(rl.limit.second, MAX_LEARNED_RPS) ELSE @,
       !.month_limit = IF rl.limit.month # Absent THEN rl.limit.month ELSE @,
       !.month_remaining = IF rl.remaining.month # Absent
                           THEN rl.remaining.month ELSE @,
       !.month_reset_at = IF rl.reset.month # Absent
                          THEN t + MonthReset(rl) ELSE @]

-----------------------------------------------------------------------------
(* Parking a key.                                                          *)

\* 1 << n for the shifts the back-off uses, n \in 0..16
ShiftOne == <<1, 2, 4, 8, 16, 32, 64, 128, 256, 512, 1024, 2048, 4096, 8192,
              16384, 32768, 65536>>

Backoff(strikes, base, max) == Min2(base * ShiftOne[Min2(strikes, 17)], max)

\* Whatever state the key is in, it is disabled from now on.
Disable(k, t, base, max) ==
    [k EXCEPT !.disable_strikes = @ + 1,
              !.consecutive_failures = 0, !.consecutive_429 = 0,
              !.health = "Disabled",
              !.until = t + Backoff(k.disable_strikes + 1, base, max)]

Exhaust(k, t, reset_in) ==
    LET until == t + (IF reset_in = Absent THEN EXHAUSTED_FALLBACK ELSE reset_in)
    IN  [k EXCEPT !.month_remaining = 0, !.month_reset_at = until,
                  !.health = "Exhausted", !.until = until]

\* Mutant of Fail: one failure too many.
FailLate(k, t) ==
    LET failed == [k EXCEPT !.consecutive_failures = @ + 1]
    IN  IF failed.consecutive_failures > FAIL_THRESHOLD
        THEN Disable(failed, t, FAIL_BACKOFF_BASE, FAIL_BACKOFF_MAX)
        ELSE failed

Fail(k, t) ==
    LET failed == [k EXCEPT !.consecutive_failures = @ + 1]
    IN  IF failed.consecutive_failures >= FAIL_THRESHOLD
        THEN Disable(failed, t, FAIL_BACKOFF_BASE, FAIL_BACKOFF_MAX)
        ELSE failed

-----------------------------------------------------------------------------
(* The result of a request sent with the key (Pool::record).               *)

Class == {"transport", "2xx", "429", "auth", "4xx", "5xx", "other"}

\* "transport" is an Outcome::Transport and has no headers; "auth" is 401 or
\* 403, "4xx" every other client error, "other" what is below 200 or 3xx.
Outcome == {o \in [class: Class, rl: RateLimitInfo] :
              o.class = "transport" => o.rl = NoInfo}

\* No response: the connection failed, or the answer took too long.
TransportError == [class |-> "transport", rl |-> NoInfo]

\* Mutant of Verdict: 401 and 403 are returned like every other client error.
VerdictAuthIsClientError(o) ==
    CASE o.class = "2xx" -> "Ok"
      [] o.class \in {"transport", "429", "5xx"} -> "RetryOtherKey"
      [] OTHER -> "ReturnToClient"

Verdict(o) ==
    CASE o.class = "2xx" -> "Ok"
      [] o.class \in {"transport", "429", "auth", "5xx"} -> "RetryOtherKey"
      [] OTHER -> "ReturnToClient"

\* Mutant of Succeed: a success brings a parked key back.
SucceedReadmits(k, t, rl) ==
    LET served == [k EXCEPT !.ok = @ + 1, !.consecutive_failures = 0,
                            !.consecutive_429 = 0, !.disable_strikes = 0]
    IN  IF MonthExhausted(rl) THEN Exhaust(served, t, MonthReset(rl))
        ELSE [served EXCEPT !.health = "Ok", !.until = NoInstant]

Succeed(k, t, rl) ==
    LET served == [k EXCEPT !.ok = @ + 1, !.consecutive_failures = 0,
                            !.consecutive_429 = 0, !.disable_strikes = 0]
    IN  CASE MonthExhausted(rl) -> Exhaust(served, t, MonthReset(rl))
          [] ~MonthExhausted(rl) /\ OverrideCapExhausted(served) ->
               Exhaust(served, t, IF MonthReset(rl) = Absent
                                  THEN OVERRIDE_CAP_FALLBACK ELSE MonthReset(rl))
          [] OTHER -> served

TooManyRequests(k, t, rl) ==
    LET counted == [k EXCEPT !.consecutive_429 = @ + 1]
        held    == [counted EXCEPT !.hold_until = t + Secs(2)]
    IN  CASE rl.present /\ MonthExhausted(rl) ->
               Exhaust(counted, t, MonthReset(rl))
          [] rl.present /\ ~MonthExhausted(rl) ->
               [counted EXCEPT !.hold_until = t + SecondWait(rl)]
          [] ~rl.present /\ counted.consecutive_429 >= UNEXPLAINED_429_THRESHOLD ->
               Disable(held, t, UNEXPLAINED_429_BACKOFF, UNEXPLAINED_429_BACKOFF)
          [] OTHER -> held

\* A response's headers are digested first, whatever its status.
Digest(k, t, o) ==
    LET learned == LearnLimits(k, t, o.rl)
    IN  CASE o.class = "2xx"  -> Succeed(learned, t, o.rl)
          [] o.class = "429"  -> TooManyRequests(learned, t, o.rl)
          [] o.class = "auth" -> Disable(learned, t, AUTH_BACKOFF_BASE,
                                         AUTH_BACKOFF_MAX)
          [] o.class \in {"5xx", "transport"} -> Fail(learned, t)
          [] OTHER -> learned
=============================================================================
