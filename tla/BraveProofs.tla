----------------------------- MODULE BraveProofs ------------------------------
(***************************************************************************)
(* Theorems about the pool against Brave, for any number of keys, plan,    *)
(* month and jitter within the margin, with answers that take any time and *)
(* requests that are lost anywhere: Brave never answers 429 for the        *)
(* second, and a key whose month is used up is left alone until the reset. *)
(*                                                                         *)
(* Brave counts a request when it arrives, the pool when it is leased.     *)
(* What can still be, or has been, counted by Brave within its second are  *)
(* the requests that travel and the sends of its window, and all of these  *)
(* were leased within the pool's window, or before the restart.            *)
(***************************************************************************)
EXTENDS Brave, PoolProofs, FiniteSetTheorems

-----------------------------------------------------------------------------
(* Counting sends, requests that travel, and both.                         *)

\* The sends of a window that are no older than x.
Later(s, x) == {n \in 1..Len(s) : s[n] >= x}

LEMMA OneToMany ==
  ASSUME NEW n \in Nat
  PROVE  IsFiniteSet(1..n) /\ Cardinality(1..n) = n
<1>1. /\ IsFiniteSet(1..n)
      /\ Cardinality(1..n) = IF 1 > n THEN 0 ELSE n - 1 + 1
  BY FS_Interval
<1>. QED BY <1>1

LEMMA LaterCount ==
  ASSUME NEW s \in Seq(Instant), NEW x \in Int
  PROVE  /\ IsFiniteSet(Later(s, x))
         /\ Cardinality(Later(s, x)) \in Nat
         /\ Cardinality(Later(s, x)) <= Len(s)
<1>1. Len(s) \in Nat
  OBVIOUS
<1>2. IsFiniteSet(1..Len(s)) /\ Cardinality(1..Len(s)) = Len(s)
  BY <1>1, OneToMany
<1>3. Later(s, x) \in SUBSET (1..Len(s))
  BY DEF Later
<1>4. IsFiniteSet(Later(s, x)) /\ Cardinality(Later(s, x)) <= Len(s)
  BY <1>2, <1>3, FS_Subset
<1>. QED BY <1>4, FS_CardinalityType

\* All of them, when none is older.
LEMMA LaterAll ==
  ASSUME NEW s \in Seq(Instant), NEW x, \A n \in 1..Len(s) : s[n] >= x
  PROVE  Cardinality(Later(s, x)) = Len(s)
<1>1. Len(s) \in Nat
  OBVIOUS
<1>2. Cardinality(1..Len(s)) = Len(s)
  BY <1>1, OneToMany
<1>3. Later(s, x) = 1..Len(s)
  BY DEF Later
<1>. QED BY <1>1, <1>2, <1>3

LEMMA LaterOfNothing ==
  ASSUME NEW x
  PROVE  Cardinality(Later(<<>>, x)) = 0
<1>1. Later(<<>>, x) = {}
  BY DEF Later
<1>. QED BY <1>1, FS_EmptySet

\* One more send at t.
LEMMA LaterAppend ==
  ASSUME NEW s \in Seq(Instant), NEW t \in Instant, NEW x \in Int
  PROVE  Cardinality(Later(Append(s, t), x))
           = Cardinality(Later(s, x)) + (IF t >= x THEN 1 ELSE 0)
<1> DEFINE L == Len(s)
           a == Append(s, t)
<1>1. /\ L \in Nat /\ Len(a) = L + 1
      /\ \A n \in 1..L : a[n] = s[n]
      /\ a[L + 1] = t
  OBVIOUS
<1>2. IsFiniteSet(Later(s, x)) /\ Cardinality(Later(s, x)) \in Nat
  BY LaterCount
<1>3. L + 1 \notin Later(s, x)
  BY <1>1 DEF Later
<1> HIDE DEF a
<1>4. CASE t >= x
  <2>1. Later(a, x) = Later(s, x) \cup {L + 1}
    BY <1>1, <1>4 DEF Later
  <2>2. Cardinality(Later(a, x)) = Cardinality(Later(s, x)) + 1
    BY <1>2, <1>3, <2>1, FS_AddElement
  <2>. QED BY <1>4, <2>2 DEF a
<1>5. CASE ~(t >= x)
  <2>1. Later(a, x) = Later(s, x)
    BY <1>1, <1>5 DEF Later
  <2>. QED BY <1>2, <1>5, <2>1 DEF a
<1>. QED BY <1>4, <1>5

\* Some of the oldest sends dropped: no more are left, and no fewer if those
\* dropped are older than x.
LEMMA LaterSuffix ==
  ASSUME NEW s \in Seq(Instant), NEW p \in Seq(Instant), NEW x \in Int,
         NEW d \in 0..Len(s), d = Len(s) - Len(p),
         \A n \in 1..Len(p) : p[n] = s[d + n]
  PROVE  /\ Cardinality(Later(p, x)) <= Cardinality(Later(s, x))
         /\ (\A n \in 1..d : s[n] < x)
              => Cardinality(Later(p, x)) = Cardinality(Later(s, x))
<1>0. Len(s) \in Nat /\ Len(p) \in Nat /\ d \in Nat /\ Len(s) = d + Len(p)
  OBVIOUS
<1>1. IsFiniteSet(Later(s, x)) /\ IsFiniteSet(Later(p, x))
  BY LaterCount
<1>2. Cardinality(Later(s, x)) \in Nat /\ Cardinality(Later(p, x)) \in Nat
  BY LaterCount
<1>3. Cardinality(Later(p, x)) <= Cardinality(Later(s, x))
  <2> DEFINE f == [n \in Later(p, x) |-> d + n]
  <2>1. \A n \in Later(p, x) : n \in Nat /\ d + n \in Later(s, x)
    BY <1>0 DEF Later
  <2>2. f \in Injection(Later(p, x), Later(s, x))
    BY <1>0, <2>1 DEF Injection, IsInjective
  <2>. QED BY <1>1, <2>2, FS_Injection
<1>4. ASSUME \A n \in 1..d : s[n] < x
      PROVE  Cardinality(Later(s, x)) <= Cardinality(Later(p, x))
  <2> DEFINE g == [n \in Later(s, x) |-> n - d]
  <2>1. ASSUME NEW n \in Later(s, x)
        PROVE  n \in Nat /\ n - d \in Later(p, x)
    <3>1. n \in 1..Len(s) /\ s[n] >= x
      BY DEF Later
    <3>2. s[n] \in Nat
      BY <3>1 DEF Instant
    <3>3. ~(n \in 1..d)
      BY <1>4, <3>1, <3>2
    <3>4. n - d \in 1..Len(p) /\ d + (n - d) = n
      BY <1>0, <3>1, <3>3
    <3>5. p[n - d] = s[n]
      BY <3>4
    <3>. QED BY <3>1, <3>4, <3>5 DEF Later
  <2>2. g \in Injection(Later(s, x), Later(p, x))
    BY <1>0, <2>1 DEF Injection, IsInjective
  <2>. QED BY <1>1, <2>2, FS_Injection
<1>. QED BY <1>2, <1>3, <1>4

-----------------------------------------------------------------------------
\* The requests of key i among C that have left the proxy at x or later and have
\* not reached Brave.
Travelling(C, i, x) == {c \in C : /\ c.key = i
                                  /\ c.stage = "travelling"
                                  /\ c.at >= x}

LEMMA TravellingCount ==
  ASSUME NEW C, IsFiniteSet(C), NEW i, NEW x
  PROVE  /\ IsFiniteSet(Travelling(C, i, x))
         /\ Cardinality(Travelling(C, i, x)) \in Nat
<1>1. Travelling(C, i, x) \in SUBSET C
  BY DEF Travelling
<1>2. IsFiniteSet(Travelling(C, i, x))
  BY <1>1, FS_Subset
<1>. QED BY <1>2, FS_CardinalityType

\* One more request.
LEMMA TravellingMore ==
  ASSUME NEW C, IsFiniteSet(C), NEW c, c.stage = "travelling",
         NEW i, NEW x
  PROVE  /\ IsFiniteSet(C \cup {c})
         /\ Cardinality(Travelling(C \cup {c}, i, x))
              <= Cardinality(Travelling(C, i, x))
                   + (IF c.key = i /\ c.at >= x THEN 1 ELSE 0)
<1> DEFINE T == Travelling(C, i, x)
<1>1. IsFiniteSet(T) /\ Cardinality(T) \in Nat
  BY TravellingCount
<1>2. Travelling(C \cup {c}, i, x)
        = IF c.key = i /\ c.at >= x THEN T \cup {c} ELSE T
  BY DEF Travelling
<1>3. Cardinality(T \cup {c}) <= Cardinality(T) + 1
  <2> HIDE DEF T
  <2>. QED BY <1>1, FS_AddElement
<1> HIDE DEF T
<1>4. Cardinality(Travelling(C \cup {c}, i, x))
        <= Cardinality(T) + (IF c.key = i /\ c.at >= x THEN 1 ELSE 0)
  BY <1>1, <1>2, <1>3
<1>. QED BY <1>4, FS_AddElement DEF T

\* One request goes, or is replaced by one that travels no more than it did.
LEMMA TravellingLess ==
  ASSUME NEW C, IsFiniteSet(C), NEW c \in C, NEW d, NEW D \in SUBSET {d},
         d.stage = "travelling" => /\ c.stage = "travelling"
                                   /\ d.key = c.key /\ d.at = c.at,
         NEW i, NEW x
  PROVE  /\ IsFiniteSet((C \ {c}) \cup D)
         /\ Cardinality(Travelling((C \ {c}) \cup D, i, x))
              <= Cardinality(Travelling(C, i, x))
                   - (IF c \in Travelling(C, i, x) /\ d.stage # "travelling"
                      THEN 1 ELSE 0)
<1> DEFINE T == Travelling(C, i, x)
           U == Travelling((C \ {c}) \cup D, i, x)
<1>1. IsFiniteSet(T) /\ Cardinality(T) \in Nat
  BY TravellingCount
<1>2. /\ IsFiniteSet(T \ {c})
      /\ Cardinality(T \ {c}) = IF c \in T THEN Cardinality(T) - 1 ELSE Cardinality(T)
  <2> HIDE DEF T
  <2>. QED BY <1>1, FS_RemoveElement
<1>3. /\ IsFiniteSet((T \ {c}) \cup {d})
      /\ Cardinality((T \ {c}) \cup {d}) <= Cardinality(T \ {c}) + 1
      /\ Cardinality(T \ {c}) \in Nat
  <2> HIDE DEF T
  <2>1. Cardinality(T \ {c}) \in Nat
    BY <1>2, FS_CardinalityType
  <2> DEFINE R == T \ {c}
  <2> HIDE DEF R
  <2>2. IsFiniteSet(R) /\ Cardinality(R) \in Nat
    BY <1>2, <2>1 DEF R
  <2>3. /\ IsFiniteSet(R \cup {d})
        /\ Cardinality(R \cup {d}) <= Cardinality(R) + 1
    BY <2>2, FS_AddElement
  <2>. QED BY <2>2, <2>3 DEF R
<1>4. IsFiniteSet((C \ {c}) \cup D)
  <2>1. IsFiniteSet(C \ {c})
    BY FS_RemoveElement
  <2>2. IsFiniteSet((C \ {c}) \cup {d})
    BY <2>1, FS_AddElement
  <2>. QED BY <2>2, FS_Subset
<1>5. CASE d.stage = "travelling" /\ c \in T
  <2>1. U \in SUBSET ((T \ {c}) \cup {d})
    BY DEF Travelling
  <2> HIDE DEF T, U
  <2>2. Cardinality(U) <= Cardinality((T \ {c}) \cup {d})
    BY <1>3, <2>1, FS_Subset
  <2>3. Cardinality((T \ {c}) \cup {d}) \in Nat /\ Cardinality(U) \in Nat
    BY <1>3, <2>1, FS_Subset, FS_CardinalityType
  <2>4. Cardinality(U) <= Cardinality(T)
    BY <1>1, <1>2, <1>3, <1>5, <2>2, <2>3
  <2>. QED BY <1>1, <1>4, <1>5, <2>3, <2>4 DEF T, U
<1>6. CASE ~(d.stage = "travelling" /\ c \in T)
  <2>1. U \in SUBSET (T \ {c})
    BY <1>6 DEF Travelling
  <2> HIDE DEF T, U
  <2>2. Cardinality(U) <= Cardinality(T \ {c}) /\ Cardinality(U) \in Nat
    BY <1>2, <2>1, FS_Subset, FS_CardinalityType
  <2>3. Cardinality(U) <= Cardinality(T)
                            - (IF c \in T /\ d.stage # "travelling" THEN 1 ELSE 0)
    BY <1>1, <1>2, <1>3, <1>6, <2>2
  <2>. QED BY <1>4, <2>3 DEF T, U
<1>. QED BY <1>5, <1>6

\* The proxy waits for none of the requests that go on to Brave.
LEMMA TravellingUnwaited ==
  ASSUME NEW C, IsFiniteSet(C), NEW i, NEW x,
         \A c \in C : c.stage = "travelling" =>
            /\ [c EXCEPT !.waited = FALSE].key = c.key
            /\ [c EXCEPT !.waited = FALSE].at = c.at
            /\ [c EXCEPT !.waited = FALSE].stage = "travelling"
  PROVE  LET U == {[c EXCEPT !.waited = FALSE] :
                      c \in {c \in C : c.stage = "travelling"}}
         IN  /\ IsFiniteSet(U)
             /\ Cardinality(Travelling(U, i, x)) <= Cardinality(Travelling(C, i, x))
<1> DEFINE unwaited(c) == [c EXCEPT !.waited = FALSE]
           T == {c \in C : c.stage = "travelling"}
           U == {unwaited(c) : c \in T}
           f == [c \in T |-> unwaited(c)]
           Ti == Travelling(C, i, x)
           Ui == Travelling(U, i, x)
           g == [c \in Ti |-> unwaited(c)]
<1>1. IsFiniteSet(T) /\ IsFiniteSet(Ti)
  <2>1. T \in SUBSET C
    OBVIOUS
  <2>. QED BY <2>1, FS_Subset, TravellingCount
<1> HIDE DEF unwaited
<1>2. f \in Surjection(T, U)
  BY DEF Surjection
<1>3. IsFiniteSet(U)
  <2> HIDE DEF T, U, f
  <2>. QED BY <1>1, <1>2, FS_Surjection
<1>4. \A c \in T : /\ unwaited(c).key = c.key /\ unwaited(c).at = c.at
                   /\ unwaited(c).stage = "travelling"
  BY DEF unwaited
<1>5. Ui = {unwaited(c) : c \in Ti}
  BY <1>4 DEF Travelling
<1>6. g \in Surjection(Ti, Ui)
  <2> HIDE DEF Ti, Ui
  <2>. QED BY <1>5 DEF Surjection
<1>7. Cardinality(Ui) <= Cardinality(Ti)
  <2> HIDE DEF Ti, Ui, g
  <2>. QED BY <1>1, <1>6, FS_Surjection
<1>. QED BY <1>3, <1>7 DEF unwaited

-----------------------------------------------------------------------------
(* Pruning, at the pool and at Brave.                                      *)

InOrder(q) == \A m, n \in 1..Len(q) : m <= n => q[m] <= q[n]

\* A look at a key at t forgets only what is out of the window at t, hence at
\* any later u.
LEMMA LookRemembers ==
  ASSUME NEW k \in KeyRecord, NEW t \in Instant, NEW u \in Instant, t <= u,
         NEW x \in Int, x > u - Window,
         NEW k2 \in {k, Refresh(k, t), Look(k, t)}
  PROVE  /\ Cardinality(Later(k2.sends, x)) = Cardinality(Later(k.sends, x))
         /\ k2.sec_limit = k.sec_limit
<1> DEFINE r == Refresh(k, t)
           p == PruneWindow(k.sends, t)
           d == Len(k.sends) - Len(p)
<1>1. r \in KeyRecord /\ r.sends = k.sends /\ r.sec_limit = k.sec_limit
  BY RefreshType, RefreshKeepsSends
<1>2. k.sends \in Seq(Instant)
  BY DEF KeyRecord
<1>3. /\ p \in Seq(Instant)
      /\ d \in 0..Len(k.sends)
      /\ \A n \in 1..Len(p) : p[n] = k.sends[d + n]
      /\ \A n \in 1..d : Expired(k.sends[n], t)
  BY <1>2, PruneDropsExpiredPrefix
<1>4. ASSUME NEW n \in 1..d PROVE k.sends[n] < x
  <2>1. n \in 1..Len(k.sends)
    <3> HIDE DEF d
    <3>1. Len(k.sends) \in Nat
      BY <1>2
    <3>. QED BY <1>3, <3>1
  <2>2. k.sends[n] \in Nat /\ t \in Nat /\ u \in Nat /\ Window \in Nat
    BY <1>2, <2>1, WindowType DEF Instant
  <2>3. t - k.sends[n] >= Window
    BY <1>3 DEF Expired
  <2>. QED BY <2>2, <2>3
<1>5. Cardinality(Later(p, x)) = Cardinality(Later(k.sends, x))
  <2> HIDE DEF p
  <2>. QED BY <1>2, <1>3, <1>4, LaterSuffix
<1>6. /\ Settle(r, t).sec_limit = r.sec_limit
      /\ \/ Settle(r, t).sends = r.sends
         \/ Settle(r, t).sends = p
  <2> HIDE DEF r
  <2>. QED BY <1>1, SettlePrunes
<1>. QED BY <1>1, <1>5, <1>6, Zenon DEF Look

\* What Brave keeps of its window: the last sends, all of the last second.
LEMMA PoppedSuffix ==
  ASSUME NEW q \in Seq(Instant), now \in Instant, InOrder(q)
  PROVE  LET p == Popped(q)
             d == Len(q) - Len(p)
         IN  /\ p \in Seq(Instant)
             /\ d \in 0..Len(q)
             /\ \A n \in 1..Len(p) : p[n] = q[d + n]
             /\ \A n \in 1..Len(p) : now - p[n] < WINDOW
<1> DEFINE fresh == {n \in 1..Len(q) : now - q[n] < WINDOW}
<1>0. /\ Len(q) \in Nat /\ now \in Nat /\ WINDOW \in Nat
      /\ \A n \in 1..Len(q) : q[n] \in Instant /\ q[n] \in Nat
  BY RateLimitAssumption DEF Instant
<1>1. CASE fresh = {}
  <2>1. Popped(q) = <<>>
    BY <1>1 DEF Popped
  <2>. QED BY <1>0, <2>1
<1>2. CASE fresh # {}
  <2> DEFINE m == Min(fresh)
             p == SubSeq(q, m, Len(q))
  <2>1. Popped(q) = p
    BY <1>2 DEF Popped
  <2>2. m \in fresh
    <3>1. fresh \subseteq Nat
      OBVIOUS
    <3> HIDE DEF fresh
    <3>. QED BY <1>2, <3>1, MinOfNats
  <2>3. m \in 1..Len(q) /\ now - q[m] < WINDOW
    <3> HIDE DEF m
    <3>. QED BY <2>2
  <2> HIDE DEF m
  <2>4. /\ p \in Seq(Instant)
        /\ Len(p) = Len(q) - m + 1
        /\ \A n \in 1..(Len(q) - m + 1) : p[n] = q[m + n - 1]
    <3>1. /\ m \in Int /\ Len(q) \in Int /\ m <= Len(q)
          /\ \A i \in m..Len(q) : q[i] \in Instant
      BY <1>0, <2>3
    <3>2. /\ p \in Seq(Instant)
          /\ Len(p) = IF m <= Len(q) THEN Len(q) - m + 1 ELSE 0
          /\ \A n \in 1..(Len(q) - m + 1) : p[n] = q[m + n - 1]
      BY <3>1, SubSeqProperties
    <3> HIDE DEF p
    <3>. QED BY <3>1, <3>2
  <2> HIDE DEF p
  <2>5. Len(q) - Len(p) = m - 1 /\ Len(q) - Len(p) \in 0..Len(q)
    BY <1>0, <2>3, <2>4
  <2>6. ASSUME NEW n \in 1..Len(p)
        PROVE  p[n] = q[Len(q) - Len(p) + n] /\ now - p[n] < WINDOW
    <3>1. /\ n \in 1..(Len(q) - m + 1) /\ m + n - 1 \in 1..Len(q)
          /\ m <= m + n - 1 /\ m + n - 1 = Len(q) - Len(p) + n
      BY <1>0, <2>3, <2>4
    <3>2. p[n] = q[m + n - 1] /\ q[m] <= q[m + n - 1]
      BY <2>3, <2>4, <3>1 DEF InOrder
    <3>. QED BY <1>0, <2>3, <3>1, <3>2
  <2>. QED BY <2>1, <2>4, <2>5, <2>6
<1>. QED BY <1>1, <1>2

-----------------------------------------------------------------------------
(* The requests and what Brave answers.                                    *)

\* What is true of a request at instant t: it reaches Brave within JITTER, and
\* the answer tells the plan, and the reset of the month less than a second off.
Sound(c, t) ==
    /\ c \in Call
    /\ c.stage = "travelling" => c.at <= t /\ t <= c.at + JITTER
    /\ c.stage = "answered" =>
         /\ c.result \in Outcome
         /\ c.result.class \in {"2xx", "429"}
         /\ c.result.rl.present
         /\ c.result.rl.limit.second = RPS
         /\ c.result.rl.reset.month \in Nat
         /\ t + Secs(c.result.rl.reset.month) > c.reset_at - WINDOW

BraveTypeOK == /\ TypeOK
               /\ IsFiniteSet(calls)
               /\ \A c \in calls : Sound(c, now)
               /\ sends \in [Key -> Seq(Instant)]
               /\ used \in [Key -> Nat]
               /\ reset_at \in Instant /\ reset_at > now
               /\ lost \in Nat
               /\ restarts \in 0..MaxRestarts
               /\ up_at \in Instant
               /\ told \in [Key -> OptInstant]

\* The answer a request is given, as Answer and Arrive build it.
Answered(c, class, refused, q, spent) ==
    [c EXCEPT !.stage = "answered", !.refused = refused, !.reset_at = reset_at,
              !.result = [class |-> class, rl |-> RlHeaders(q, spent)]]

\* What rounding down loses is less than a second.
LEMMA RoundedDown ==
  ASSUME NEW e \in Nat, NEW w \in Nat \ {0}
  PROVE  (e \div w) \in Nat /\ (e \div w) * w + w > e
<1>1. (e \div w) \in Nat
  OBVIOUS
<1>2. e < w * (e \div w) + w
  OBVIOUS
<1>. QED BY <1>1, <1>2

LEMMA AnsweredIsSound ==
  ASSUME BraveTypeOK, NEW c \in calls, NEW class \in {"2xx", "429"},
         NEW refused \in {"no", "second", "month"},
         NEW q \in Seq(Instant), NEW spent \in Nat
  PROVE  /\ Sound(Answered(c, class, refused, q, spent), now)
         /\ Answered(c, class, refused, q, spent).stage = "answered"
         /\ Answered(c, class, refused, q, spent).refused = refused
<1> DEFINE m == (reset_at - now) \div WINDOW
           h == [limit     |-> <<RPS, MONTH>>,
                 remaining |-> <<Max2(0, RPS - Len(q)), Max2(0, MONTH - spent)>>,
                 reset     |-> <<1, m>>,
                 policy    |-> <<RPS, MONTH>>, retry_after |-> Absent]
           rl == RlHeaders(q, spent)
           o == [class |-> class, rl |-> rl]
           a == Answered(c, class, refused, q, spent)
<1>1. /\ WINDOW \in Nat \ {0} /\ RPS \in Nat \ {0} /\ MONTH \in Nat
      /\ reset_at \in Nat /\ now \in Nat /\ reset_at > now
      /\ Len(q) \in Nat
  BY RateLimitAssumption, BraveAssumption DEF BraveTypeOK, TypeOK, Instant
<1>2. m \in Nat /\ now + m * WINDOW > reset_at - WINDOW
  <2> DEFINE e == reset_at - now
  <2>1. e \in Nat
    BY <1>1
  <2> HIDE DEF e
  <2>2. /\ e \div WINDOW \in Nat
        /\ (e \div WINDOW) * WINDOW + WINDOW > e
    BY <1>1, <2>1, RoundedDown
  <2>. QED BY <1>1, <2>1, <2>2 DEF e
<1>3. h \in Headers
  <2> HIDE DEF m
  <2>1. /\ <<RPS, MONTH>> \in Header
        /\ <<1, m>> \in Header
        /\ <<Max2(0, RPS - Len(q)), Max2(0, MONTH - spent)>> \in Header
    BY <1>1, <1>2 DEF Header, OptNat, Max2
  <2>. QED BY <2>1 DEF Headers, OptNat
<1>4. rl = FromHeaders(h)
  BY DEF RlHeaders
<1>5. /\ rl \in RateLimitInfo
      /\ rl.present /\ rl.limit.second = RPS /\ rl.reset.month = m
  <2>1. rl \in RateLimitInfo
    <3> HIDE DEF h
    <3>. QED BY <1>3, <1>4, FromHeadersType
  <2>2. h.limit # <<>> /\ h.limit = <<RPS, MONTH>> /\ h.reset = <<1, m>>
    OBVIOUS
  <2> HIDE DEF h, m
  <2>. QED BY <1>4, <2>1, <2>2 DEF FromHeaders, ParseWindows
<1> HIDE DEF rl, m
<1>6. o \in Outcome /\ o.class = class /\ o.rl = rl
  BY <1>5 DEF Outcome, Class
<1>7. a = [c EXCEPT !.stage = "answered", !.refused = refused,
                    !.reset_at = reset_at, !.result = o]
  BY DEF Answered, rl
<1> HIDE DEF o, a
<1>8. c \in Call
  BY DEF BraveTypeOK, Sound
<1>9. /\ a \in Call /\ a.stage = "answered" /\ a.refused = refused
      /\ a.result = o /\ a.reset_at = reset_at
  BY <1>1, <1>6, <1>7, <1>8 DEF Call, OptInstant
<1>10. now + Secs(m) > reset_at - WINDOW
  BY <1>2 DEF Secs
<1>11. Sound(a, now)
  <2>1. a.stage # "travelling"
    BY <1>9
  <2>. QED BY <1>2, <1>5, <1>6, <1>9, <1>10, <2>1, Zenon DEF Sound
<1>. QED BY <1>9, <1>11 DEF a

\* The proxy stops waiting for a request on its way.
LEMMA UnwaitedIsSound ==
  ASSUME NEW t, NEW c, Sound(c, t), c.stage = "travelling"
  PROVE  LET u == [c EXCEPT !.waited = FALSE]
         IN  /\ Sound(u, t)
             /\ u.key = c.key /\ u.at = c.at /\ u.stage = "travelling"
             /\ u.refused = c.refused
BY DEF Sound, Call

\* Time passes.
LEMMA SoundLater ==
  ASSUME NEW t \in Nat, NEW u \in Nat, t <= u, NEW c, Sound(c, t),
         c.stage = "travelling" => u <= c.at + JITTER
  PROVE  Sound(c, u)
<1>1. c \in Call
  BY DEF Sound
<1>2. /\ c.at \in Nat /\ c.reset_at \in Nat /\ JITTER \in Nat /\ WINDOW \in Nat
      /\ c.stage \in {"travelling", "answered"}
  BY <1>1, BraveAssumption, RateLimitAssumption DEF Call, Instant, OptInstant
<1>3. CASE c.stage = "travelling"
  BY <1>1, <1>2, <1>3 DEF Sound
<1>4. CASE c.stage = "answered"
  <2> DEFINE s == Secs(c.result.rl.reset.month)
  <2>1. /\ c.result.rl.reset.month \in Nat
        /\ t + s > c.reset_at - WINDOW
    BY <1>4 DEF Sound
  <2>2. s \in Nat
    BY <2>1, SecsType
  <2>3. u + s > c.reset_at - WINDOW
    <3> HIDE DEF s
    <3>. QED BY <1>2, <2>1, <2>2
  <2>4. c.stage # "travelling"
    BY <1>4
  <2>. QED BY <1>1, <1>4, <2>3, <2>4 DEF Sound
<1>. QED BY <1>2, <1>3, <1>4

-----------------------------------------------------------------------------
(* The invariant behind the theorems, and the steps that keep it.          *)

\* Brave's sends are in order, none is yet to come.
SendsInOrder ==
    \A i \in Key : /\ InOrder(sends[i])
                   /\ \A n \in 1..Len(sends[i]) : sends[i][n] <= now

\* No key is used faster than its plan allows.
PlanKept == \A i \in Key : keys[i].sec_limit <= RPS

Base == BraveTypeOK /\ SendsInOrder /\ PlanKept

LEMMA DigestKeepsPlan ==
  ASSUME NEW k \in KeyRecord, k.sec_limit <= RPS, NEW t \in Instant,
         NEW o \in Outcome, o.rl.limit.second \in {RPS, Absent}
  PROVE  Digest(k, t, o).sec_limit <= RPS
<1> DEFINE l == LearnLimits(k, t, o.rl)
<1>1. RPS \in Nat /\ MAX_LEARNED_RPS \in Nat /\ k.sec_limit \in Nat
  BY BraveAssumption, KeyStateAssumption, FieldTypes
<1>2. l \in KeyRecord
  BY LearnLimitsType DEF Outcome
<1>3. l.sec_limit <= RPS
  BY <1>1 DEF LearnLimits, KeyRecord, Min2, Absent
<1>4. Digest(k, t, o).sec_limit = l.sec_limit
  <2> HIDE DEF l
  <2>1. Succeed(l, t, o.rl).sec_limit = l.sec_limit
    BY <1>2 DEF Succeed, Exhaust, KeyRecord
  <2>2. TooManyRequests(l, t, o.rl).sec_limit = l.sec_limit
    BY <1>2 DEF TooManyRequests, Exhaust, Disable, KeyRecord
  <2>3. /\ Fail(l, t).sec_limit = l.sec_limit
        /\ Disable(l, t, AUTH_BACKOFF_BASE, AUTH_BACKOFF_MAX).sec_limit
             = l.sec_limit
    BY <1>2 DEF Fail, Disable, KeyRecord
  <2>. QED BY <2>1, <2>2, <2>3 DEF Digest, l
<1>. QED BY <1>3, <1>4

\* What became of request c: it is gone, or it is now u.
Became(c, u) ==
    /\ Sound(u, now)
    /\ u.stage = "travelling" => /\ c.stage = "travelling"
                                 /\ u.key = c.key /\ u.at = c.at
    /\ \E D \in SUBSET {u} : calls' = (calls \ {c}) \cup D

LEMMA CallsBecome ==
  ASSUME BraveTypeOK, NEW c \in calls, NEW u, Became(c, u), now' = now
  PROVE  IsFiniteSet(calls)' /\ (\A d \in calls : Sound(d, now))'
<1>1. PICK D \in SUBSET {u} : calls' = (calls \ {c}) \cup D
  BY DEF Became
<1>2. IsFiniteSet((calls \ {c}) \cup D)
  BY TravellingLess DEF BraveTypeOK, Became
<1>3. \A d \in (calls \ {c}) \cup D : Sound(d, now)
  BY DEF BraveTypeOK, Became
<1>. QED BY <1>1, <1>2, <1>3

\* Brave counts the request, or refuses it.
LEMMA ArriveEffect ==
  ASSUME BraveTypeOK, SendsInOrder, NEW c \in calls, Arrive(c)
  PROVE  LET p == Popped(sends[c.key])
         IN  \E u : \E q \in {p, Append(p, now)}, spent \in Nat :
               /\ Became(c, u)
               /\ u.stage = "answered"
               /\ u.refused = "second" => Len(p) >= RPS
               /\ c.stage = "travelling"
               /\ sends' = [sends EXCEPT ![c.key] = q]
               /\ used' = [used EXCEPT ![c.key] = spent]
<1> DEFINE i == c.key
           p == Popped(sends[i])
<1>1. /\ c \in Call /\ i \in Key /\ c.waited \in BOOLEAN
      /\ sends[i] \in Seq(Instant) /\ InOrder(sends[i]) /\ now \in Instant
      /\ used[i] \in Nat
  BY DEF BraveTypeOK, Sound, Call, SendsInOrder, TypeOK
<1>2. p \in Seq(Instant) /\ Append(p, now) \in Seq(Instant)
  <2>1. p \in Seq(Instant)
    BY <1>1, PoppedSuffix
  <2> HIDE DEF p
  <2>. QED BY <1>1, <2>1
<1> HIDE DEF p
<1> DEFINE Goal == \E u : \E q \in {p, Append(p, now)}, spent \in Nat :
                      /\ Became(c, u)
                      /\ u.stage = "answered"
                      /\ u.refused = "second" => Len(p) >= RPS
                      /\ c.stage = "travelling"
                      /\ sends' = [sends EXCEPT ![i] = q]
                      /\ used' = [used EXCEPT ![i] = spent]
<1>3. c.stage = "travelling"
  BY DEF Arrive
<1>4. ASSUME NEW class \in {"2xx", "429"}, NEW refused \in {"no", "second", "month"},
             refused = "second" => Len(p) >= RPS,
             NEW q \in {p, Append(p, now)}, NEW spent \in Nat,
             Answer(c, class, refused, q, spent)
      PROVE  Goal
  <2>1. PICK u : u = Answered(c, class, refused, q, spent)
    OBVIOUS
  <2> DEFINE D == IF c.waited THEN {u} ELSE {}
  <2>2. Sound(u, now) /\ u.stage = "answered" /\ u.refused = refused
    <3>1. q \in Seq(Instant)
      BY <1>2
    <3>. QED BY <2>1, <3>1, AnsweredIsSound
  <2>3. /\ calls' = (calls \ {c}) \cup D
        /\ sends' = [sends EXCEPT ![i] = q]
        /\ used' = [used EXCEPT ![i] = spent]
    BY <1>4, <2>1, Zenon DEF Answer, Answered
  <2>4. D \in SUBSET {u}
    OBVIOUS
  <2> HIDE DEF D
  <2>5. Became(c, u)
    BY <2>2, <2>3, <2>4 DEF Became
  <2>6. u.refused = "second" => Len(p) >= RPS
    BY <1>4, <2>2
  <2>. QED BY <1>3, <2>2, <2>3, <2>5, <2>6, Zenon
<1>5. \/ Answer(c, "429", "month", p, used[i])
      \/ Answer(c, "429", "second", p, used[i]) /\ Len(p) >= RPS
      \/ Answer(c, "2xx", "no", Append(p, now), used[i] + 1)
  BY Zenon DEF Arrive, p
<1>6. used[i] \in Nat /\ used[i] + 1 \in Nat
  BY <1>1
<1>7. Goal
  <2> HIDE DEF Goal
  <2>. QED BY <1>4, <1>5, <1>6
<1>. QED BY <1>7 DEF p

\* The proxy is done with request c, whatever becomes of it.
LEMMA ForgetEffect ==
  ASSUME BraveTypeOK, NEW c \in calls, calls' = calls \ {c} \/ Forget(c)
  PROVE  \E u : Became(c, u) /\ u.refused = c.refused
<1>1. Sound(c, now)
  BY DEF BraveTypeOK
<1>2. CASE calls' = calls \ {c}
  <2>1. calls' = (calls \ {c}) \cup {}
    BY <1>2
  <2>2. Became(c, c)
    BY <1>1, <2>1 DEF Became
  <2>. QED BY <2>2
<1>3. CASE Forget(c) /\ c.stage # "travelling"
  <2>1. calls' = calls \ {c}
    BY <1>3 DEF Forget
  <2>. QED BY <1>2, <2>1
<1>4. CASE Forget(c) /\ c.stage = "travelling"
  <2>1. PICK u : u = [c EXCEPT !.waited = FALSE]
    OBVIOUS
  <2>2. /\ Sound(u, now) /\ u.key = c.key /\ u.at = c.at
        /\ u.stage = "travelling" /\ u.refused = c.refused
    BY <1>1, <1>4, <2>1, UnwaitedIsSound
  <2>3. calls' = (calls \ {c}) \cup {u}
    BY <1>4, <2>1 DEF Forget
  <2>4. Became(c, u)
    BY <1>4, <2>2, <2>3 DEF Became
  <2>. QED BY <2>2, <2>4
<1>. QED BY <1>2, <1>3, <1>4

\* The request that is sent out.
LEMMA SendOutEffect ==
  ASSUME BraveTypeOK, NEW exclude, NEW i \in Key, SendOut(exclude, i)
  PROVE  \E r : /\ Sound(r, now)
                /\ r.stage = "travelling" /\ r.key = i /\ r.at = now
                /\ r.refused = "no"
                /\ calls' = calls \cup {r}
<1> DEFINE free == (1..MaxCalls) \ {c.id : c \in calls}
<1>1. Min(free) \in 1..MaxCalls
  <2>1. free \subseteq Nat /\ free # {}
    BY DEF SendOut
  <2>2. Min(free) \in free
    <3> HIDE DEF free
    <3>. QED BY <2>1, MinOfNats
  <2>. QED BY <2>2
<1>2. PICK id \in 1..MaxCalls : id = Min(free)
  BY <1>1
<1>3. PICK r : r = [id |-> id, key |-> i, at |-> now, waited |-> TRUE,
                    stage |-> "travelling", refused |-> "no",
                    result |-> NoResult, reset_at |-> NoInstant]
  OBVIOUS
<1>4. calls' = calls \cup {r}
  BY <1>2, <1>3, Zenon DEF SendOut
<1>5. now \in Instant /\ now <= now + JITTER /\ now <= now
  BY BraveAssumption DEF BraveTypeOK, TypeOK, Instant
<1>6. r \in Call
  BY <1>3, <1>5 DEF Call, OptInstant, NoInstant
<1>7. r.stage = "travelling" /\ r.key = i /\ r.at = now /\ r.refused = "no"
  BY <1>3
<1>8. Sound(r, now)
  BY <1>5, <1>6, <1>7 DEF Sound
<1>. QED BY <1>4, <1>7, <1>8

\* The result of a request, as the pool hears of it: an answer tells the plan.
LEMMA ResultEffect ==
  ASSUME BraveTypeOK, NEW c \in calls, Receive(c) \/ TimeOut(c) \/ Break(c)
  PROVE  /\ c.key \in Key
         /\ \E o \in Outcome : /\ Record(c.key, o)
                               /\ o.rl.limit.second \in {RPS, Absent}
<1>1. Sound(c, now) /\ c \in Call
  BY DEF BraveTypeOK, Sound
<1>2. c.key \in Key
  BY <1>1 DEF Call
<1>3. CASE Receive(c)
  BY <1>1, <1>2, <1>3 DEF Receive, Sound
<1>4. CASE TimeOut(c) \/ Break(c)
  <2>1. TransportError.rl.limit.second = Absent
    BY DEF TransportError, NoInfo, ParseWindows
  <2>. QED BY <1>2, <1>4, <2>1, TransportErrorIsOutcome DEF TimeOut, Break
<1>. QED BY <1>3, <1>4

\* The steps that look at the keys: at an instant up to now, each key is left
\* alone, refreshed or looked at.
LookedAt(i) == \E t \in Instant : t <= now /\
                  keys'[i] \in {keys[i], Refresh(keys[i], t), Look(keys[i], t)}

LEMMA ObserveEffect ==
  ASSUME BraveTypeOK, Observe, NEW i \in Key
  PROVE  LookedAt(i)
<1>1. now \in Instant /\ now <= now
  BY DEF BraveTypeOK, TypeOK, Instant
<1>2. CASE Snapshot
  <2>1. PICK t \in Reading : keys' = Reported(t)
    BY <1>2 DEF Snapshot, SnapshotAt
  <2>2. t \in Instant /\ t <= now
    BY <1>1, ReadingType
  <2>. QED BY <2>1, <2>2, ReportedLooks DEF LookedAt
<1>3. ASSUME NEW exclude, Refuse(exclude) PROVE LookedAt(i)
  BY <1>1, <1>3, ExaminedLooks DEF Refuse, LookedAt
<1>. QED BY <1>2, <1>3 DEF Observe

LEMMA LookKeepsPlan ==
  ASSUME BraveTypeOK, NEW i \in Key, LookedAt(i)
  PROVE  keys'[i].sec_limit = keys[i].sec_limit
<1>1. PICK t \in Instant :
        keys'[i] \in {keys[i], Refresh(keys[i], t), Look(keys[i], t)}
  BY DEF LookedAt
<1>2. keys[i] \in KeyRecord
  BY DEF BraveTypeOK, TypeOK
<1>3. t + 1 \in Int /\ t + 1 > t - Window /\ t <= t
  BY WindowType DEF Instant
<1>. QED BY <1>1, <1>2, <1>3, LookRemembers

\* The keys a selection leaves, and the one it leases.
LEMMA LeaseEffect ==
  ASSUME BraveTypeOK, NEW exclude \in SUBSET Key, NEW i \in Key, Lease(exclude, i)
  PROVE  LET l == Look(keys[i], now)
         IN  /\ l \in KeyRecord /\ Available(l)
             /\ keys'[i] = [l EXCEPT !.sends = Append(@, now), !.last_used = now]
             /\ \A j \in Key \ {i} : LookedAt(j)
<1>1. now \in Instant /\ now <= now /\ keys \in [Key -> KeyRecord]
  BY DEF BraveTypeOK, TypeOK, Instant
<1> DEFINE e == Examined(exclude, now)
           l == Look(keys[i], now)
<1>2. e \in [Key -> KeyRecord]
  BY <1>1, ExaminedType DEF BraveTypeOK
<1>3. e[i] = l /\ Available(l)
  BY SelectionIsLooks DEF Lease, Best
<1>4. keys' = [e EXCEPT ![i] = [e[i] EXCEPT !.sends = Append(@, now),
                                            !.last_used = now]]
  BY <1>2 DEF Lease
<1>5. \A j \in Key : e[j] \in {Refresh(keys[j], now), Look(keys[j], now)}
  BY ExaminedLooks
<1> HIDE DEF e, l
<1>6. keys'[i] = [l EXCEPT !.sends = Append(@, now), !.last_used = now]
  BY <1>2, <1>3, <1>4
<1>7. ASSUME NEW j \in Key \ {i} PROVE LookedAt(j)
  BY <1>1, <1>2, <1>4, <1>5 DEF LookedAt
<1>. QED BY <1>2, <1>3, <1>6, <1>7 DEF l

\* Every step keeps types, requests, answers, the order of the sends, and the
\* rate that the keys are used at within their plan.
LEMMA BaseStep == Base /\ [BraveNext]_braveVars => Base'
<1> SUFFICES ASSUME Base, [BraveNext]_braveVars PROVE Base'
  OBVIOUS
<1>0. /\ BraveTypeOK /\ TypeOK /\ now \in Nat
      /\ keys \in [Key -> KeyRecord]
      /\ inflight \in [Key -> Nat]
  BY DEF Base, BraveTypeOK, TypeOK, Instant
<1>1. ASSUME NEW exclude \in SUBSET Key, NEW i \in Key, SendOut(exclude, i)
      PROVE  Base'
  <2>1. Lease(exclude, i) /\ now' = now
    BY <1>1 DEF SendOut, Lease
  <2>2. TypeOK'
    BY <1>0, <2>1, TypeStep DEF Next, TryAcquire
  <2>3. PICK r : /\ Sound(r, now)
                 /\ r.stage = "travelling" /\ r.key = i /\ r.at = now
                 /\ calls' = calls \cup {r}
    BY <1>1, SendOutEffect DEF Base
  <2>4. IsFiniteSet(calls)' /\ (\A c \in calls : Sound(c, now))'
    <3>1. IsFiniteSet(calls \cup {r})
      BY FS_AddElement DEF Base, BraveTypeOK
    <3>2. \A c \in calls \cup {r} : Sound(c, now)
      BY <2>3 DEF Base, BraveTypeOK
    <3>. QED BY <2>1, <2>3, <3>1, <3>2
  <2>5. BraveTypeOK'
    BY <1>1, <2>1, <2>2, <2>4 DEF SendOut, Base, BraveTypeOK, processVars
  <2>6. SendsInOrder'
    BY <1>1, <2>1 DEF SendOut, Base, SendsInOrder, InOrder
  <2>7. PlanKept'
    <3>1. keys'[i].sec_limit = keys[i].sec_limit
      <4> DEFINE l == Look(keys[i], now)
      <4>1. l \in KeyRecord
            /\ keys'[i] = [l EXCEPT !.sends = Append(@, now), !.last_used = now]
        BY <1>0, <2>1, LeaseEffect, Zenon
      <4>2. keys'[i].sec_limit = l.sec_limit
        <5> HIDE DEF l
        <5>. QED BY <4>1 DEF KeyRecord
      <4>3. l.sec_limit = keys[i].sec_limit
        <5>1. /\ now + 1 \in Int /\ now + 1 > now - Window
              /\ now \in Instant /\ now <= now /\ keys[i] \in KeyRecord
          BY <1>0, WindowType DEF TypeOK
        <5>. QED BY <5>1, LookRemembers
      <4>. QED BY <4>2, <4>3
    <3>2. \A j \in Key \ {i} : keys'[j].sec_limit = keys[j].sec_limit
      <4>1. \A j \in Key \ {i} : LookedAt(j)
        BY <1>0, <2>1, LeaseEffect, Zenon
      <4>. QED BY <1>0, <4>1, LookKeepsPlan
    <3>. QED BY <3>1, <3>2 DEF Base, PlanKept
  <2>. QED BY <2>5, <2>6, <2>7 DEF Base
<1>2. ASSUME NEW c \in calls, Arrive(c)
      PROVE  Base'
  <2>1. PICK u : \E q \in {Popped(sends[c.key]), Append(Popped(sends[c.key]), now)},
                    spent \in Nat :
                   /\ Became(c, u)
                   /\ sends' = [sends EXCEPT ![c.key] = q]
                   /\ used' = [used EXCEPT ![c.key] = spent]
    BY <1>2, ArriveEffect DEF Base
  <2>2. PICK q \in {Popped(sends[c.key]), Append(Popped(sends[c.key]), now)},
             spent \in Nat :
                   /\ Became(c, u)
                   /\ sends' = [sends EXCEPT ![c.key] = q]
                   /\ used' = [used EXCEPT ![c.key] = spent]
    BY <2>1
  <2>3. UNCHANGED <<now, keys, inflight, reset_at, lost, told, restarts, up_at>>
    BY <1>2 DEF Arrive, processVars
  <2>4. IsFiniteSet(calls)' /\ (\A d \in calls : Sound(d, now))'
    BY <2>2, <2>3, CallsBecome DEF Base
  <2> DEFINE s == sends[c.key]
             p == Popped(s)
  <2>5. /\ c.key \in Key /\ s \in Seq(Instant) /\ now \in Instant
        /\ InOrder(s) /\ \A n \in 1..Len(s) : s[n] <= now
    BY DEF Base, BraveTypeOK, Sound, Call, SendsInOrder, TypeOK
  <2>6. /\ q \in Seq(Instant) /\ InOrder(q)
        /\ \A n \in 1..Len(q) : q[n] <= now
    <3> DEFINE d == Len(s) - Len(p)
    <3>1. /\ p \in Seq(Instant) /\ d \in 0..Len(s)
          /\ \A n \in 1..Len(p) : p[n] = s[d + n]
      BY <2>5, PoppedSuffix
    <3>2. Len(s) \in Nat /\ Len(p) \in Nat /\ d \in Nat /\ d + Len(p) = Len(s)
      <4> HIDE DEF s, p
      <4>. QED BY <2>5, <3>1
    <3>3. InOrder(p) /\ \A n \in 1..Len(p) : p[n] <= now
      <4> HIDE DEF s, p, d
      <4>1. \A n \in 1..Len(p) : d + n \in 1..Len(s)
        BY <3>2
      <4>2. ASSUME NEW m \in 1..Len(p), NEW n \in 1..Len(p), m <= n
            PROVE  p[m] <= p[n]
        <5>1. d + m <= d + n
          BY <3>2, <4>2
        <5>. QED BY <2>5, <3>1, <4>1, <5>1 DEF InOrder
      <4>. QED BY <2>5, <3>1, <4>1, <4>2 DEF InOrder
    <3> HIDE DEF s, p
    <3>4. CASE q = p
      BY <3>1, <3>3, <3>4
    <3>5. CASE q = Append(p, now)
      <4>1. /\ q \in Seq(Instant) /\ Len(q) = Len(p) + 1
            /\ \A n \in 1..Len(p) : q[n] = p[n]
            /\ q[Len(p) + 1] = now
        BY <2>5, <3>1, <3>5
      <4>2. \A n \in 1..Len(q) : n \in 1..Len(p) \/ n = Len(p) + 1
        BY <3>2, <4>1
      <4>3. \A n \in 1..Len(q) : q[n] <= now
        BY <1>0, <3>3, <4>1, <4>2
      <4>4. ASSUME NEW m \in 1..Len(q), NEW n \in 1..Len(q), m <= n
            PROVE  q[m] <= q[n]
        <5>1. CASE n = Len(p) + 1
          BY <4>1, <4>3, <5>1
        <5>2. CASE n \in 1..Len(p)
          <6>1. m \in 1..Len(p)
            BY <3>2, <4>4, <5>2
          <6>. QED BY <3>3, <4>1, <4>4, <5>2, <6>1 DEF InOrder
        <5>. QED BY <4>2, <5>1, <5>2
      <4>. QED BY <4>1, <4>3, <4>4 DEF InOrder
    <3>. QED BY <3>4, <3>5 DEF p, s
  <2> HIDE DEF s
  <2>7. BraveTypeOK'
    BY <2>2, <2>3, <2>4, <2>5, <2>6 DEF Base, BraveTypeOK, TypeOK
  <2>8. SendsInOrder'
    BY <2>2, <2>3, <2>5, <2>6 DEF Base, BraveTypeOK, SendsInOrder
  <2>9. PlanKept'
    BY <2>3 DEF Base, PlanKept
  <2>. QED BY <2>7, <2>8, <2>9 DEF Base
<1>3. ASSUME NEW c \in calls, Receive(c) \/ TimeOut(c) \/ Break(c)
      PROVE  Base'
  <2>1. PICK o \in Outcome : /\ Record(c.key, o)
                             /\ o.rl.limit.second \in {RPS, Absent}
    BY <1>3, ResultEffect DEF Base
  <2>2. c.key \in Key
    BY <1>3, ResultEffect DEF Base
  <2>3. PICK t \in Reading : RecordAt(c.key, o, t)
    BY <2>1 DEF Record
  <2>4. /\ keys' = [keys EXCEPT ![c.key] = Digest(@, t, o)] /\ now' = now
        /\ UNCHANGED <<sends, used, reset_at, restarts, up_at>>
        /\ calls' = calls \ {c} \/ Forget(c)
    BY <1>3, <2>3 DEF RecordAt, Receive, TimeOut, Break, processVars
  <2>5. TypeOK'
    BY <1>0, <2>1, <2>2, RecordKeepsType
  <2>6. IsFiniteSet(calls)' /\ (\A d \in calls : Sound(d, now))'
    BY <2>4, ForgetEffect, CallsBecome DEF Base
  <2>7. lost' \in Nat /\ told' \in [Key -> OptInstant]
    <3>1. lost \in Nat /\ told \in [Key -> OptInstant] /\ c.reset_at \in OptInstant
      BY DEF Base, BraveTypeOK, Sound, Call
    <3>2. lost' \in {lost, lost + 1}
      BY <1>3 DEF Receive, TimeOut, Break
    <3>3. \/ told' = told
          \/ \E m \in BOOLEAN : told' = [told EXCEPT ![c.key] =
                                          IF m THEN c.reset_at ELSE @]
      BY <1>3 DEF Receive, TimeOut, Break
    <3>. QED BY <2>2, <3>1, <3>2, <3>3
  <2>8. BraveTypeOK'
    BY <2>4, <2>5, <2>6, <2>7 DEF Base, BraveTypeOK
  <2>9. SendsInOrder'
    BY <2>4 DEF Base, SendsInOrder
  <2>10. PlanKept'
    <3>1. keys[c.key] \in KeyRecord /\ keys[c.key].sec_limit <= RPS
          /\ t \in Instant
      BY <1>0, <2>2, ReadingType DEF Base, PlanKept, TypeOK
    <3>2. Digest(keys[c.key], t, o).sec_limit <= RPS
      BY <2>1, <3>1, DigestKeepsPlan
    <3>. QED BY <1>0, <2>2, <2>4, <3>2 DEF Base, PlanKept
  <2>. QED BY <2>8, <2>9, <2>10 DEF Base
<1>4. ASSUME NEW c \in calls, Leave(c)
      PROVE  Base'
  <2>1. /\ c.key \in Key /\ Abandon(c.key) /\ Forget(c)
        /\ UNCHANGED <<now, keys, sends, used, reset_at, lost, told, restarts, up_at>>
    BY <1>4 DEF Leave, Abandon, Base, BraveTypeOK, Sound, Call, processVars
  <2>2. TypeOK'
    BY <1>0, <2>1, TypeStep DEF Next
  <2>3. IsFiniteSet(calls)' /\ (\A d \in calls : Sound(d, now))'
    BY <2>1, ForgetEffect, CallsBecome DEF Base
  <2>. QED BY <2>1, <2>2, <2>3 DEF Base, BraveTypeOK, SendsInOrder, PlanKept
<1>5. CASE Restart
  <2>1. /\ restarts' = restarts + 1 /\ restarts < MaxRestarts
        /\ up_at' = now + DOWN
        /\ keys' = [i \in Key |-> NewKey(Caps[i])]
        /\ inflight' = [i \in Key |-> 0]
        /\ calls' = {[c EXCEPT !.waited = FALSE] :
                        c \in {c \in calls : c.stage = "travelling"}}
        /\ told' = [i \in Key |-> NoInstant]
        /\ UNCHANGED <<now, sends, used, reset_at, lost>>
    BY <1>5 DEF Restart
  <2>2. TypeOK'
    BY <1>0, <2>1, NewKeyType, PoolAssumption DEF TypeOK
  <2>3. (\A c \in calls : Sound(c, now))'
    <3>1. \A c \in calls : c.stage = "travelling"
                             => Sound([c EXCEPT !.waited = FALSE], now)
      BY UnwaitedIsSound DEF Base, BraveTypeOK
    <3>. QED BY <2>1, <3>1
  <2>4. IsFiniteSet(calls)'
    <3>1. \A c \in calls : c.stage = "travelling" =>
            /\ [c EXCEPT !.waited = FALSE].key = c.key
            /\ [c EXCEPT !.waited = FALSE].at = c.at
            /\ [c EXCEPT !.waited = FALSE].stage = "travelling"
      BY UnwaitedIsSound DEF Base, BraveTypeOK
    <3>2. IsFiniteSet(calls)
      BY DEF Base, BraveTypeOK
    <3>3. IsFiniteSet({[c EXCEPT !.waited = FALSE] :
                         c \in {c \in calls : c.stage = "travelling"}})
      BY <3>1, <3>2, TravellingUnwaited
    <3>. QED BY <2>1, <3>3
  <2>5. /\ restarts' \in 0..MaxRestarts /\ up_at' \in Instant
        /\ told' \in [Key -> OptInstant]
    BY <1>0, <2>1, BraveAssumption DEF Base, BraveTypeOK, TypeOK, Instant,
                                       OptInstant, NoInstant
  <2>6. BraveTypeOK'
    BY <2>1, <2>2, <2>3, <2>4, <2>5 DEF Base, BraveTypeOK
  <2>7. SendsInOrder'
    BY <2>1 DEF Base, SendsInOrder
  <2>8. PlanKept'
    <3>1. \A i \in Key : keys'[i].sec_limit = Max2(DEFAULT_RPS, 1)
      BY <2>1 DEF NewKey
    <3>. QED BY <3>1, BraveAssumption DEF PlanKept
  <2>. QED BY <2>6, <2>7, <2>8 DEF Base
<1>6. CASE Observe
  <2>1. UNCHANGED <<now, calls, sends, used, reset_at, lost, told, restarts, up_at>>
    BY <1>6 DEF Observe, Snapshot, SnapshotAt, Refuse, processVars
  <2>2. TypeOK'
    BY <1>0, <1>6, TypeStep DEF Observe, Next, TryAcquire
  <2>3. PlanKept'
    BY <1>6, ObserveEffect, LookKeepsPlan DEF Base, PlanKept
  <2>. QED BY <2>1, <2>2, <2>3 DEF Base, BraveTypeOK, SendsInOrder
<1>7. CASE BraveTick
  <2>1. /\ Tick /\ now' = now + 1
        /\ \A c \in calls : c.stage = "travelling" => now < c.at + JITTER
        /\ UNCHANGED <<keys, calls, sends, lost, told, restarts, up_at>>
    BY <1>7 DEF BraveTick, Tick, processVars
  <2>2. TypeOK'
    BY <1>0, <2>1, TypeStep DEF Next
  <2>3. ASSUME NEW c \in calls PROVE Sound(c, now')
    <3>1. now' \in Nat /\ now <= now'
      BY <1>0, <2>1
    <3>2. c.stage = "travelling" => now' <= c.at + JITTER
      <4>1. c.at \in Nat /\ JITTER \in Nat
        BY BraveAssumption DEF Base, BraveTypeOK, Sound, Call, Instant
      <4>. QED BY <1>0, <2>1, <4>1
    <3>3. Sound(c, now)
      BY DEF Base, BraveTypeOK
    <3>. QED BY <1>0, <3>1, <3>2, <3>3, SoundLater
  <2>4. /\ used' \in [Key -> Nat]
        /\ reset_at' \in Instant /\ reset_at' > now'
    <3>1. MONTH_LENGTH \in Nat \ {0} /\ reset_at \in Nat \ {0} /\ reset_at > now
          /\ used \in [Key -> Nat]
      BY BraveAssumption DEF Base, BraveTypeOK, Instant, NoInstant
    <3>2. CASE now' >= reset_at
      BY <1>0, <1>7, <2>1, <3>1, <3>2 DEF BraveTick, Instant, NoInstant
    <3>3. CASE ~(now' >= reset_at)
      BY <1>0, <1>7, <2>1, <3>1, <3>3 DEF BraveTick, Instant, NoInstant
    <3>. QED BY <3>2, <3>3
  <2>5. BraveTypeOK'
    BY <2>1, <2>2, <2>3, <2>4 DEF Base, BraveTypeOK
  <2>6. SendsInOrder'
    <3>1. \A i \in Key : sends[i] \in Seq(Instant)
      BY DEF Base, BraveTypeOK
    <3>2. ASSUME NEW i \in Key, NEW n \in 1..Len(sends[i])
          PROVE  sends[i][n] <= now'
      <4>1. sends[i][n] \in Nat /\ sends[i][n] <= now
        BY <3>1 DEF Base, SendsInOrder, Instant
      <4>. QED BY <1>0, <2>1, <4>1
    <3>. QED BY <2>1, <3>2 DEF Base, SendsInOrder
  <2>7. PlanKept'
    BY <2>1 DEF Base, PlanKept
  <2>. QED BY <2>5, <2>6, <2>7 DEF Base
<1>8. CASE UNCHANGED braveVars
  BY <1>8 DEF braveVars, processVars, Base, BraveTypeOK, TypeOK, SendsInOrder,
              PlanKept
<1>. QED BY <1>1, <1>2, <1>3, <1>4, <1>5, <1>6, <1>7, <1>8 DEF BraveNext

LEMMA BaseInit == BraveInit => Base
<1> SUFFICES ASSUME BraveInit PROVE Base
  OBVIOUS
<1>1. TypeOK
  BY NewKeyType, PoolAssumption DEF BraveInit, Init, TypeOK, Instant, NoInstant
<1>2. IsFiniteSet(calls) /\ \A c \in calls : Sound(c, now)
  BY FS_EmptySet DEF BraveInit
<1>3. BraveTypeOK
  BY <1>1, <1>2, BraveAssumption DEF BraveInit, Init, BraveTypeOK, Instant,
                                     OptInstant, NoInstant
<1>4. SendsInOrder
  BY DEF BraveInit, SendsInOrder, InOrder
<1>5. PlanKept
  <2>1. \A i \in Key : keys[i].sec_limit = Max2(DEFAULT_RPS, 1)
    BY DEF BraveInit, Init, NewKey
  <2>. QED BY <2>1, BraveAssumption DEF PlanKept
<1>. QED BY <1>3, <1>4, <1>5 DEF Base

-----------------------------------------------------------------------------
(* Brave refuses no burst.                                                 *)

\* How far back a request may have been leased that Brave, now or later, still
\* has in its second.
Reach == WINDOW + JITTER

\* The requests of key i leased at x or later that travel, and the sends in
\* Brave's window that can have been leased as late.
Charged(i, x) == Cardinality(Travelling(calls, i, x))
                   + Cardinality(Later(sends[i], x + JITTER))

WithinPlan == \A i \in Key, x \in Int : x > now - Reach => Charged(i, x) <= RPS

\* The pool remembers all of these, or they were leased before the restart.
Remembered ==
    \A i \in Key, x \in Int :
        x > now - Reach /\ (restarts > 0 => x > up_at - DOWN)
          => Charged(i, x) <= Cardinality(Later(keys[i].sends, x))

LEMMA ReachType == /\ Reach \in Nat /\ Window \in Nat /\ Reach <= Window
                   /\ JITTER \in Nat /\ WINDOW \in Nat \ {0}
BY RateLimitAssumption, KeyStateAssumption, BraveAssumption DEF Reach, Window

LEMMA ChargedType ==
  Base => \A i \in Key, x \in Int :
             /\ Cardinality(Travelling(calls, i, x)) \in Nat
             /\ Cardinality(Later(sends[i], x + JITTER)) \in Nat
             /\ Charged(i, x) \in Nat
             /\ Cardinality(Later(keys[i].sends, x)) \in Nat
<1> SUFFICES ASSUME Base, NEW i \in Key, NEW x \in Int
             PROVE  /\ Cardinality(Travelling(calls, i, x)) \in Nat
                    /\ Cardinality(Later(sends[i], x + JITTER)) \in Nat
                    /\ Charged(i, x) \in Nat
                    /\ Cardinality(Later(keys[i].sends, x)) \in Nat
  OBVIOUS
<1>1. Cardinality(Travelling(calls, i, x)) \in Nat
  BY TravellingCount DEF Base, BraveTypeOK
<1>2. Cardinality(Later(sends[i], x + JITTER)) \in Nat
  <2>1. x + JITTER \in Int
    BY ReachType
  <2>2. sends[i] \in Seq(Instant)
    BY DEF Base, BraveTypeOK
  <2>. QED BY <2>1, <2>2, LaterCount
<1>3. Cardinality(Later(keys[i].sends, x)) \in Nat
  <2>1. keys[i].sends \in Seq(Instant)
    BY FieldTypes DEF Base, BraveTypeOK, TypeOK
  <2>. QED BY <2>1, LaterCount
<1>. QED BY <1>1, <1>2, <1>3 DEF Charged

LEMMA ChargedTypeNext ==
  Base' => (\A i \in Key, x \in Int :
               /\ Cardinality(Travelling(calls, i, x)) \in Nat
               /\ Cardinality(Later(sends[i], x + JITTER)) \in Nat
               /\ Charged(i, x) \in Nat
               /\ Cardinality(Later(keys[i].sends, x)) \in Nat)'
BY ChargedType, PTL

\* Steps that charge no key with more, and forget nothing that counts.
ChargesNoMore == \A i \in Key, x \in Int : Charged(i, x)' <= Charged(i, x)

ForgetsNothing ==
    \A i \in Key, x \in Int :
        x > now' - Reach => Cardinality(Later(keys'[i].sends, x))
                              >= Cardinality(Later(keys[i].sends, x))

LEMMA QuietStep ==
  ASSUME Base, Base', WithinPlan, Remembered,
         now' >= now, restarts' = restarts, up_at' = up_at,
         ChargesNoMore, ForgetsNothing
  PROVE  WithinPlan' /\ Remembered'
<1> SUFFICES ASSUME NEW i \in Key, NEW x \in Int, x > now' - Reach
             PROVE  /\ Charged(i, x)' <= RPS
                    /\ (restarts > 0 => x > up_at - DOWN)
                         => Charged(i, x)' <= Cardinality(Later(keys'[i].sends, x))
  BY DEF WithinPlan, Remembered
<1>1. /\ Charged(i, x) \in Nat /\ Charged(i, x)' \in Nat
      /\ Cardinality(Later(keys[i].sends, x)) \in Nat
      /\ Cardinality(Later(keys'[i].sends, x)) \in Nat
  BY ChargedType, ChargedTypeNext
<1>2. x > now - Reach
  <2>1. now \in Nat /\ now' \in Nat
    BY DEF Base, BraveTypeOK, TypeOK, Instant
  <2>2. Reach \in Nat
    BY ReachType
  <2>3. \A m, n \in Nat : n >= m /\ x > n - Reach => x > m - Reach
    BY <2>2
  <2>. QED BY <2>1, <2>3
<1>3. RPS \in Nat
  BY BraveAssumption
<1>4. /\ Charged(i, x) <= RPS
      /\ (restarts > 0 => x > up_at - DOWN)
           => Charged(i, x) <= Cardinality(Later(keys[i].sends, x))
  BY <1>2 DEF WithinPlan, Remembered
<1>5. Charged(i, x)' <= Charged(i, x)
  BY DEF ChargesNoMore
<1>6. Cardinality(Later(keys'[i].sends, x)) >= Cardinality(Later(keys[i].sends, x))
  BY DEF ForgetsNothing
<1>. QED BY <1>1, <1>3, <1>4, <1>5, <1>6

\* What a look at the keys forgets no longer counts.
LEMMA LookForgetsNothing ==
  ASSUME Base, NEW i \in Key, LookedAt(i), NEW x \in Int, x > now - Reach
  PROVE  Cardinality(Later(keys'[i].sends, x)) = Cardinality(Later(keys[i].sends, x))
<1>1. PICK t \in Instant : t <= now /\
        keys'[i] \in {keys[i], Refresh(keys[i], t), Look(keys[i], t)}
  BY DEF LookedAt
<1>2. keys[i] \in KeyRecord /\ now \in Instant /\ now \in Nat
  BY DEF Base, BraveTypeOK, TypeOK, Instant
<1>3. x > now - Window
  BY <1>2, ReachType
<1>. QED BY <1>1, <1>2, <1>3, LookRemembers

\* A request that is answered, lost or left is charged no more than before, and
\* one that travelled and travels no more is one fewer.
LEMMA TravelsNoMore ==
  ASSUME Base, NEW c \in calls, NEW u, Became(c, u), NEW i \in Key, NEW x \in Int
  PROVE  /\ Cardinality(Travelling(calls', i, x)) \in Nat
         /\ Cardinality(Travelling(calls', i, x))
              <= Cardinality(Travelling(calls, i, x))
                   - (IF c \in Travelling(calls, i, x) /\ u.stage # "travelling"
                      THEN 1 ELSE 0)
<1>1. PICK D \in SUBSET {u} : calls' = (calls \ {c}) \cup D
  BY DEF Became
<1>2. IsFiniteSet(calls)
  BY DEF Base, BraveTypeOK
<1>3. u.stage = "travelling" => /\ c.stage = "travelling"
                                /\ u.key = c.key /\ u.at = c.at
  BY DEF Became
<1> DEFINE C2 == (calls \ {c}) \cup D
<1>4. /\ IsFiniteSet(C2)
      /\ Cardinality(Travelling(C2, i, x))
           <= Cardinality(Travelling(calls, i, x))
                - (IF c \in Travelling(calls, i, x) /\ u.stage # "travelling"
                   THEN 1 ELSE 0)
  BY <1>2, <1>3, TravellingLess
<1>5. calls' = C2
  BY <1>1
<1> HIDE DEF C2
<1>6. Cardinality(Travelling(C2, i, x)) \in Nat
  BY <1>4, TravellingCount
<1>. QED BY <1>4, <1>5, <1>6

\* A request that reaches Brave is counted there instead of on its way.
LEMMA ArriveChargesNoMore ==
  ASSUME Base, NEW c \in calls, Arrive(c)
  PROVE  ChargesNoMore
<1> SUFFICES ASSUME NEW i \in Key, NEW x \in Int
             PROVE  Charged(i, x)' <= Charged(i, x)
  BY DEF ChargesNoMore
<1> DEFINE s == sends[c.key]
           p == Popped(s)
           y == x + JITTER
<1>1. PICK u : \E q \in {p, Append(p, now)}, spent \in Nat :
                 /\ Became(c, u)
                 /\ u.stage = "answered"
                 /\ c.stage = "travelling"
                 /\ sends' = [sends EXCEPT ![c.key] = q]
  BY ArriveEffect DEF Base
<1>2. PICK q \in {p, Append(p, now)} :
         /\ Became(c, u)
         /\ u.stage = "answered"
         /\ c.stage = "travelling"
         /\ sends' = [sends EXCEPT ![c.key] = q]
  BY <1>1
<1>3. /\ c.key \in Key /\ now \in Instant /\ now \in Nat /\ y \in Int
      /\ sends \in [Key -> Seq(Instant)]
      /\ s \in Seq(Instant) /\ InOrder(s)
  BY ReachType DEF Base, BraveTypeOK, TypeOK, Sound, Call, Instant, SendsInOrder
<1> DEFINE T  == Cardinality(Travelling(calls, i, x))
           T2 == Cardinality(Travelling(calls', i, x))
<1>4. /\ T \in Nat /\ T2 \in Nat
      /\ T2 <= T - (IF c \in Travelling(calls, i, x) THEN 1 ELSE 0)
  BY <1>2, TravelsNoMore, ChargedType
<1>5. CASE i # c.key
  <2>1. sends'[i] = sends[i]
    BY <1>2, <1>3, <1>5
  <2>2. Cardinality(Later(sends[i], y)) \in Nat
    BY ChargedType
  <2>3. T2 <= T
    <3> HIDE DEF T, T2
    <3>. QED BY <1>4
  <2> HIDE DEF y
  <2>4. T2 + Cardinality(Later(sends[i], y)) <= T + Cardinality(Later(sends[i], y))
    <3> DEFINE L == Cardinality(Later(sends[i], y))
    <3> HIDE DEF T, T2, L
    <3>. QED BY <1>4, <2>2, <2>3 DEF L
  <2>. QED BY <2>1, <2>4 DEF Charged, y
<1>6. CASE i = c.key
  <2> DEFINE L == Cardinality(Later(s, y))
             L2 == Cardinality(Later(q, y))
  <2>1. sends'[i] = q /\ sends[i] = s
    BY <1>2, <1>3, <1>6
  <2>2. /\ p \in Seq(Instant)
        /\ Cardinality(Later(p, y)) <= L
        /\ L \in Nat /\ Cardinality(Later(p, y)) \in Nat
    <3>1. /\ p \in Seq(Instant)
          /\ Len(s) - Len(p) \in 0..Len(s)
          /\ \A n \in 1..Len(p) : p[n] = s[(Len(s) - Len(p)) + n]
      BY <1>3, PoppedSuffix
    <3> HIDE DEF s, p, y
    <3>2. Cardinality(Later(p, y)) <= Cardinality(Later(s, y))
      BY <1>3, <3>1, LaterSuffix
    <3>. QED BY <1>3, <3>1, <3>2, LaterCount
  <2>3. CASE q = p
    <3>1. T2 <= T /\ L2 <= L /\ L2 \in Nat
      <4> HIDE DEF T, T2, s, p, y
      <4>. QED BY <1>4, <2>2, <2>3
    <3> HIDE DEF L, L2, T, T2
    <3>2. T2 + L2 <= T + L
      BY <1>4, <2>2, <3>1
    <3>. QED BY <2>1, <3>2 DEF Charged, T, T2, L, L2, y
  <2>4. CASE q = Append(p, now)
    <3>1. L2 = Cardinality(Later(p, y)) + (IF now >= y THEN 1 ELSE 0)
      <4> HIDE DEF p, y
      <4>. QED BY <1>3, <2>2, <2>4, LaterAppend
    <3>2. now >= y => c \in Travelling(calls, i, x)
      <4>1. c.at \in Nat /\ now <= c.at + JITTER
        BY <1>2 DEF Base, BraveTypeOK, Sound, Call, Instant
      <4>2. now >= y => c.at >= x
        BY <1>3, <4>1, ReachType
      <4>. QED BY <1>2, <1>6, <4>2 DEF Travelling
    <3>3. T2 + L2 <= T + L
      <4> DEFINE P == Cardinality(Later(p, y))
                 W == c \in Travelling(calls, i, x)
      <4>1. P \in Nat /\ P <= L /\ L \in Nat /\ T \in Nat /\ T2 \in Nat
        BY <1>4, <2>2
      <4>2. T2 <= T - (IF W THEN 1 ELSE 0)
        BY <1>4
      <4>3. L2 = P + (IF now >= y THEN 1 ELSE 0)
        BY <3>1
      <4>4. now >= y => W
        BY <3>2
      <4> HIDE DEF P, W, L, L2, T, T2, y
      <4>5. CASE W
        BY <4>1, <4>2, <4>3, <4>5
      <4>6. CASE ~W
        BY <4>1, <4>2, <4>3, <4>4, <4>6
      <4>. QED BY <4>5, <4>6
    <3> HIDE DEF L, L2, T, T2
    <3>. QED BY <2>1, <3>3 DEF Charged, T, T2, L, L2, y
  <2>. QED BY <2>3, <2>4
<1>. QED BY <1>5, <1>6

\* A request that the proxy is done with is charged no more.
LEMMA ForgetChargesNoMore ==
  ASSUME Base, NEW c \in calls, NEW u, Became(c, u), sends' = sends
  PROVE  ChargesNoMore
<1> SUFFICES ASSUME NEW i \in Key, NEW x \in Int
             PROVE  Charged(i, x)' <= Charged(i, x)
  BY DEF ChargesNoMore
<1> DEFINE T  == Cardinality(Travelling(calls, i, x))
           T2 == Cardinality(Travelling(calls', i, x))
           L  == Cardinality(Later(sends[i], x + JITTER))
<1>1. /\ T \in Nat /\ T2 \in Nat /\ L \in Nat
      /\ T2 <= T - (IF c \in Travelling(calls, i, x) /\ u.stage # "travelling"
                    THEN 1 ELSE 0)
  BY TravelsNoMore, ChargedType
<1>2. Charged(i, x)' = T2 + L /\ Charged(i, x) = T + L
  BY DEF Charged
<1> HIDE DEF T, T2, L
<1>. QED BY <1>1, <1>2

\* Why Brave does not refuse: what it counts against the request, and the
\* request, are within the plan.
LEMMA ArrivesWithinPlan ==
  ASSUME Base, WithinPlan, NEW c \in calls, Arrive(c)
  PROVE  Len(Popped(sends[c.key])) < RPS
<1> DEFINE i == c.key
           s == sends[i]
           p == Popped(s)
           x == now - Reach + 1
           y == x + JITTER
           T == Travelling(calls, i, x)
<1>1. /\ i \in Key /\ now \in Instant /\ now \in Nat
      /\ s \in Seq(Instant) /\ InOrder(s)
      /\ c.at \in Nat /\ now <= c.at + JITTER /\ c.stage = "travelling"
  BY DEF Base, BraveTypeOK, TypeOK, Sound, Call, Instant, SendsInOrder, Arrive
<1>2. /\ x \in Int /\ y \in Int /\ x > now - Reach /\ y = now - WINDOW + 1
      /\ c.at >= x
  BY <1>1, ReachType DEF Reach
<1>3. /\ p \in Seq(Instant)
      /\ Len(s) - Len(p) \in 0..Len(s)
      /\ \A n \in 1..Len(p) : p[n] = s[(Len(s) - Len(p)) + n]
      /\ \A n \in 1..Len(p) : now - p[n] < WINDOW
  BY <1>1, PoppedSuffix
<1>4. Charged(i, x) <= RPS
  BY <1>1, <1>2 DEF WithinPlan
<1> HIDE DEF s, p, y
<1>5. Len(p) = Cardinality(Later(p, y))
  <2>1. ASSUME NEW n \in 1..Len(p) PROVE p[n] >= y
    <3>1. p[n] \in Nat /\ now - p[n] < WINDOW
      BY <1>3 DEF Instant
    <3>. QED BY <1>1, <1>2, <3>1, ReachType
  <2>. QED BY <1>3, <2>1, LaterAll
<1>6. Cardinality(Later(p, y)) <= Cardinality(Later(s, y))
  BY <1>1, <1>2, <1>3, LaterSuffix
<1>7. Cardinality(T) \in Nat /\ Cardinality(T) >= 1
  <2>1. IsFiniteSet(T)
    <3>1. IsFiniteSet(calls)
      BY DEF Base, BraveTypeOK
    <3>. QED BY <3>1, TravellingCount
  <2>2. c \in T
    BY <1>1, <1>2 DEF Travelling
  <2> HIDE DEF T
  <2>. QED BY <2>1, <2>2, FS_EmptySet, FS_CardinalityType
<1>8. Charged(i, x) = Cardinality(T) + Cardinality(Later(s, y))
  BY DEF Charged, s, y
<1>9. Len(p) \in Nat /\ RPS \in Nat /\ Cardinality(Later(s, y)) \in Nat
  <2>1. Cardinality(Later(s, y)) \in Nat
    BY <1>1, <1>2, LaterCount
  <2>. QED BY <1>3, <2>1, BraveAssumption
<1> HIDE DEF T, x, i
<1>. QED BY <1>4, <1>5, <1>6, <1>7, <1>8, <1>9 DEF p, s, i

\* The key that is leased has room for one more.
LEMMA LeaseWithinPlan ==
  ASSUME Base, Base', WithinPlan, Remembered,
         MaxRestarts = 0 \/ DOWN >= Reach,
         NEW exclude \in SUBSET Key, NEW i \in Key, SendOut(exclude, i)
  PROVE  WithinPlan' /\ Remembered'
<1>1. PICK r : /\ r.stage = "travelling" /\ r.key = i /\ r.at = now
               /\ calls' = calls \cup {r}
  BY SendOutEffect DEF Base
<1>2. /\ now \in Instant /\ now \in Nat /\ up_at \in Nat /\ now >= up_at
      /\ restarts \in 0..MaxRestarts
      /\ RPS \in Nat /\ DOWN \in Nat /\ MaxRestarts \in Nat
  BY BraveAssumption DEF Base, BraveTypeOK, TypeOK, Instant, SendOut
<1>3. Lease(exclude, i) /\ UNCHANGED <<now, sends, restarts, up_at>>
  BY DEF SendOut, Lease, processVars
<1> DEFINE l == Look(keys[i], now)
<1>4. /\ l \in KeyRecord /\ Available(l)
      /\ keys'[i] = [l EXCEPT !.sends = Append(@, now), !.last_used = now]
      /\ \A j \in Key \ {i} : LookedAt(j)
  BY <1>3, LeaseEffect, Zenon DEF Base
<1> SUFFICES ASSUME NEW j \in Key, NEW x \in Int, x > now - Reach
             PROVE  /\ Charged(j, x)' <= RPS
                    /\ (restarts > 0 => x > up_at - DOWN)
                         => Charged(j, x)' <= Cardinality(Later(keys'[j].sends, x))
  BY <1>3 DEF WithinPlan, Remembered
<1> DEFINE T  == Cardinality(Travelling(calls, j, x))
           T2 == Cardinality(Travelling(calls', j, x))
           L  == Cardinality(Later(sends[j], x + JITTER))
           K  == Cardinality(Later(keys[j].sends, x))
           K2 == Cardinality(Later(keys'[j].sends, x))
           recent == restarts > 0 => x > up_at - DOWN
<1>5. T \in Nat /\ L \in Nat /\ K \in Nat
  BY ChargedType
<1>6. T2 \in Nat /\ K2 \in Nat
  BY ChargedTypeNext
<1>7. T2 <= T + (IF i = j /\ now >= x THEN 1 ELSE 0)
  <2>1. IsFiniteSet(calls)
    BY DEF Base, BraveTypeOK
  <2> DEFINE C2 == calls \cup {r}
  <2>2. Cardinality(Travelling(C2, j, x))
          <= Cardinality(Travelling(calls, j, x))
               + (IF r.key = j /\ r.at >= x THEN 1 ELSE 0)
    BY <1>1, <2>1, TravellingMore
  <2>3. calls' = C2
    BY <1>1
  <2> HIDE DEF C2
  <2>. QED BY <1>1, <2>2, <2>3
<1>8. Charged(j, x)' = T2 + L /\ Charged(j, x) = T + L
  BY <1>3 DEF Charged
<1>9. Charged(j, x) <= RPS /\ (recent => Charged(j, x) <= K)
  BY DEF WithinPlan, Remembered
<1>10. CASE j # i
  <2>1. K2 = K
    BY <1>4, <1>10, LookForgetsNothing
  <2> HIDE DEF T, T2, L, K, K2, recent
  <2>2. T2 <= T
    BY <1>5, <1>6, <1>7, <1>10
  <2>3. T2 + L <= RPS /\ (recent => T2 + L <= K2)
    BY <1>2, <1>5, <1>6, <1>8, <1>9, <2>1, <2>2
  <2>. QED BY <1>8, <2>3 DEF recent, K2
<1>11. CASE j = i
  <2>1. keys[i] \in KeyRecord
    BY DEF Base, BraveTypeOK, TypeOK
  <2>2. Cardinality(Later(l.sends, x)) = K /\ l.sec_limit = keys[i].sec_limit
    <3>1. x > now - Window /\ now <= now
      BY <1>2, ReachType
    <3>. QED BY <1>2, <1>11, <2>1, <3>1, LookRemembers
  <2>3. l.sends \in Seq(Instant) /\ keys'[i].sends = Append(l.sends, now)
    <3> HIDE DEF l
    <3>. QED BY <1>4 DEF KeyRecord
  <2>4. K2 = K + (IF now >= x THEN 1 ELSE 0)
    <3> HIDE DEF l
    <3>1. Cardinality(Later(Append(l.sends, now), x))
            = Cardinality(Later(l.sends, x)) + (IF now >= x THEN 1 ELSE 0)
      BY <1>2, <2>3, LaterAppend
    <3>. QED BY <1>11, <2>2, <2>3, <3>1
  <2>5. K + 1 <= RPS
    <3>1. Len(l.sends) < l.sec_limit /\ l.sec_limit \in Nat /\ Len(l.sends) \in Nat
      <4> HIDE DEF l
      <4>. QED BY <1>4, FieldTypes DEF Available
    <3>2. Cardinality(Later(l.sends, x)) <= Len(l.sends)
      <4> HIDE DEF l
      <4>. QED BY <2>3, LaterCount
    <3>3. l.sec_limit <= RPS
      BY <2>2 DEF Base, PlanKept
    <3>4. K <= Len(l.sends)
      BY <2>2, <3>2
    <3> HIDE DEF l, K
    <3>. QED BY <1>2, <1>5, <3>1, <3>3, <3>4
  <2>6. recent
    <3>1. CASE MaxRestarts = 0
      BY <1>2, <3>1
    <3>2. CASE DOWN >= Reach
      <4>1. x > up_at - DOWN
        BY <1>2, <3>2, ReachType
      <4>. QED BY <4>1
    <3>. QED BY <3>1, <3>2
  <2> HIDE DEF T, T2, L, K, K2, recent
  <2>7. T2 + L <= RPS /\ T2 + L <= K2
    <3>1. T + L <= RPS /\ T + L <= K
      BY <1>8, <1>9, <2>6
    <3>2. CASE now >= x
      BY <1>2, <1>5, <1>6, <1>7, <2>4, <2>5, <3>1, <3>2
    <3>3. CASE ~(now >= x)
      BY <1>2, <1>5, <1>6, <1>7, <2>4, <3>1, <3>3
    <3>. QED BY <3>2, <3>3
  <2>. QED BY <1>8, <2>7 DEF recent, K2
<1>. QED BY <1>10, <1>11

BurstInv == Base /\ WithinPlan /\ Remembered /\ NoBurstRefused

LEMMA BurstInit == BraveInit => BurstInv
<1> SUFFICES ASSUME BraveInit PROVE BurstInv
  OBVIOUS
<1>1. Base /\ NoBurstRefused
  BY BaseInit DEF BraveInit, NoBurstRefused
<1>2. ASSUME NEW i \in Key, NEW x \in Int
      PROVE  Charged(i, x) = 0
  <2>1. Travelling(calls, i, x) = {}
    BY DEF BraveInit, Travelling
  <2>2. Cardinality(Later(sends[i], x + JITTER)) = 0
    <3>1. sends[i] = <<>>
      BY DEF BraveInit
    <3>. QED BY <3>1, LaterOfNothing
  <2>3. Cardinality(Travelling(calls, i, x)) = 0
    BY <2>1, FS_EmptySet
  <2>. QED BY <2>2, <2>3 DEF Charged
<1>3. \A i \in Key, x \in Int : Cardinality(Later(keys[i].sends, x)) \in Nat
  BY <1>1, ChargedType
<1>4. WithinPlan
  BY <1>2, BraveAssumption DEF WithinPlan
<1>5. Remembered
  BY <1>2, <1>3 DEF Remembered
<1>. QED BY <1>1, <1>4, <1>5 DEF BurstInv

\* A new pool remembers nothing, and nothing that counts will be as young as it.
LEMMA RestartWithinPlan ==
  ASSUME Base, Base', WithinPlan, Restart
  PROVE  WithinPlan' /\ Remembered'
<1>1. /\ now' = now /\ sends' = sends
      /\ restarts' = restarts + 1 /\ up_at' = now + DOWN
      /\ calls' = {[c EXCEPT !.waited = FALSE] :
                      c \in {c \in calls : c.stage = "travelling"}}
  BY DEF Restart
<1>2. /\ now \in Nat /\ restarts \in Nat /\ RPS \in Nat /\ DOWN \in Nat
      /\ IsFiniteSet(calls)
  BY BraveAssumption DEF Base, BraveTypeOK, TypeOK, Instant
<1> SUFFICES ASSUME NEW i \in Key, NEW x \in Int, x > now - Reach
             PROVE  /\ Charged(i, x)' <= RPS
                    /\ x > now
                         => Charged(i, x)' <= Cardinality(Later(keys'[i].sends, x))
  <2>1. restarts' > 0 /\ up_at' - DOWN = now
    BY <1>1, <1>2
  <2>. QED BY <1>1, <2>1 DEF WithinPlan, Remembered
<1> DEFINE T  == Cardinality(Travelling(calls, i, x))
           T2 == Cardinality(Travelling(calls', i, x))
           L  == Cardinality(Later(sends[i], x + JITTER))
           K2 == Cardinality(Later(keys'[i].sends, x))
<1>3. T \in Nat /\ L \in Nat
  BY ChargedType
<1>4. T2 \in Nat /\ K2 \in Nat
  BY ChargedTypeNext
<1>5. T2 <= T
  <2> DEFINE C2 == {[c EXCEPT !.waited = FALSE] :
                       c \in {c \in calls : c.stage = "travelling"}}
  <2>1. \A c \in calls : c.stage = "travelling" =>
          /\ [c EXCEPT !.waited = FALSE].key = c.key
          /\ [c EXCEPT !.waited = FALSE].at = c.at
          /\ [c EXCEPT !.waited = FALSE].stage = "travelling"
    BY UnwaitedIsSound DEF Base, BraveTypeOK
  <2>2. Cardinality(Travelling(C2, i, x)) <= T
    BY <1>2, <2>1, TravellingUnwaited
  <2>3. calls' = C2
    BY <1>1
  <2> HIDE DEF C2, T
  <2>. QED BY <2>2, <2>3
<1>6. T + L <= RPS
  BY DEF WithinPlan, Charged
<1>7. Charged(i, x)' = T2 + L
  BY <1>1 DEF Charged
<1>8. ASSUME x > now PROVE T = 0 /\ L = 0
  <2>1. Travelling(calls, i, x) = {}
    <3>1. ASSUME NEW c \in calls, c.stage = "travelling" PROVE ~(c.at >= x)
      <4>1. c.at \in Nat /\ c.at <= now
        BY <3>1 DEF Base, BraveTypeOK, Sound, Call, Instant
      <4>. QED BY <1>2, <1>8, <4>1
    <3>. QED BY <3>1 DEF Travelling
  <2>2. Later(sends[i], x + JITTER) = {}
    <3>1. ASSUME NEW n \in 1..Len(sends[i]) PROVE ~(sends[i][n] >= x + JITTER)
      <4>1. sends[i] \in Seq(Instant)
        BY DEF Base, BraveTypeOK
      <4>2. sends[i][n] \in Nat /\ sends[i][n] <= now
        BY <4>1 DEF Base, SendsInOrder, Instant
      <4>. QED BY <1>2, <1>8, <4>2, ReachType
    <3>. QED BY <3>1 DEF Later
  <2>. QED BY <2>1, <2>2, FS_EmptySet
<1> HIDE DEF T, T2, L, K2
<1>9. T2 + L <= RPS /\ (x > now => T2 + L <= K2)
  BY <1>2, <1>3, <1>4, <1>5, <1>6, <1>8
<1>. QED BY <1>7, <1>9 DEF K2

\* Steps that change no calls and no sends charge nobody with more.
LEMMA SameChargesNoMore ==
  ASSUME Base, calls' = calls, sends' = sends
  PROVE  ChargesNoMore
<1> SUFFICES ASSUME NEW i \in Key, NEW x \in Int
             PROVE  Charged(i, x)' <= Charged(i, x)
  BY DEF ChargesNoMore
<1>1. Charged(i, x)' = Charged(i, x)
  BY DEF Charged
<1>2. Charged(i, x) \in Nat
  BY ChargedType
<1>. QED BY <1>1, <1>2

\* The same of keys whose sends are left alone, or as a look leaves them.
LEMMA SameForgetsNothing ==
  ASSUME Base, now' \in Nat, now' >= now,
         \A i \in Key : \/ keys'[i].sends = keys[i].sends
                        \/ now' = now /\ LookedAt(i)
  PROVE  ForgetsNothing
<1> SUFFICES ASSUME NEW i \in Key, NEW x \in Int, x > now' - Reach
             PROVE  Cardinality(Later(keys'[i].sends, x))
                      >= Cardinality(Later(keys[i].sends, x))
  BY DEF ForgetsNothing
<1>1. Cardinality(Later(keys[i].sends, x)) \in Nat
  BY ChargedType
<1>2. CASE keys'[i].sends = keys[i].sends
  BY <1>1, <1>2
<1>3. CASE now' = now /\ LookedAt(i)
  <2>1. x > now - Reach
    BY <1>3
  <2>2. Cardinality(Later(keys'[i].sends, x)) = Cardinality(Later(keys[i].sends, x))
    BY <1>3, <2>1, LookForgetsNothing
  <2>. QED BY <1>1, <2>2
<1>. QED BY <1>2, <1>3

LEMMA BurstStep ==
  ASSUME MaxRestarts = 0 \/ DOWN >= Reach
  PROVE  BurstInv /\ [BraveNext]_braveVars => BurstInv'
<1> SUFFICES ASSUME BurstInv, [BraveNext]_braveVars PROVE BurstInv'
  OBVIOUS
<1>0. Base /\ Base' /\ WithinPlan /\ Remembered /\ NoBurstRefused
  BY BaseStep DEF BurstInv
<1>a. now \in Nat /\ now' \in Nat /\ \A i \in Key : keys[i] \in KeyRecord
  BY <1>0 DEF Base, BraveTypeOK, TypeOK, Instant
<1>1. ASSUME NEW exclude \in SUBSET Key, NEW i \in Key, SendOut(exclude, i)
      PROVE  WithinPlan' /\ Remembered' /\ NoBurstRefused'
  <2>1. PICK r : r.refused = "no" /\ calls' = calls \cup {r}
    BY <1>0, <1>1, SendOutEffect DEF Base
  <2>2. NoBurstRefused'
    BY <1>0, <2>1 DEF NoBurstRefused
  <2>3. WithinPlan' /\ Remembered'
    BY <1>0, <1>1, LeaseWithinPlan, Zenon
  <2>. QED BY <2>2, <2>3
<1>2. ASSUME NEW c \in calls, Arrive(c)
      PROVE  WithinPlan' /\ Remembered' /\ NoBurstRefused'
  <2>1. UNCHANGED <<now, keys, restarts, up_at>>
    BY <1>2 DEF Arrive, processVars
  <2>2. WithinPlan' /\ Remembered'
    <3>1. ChargesNoMore
      BY <1>0, <1>2, ArriveChargesNoMore
    <3>2. ForgetsNothing
      BY <1>0, <1>a, <2>1, SameForgetsNothing
    <3>. QED BY <1>0, <1>a, <2>1, <3>1, <3>2, QuietStep
  <2>3. NoBurstRefused'
    <3>1. PICK u : /\ Became(c, u)
                   /\ u.refused = "second" => Len(Popped(sends[c.key])) >= RPS
      BY <1>0, <1>2, ArriveEffect DEF Base
    <3>2. Len(Popped(sends[c.key])) < RPS
      BY <1>0, <1>2, ArrivesWithinPlan
    <3>3. Len(Popped(sends[c.key])) \in Nat /\ RPS \in Nat
      <4>1. sends[c.key] \in Seq(Instant) /\ InOrder(sends[c.key]) /\ now \in Instant
        BY <1>0 DEF Base, BraveTypeOK, TypeOK, Sound, Call, SendsInOrder
      <4>2. Popped(sends[c.key]) \in Seq(Instant)
        BY <4>1, PoppedSuffix
      <4>. QED BY <4>2, BraveAssumption
    <3>4. u.refused # "second"
      BY <3>1, <3>2, <3>3
    <3>. QED BY <1>0, <3>1, <3>4 DEF NoBurstRefused, Became
  <2>. QED BY <2>2, <2>3
<1>3. ASSUME NEW c \in calls, Receive(c) \/ TimeOut(c) \/ Break(c) \/ Leave(c)
      PROVE  WithinPlan' /\ Remembered' /\ NoBurstRefused'
  <2>1. PICK u : Became(c, u) /\ u.refused = c.refused
    <3>1. calls' = calls \ {c} \/ Forget(c)
      BY <1>3 DEF Receive, TimeOut, Break, Leave
    <3>. QED BY <1>0, <3>1, ForgetEffect DEF Base
  <2>2. UNCHANGED <<now, sends, restarts, up_at>>
    BY <1>3 DEF Receive, TimeOut, Break, Leave, Record, RecordAt, Abandon,
                processVars
  <2>3. \A i \in Key : keys'[i].sends = keys[i].sends
    <3>1. CASE Leave(c)
      BY <3>1 DEF Leave, Abandon
    <3>2. CASE Receive(c) \/ TimeOut(c) \/ Break(c)
      <4>1. PICK o \in Outcome : Record(c.key, o)
        BY <1>0, <3>2, ResultEffect DEF Base
      <4>2. c.key \in Key
        BY <1>0, <3>2, ResultEffect DEF Base
      <4>3. PICK t \in Reading :
              keys' = [keys EXCEPT ![c.key] = Digest(keys[c.key], t, o)]
        BY <4>1 DEF Record, RecordAt
      <4>4. Digest(keys[c.key], t, o).sends = keys[c.key].sends
        BY <1>a, <4>2, DigestKeepsSends
      <4>5. keys \in [Key -> KeyRecord]
        BY <1>0 DEF Base, BraveTypeOK, TypeOK
      <4>. QED BY <4>2, <4>3, <4>4, <4>5
    <3>. QED BY <1>3, <3>1, <3>2
  <2>4. WithinPlan' /\ Remembered'
    <3>1. ChargesNoMore
      BY <1>0, <2>1, <2>2, ForgetChargesNoMore
    <3>2. ForgetsNothing
      BY <1>0, <1>a, <2>2, <2>3, SameForgetsNothing
    <3>. QED BY <1>0, <1>a, <2>2, <3>1, <3>2, QuietStep
  <2>5. NoBurstRefused'
    BY <1>0, <2>1 DEF NoBurstRefused, Became
  <2>. QED BY <2>4, <2>5
<1>4. ASSUME Restart
      PROVE  WithinPlan' /\ Remembered' /\ NoBurstRefused'
  <2>1. WithinPlan' /\ Remembered'
    BY <1>0, <1>4, RestartWithinPlan
  <2>2. NoBurstRefused'
    <3>1. \A c \in calls : c.stage = "travelling" =>
                             [c EXCEPT !.waited = FALSE].refused # "second"
      BY <1>0, UnwaitedIsSound DEF Base, BraveTypeOK, NoBurstRefused
    <3>. QED BY <1>4, <3>1 DEF Restart, NoBurstRefused
  <2>. QED BY <2>1, <2>2
<1>5. ASSUME calls' = calls, sends' = sends, restarts' = restarts, up_at' = up_at,
             now' >= now,
             \A i \in Key : \/ keys'[i].sends = keys[i].sends
                            \/ now' = now /\ LookedAt(i)
      PROVE  WithinPlan' /\ Remembered' /\ NoBurstRefused'
  <2>1. ChargesNoMore
    BY <1>0, <1>5, SameChargesNoMore
  <2>2. ForgetsNothing
    BY <1>0, <1>a, <1>5, SameForgetsNothing
  <2>3. WithinPlan' /\ Remembered'
    BY <1>0, <1>5, <2>1, <2>2, QuietStep
  <2>4. NoBurstRefused'
    BY <1>0, <1>5 DEF NoBurstRefused
  <2>. QED BY <2>3, <2>4
<1>6. ASSUME Observe
      PROVE  WithinPlan' /\ Remembered' /\ NoBurstRefused'
  <2>1. UNCHANGED <<now, calls, sends, restarts, up_at>>
    BY <1>6 DEF Observe, Snapshot, SnapshotAt, Refuse, processVars
  <2>2. \A i \in Key : LookedAt(i)
    BY <1>0, <1>6, ObserveEffect DEF Base
  <2>. QED BY <1>a, <1>5, <2>1, <2>2
<1>7. ASSUME BraveTick
      PROVE  WithinPlan' /\ Remembered' /\ NoBurstRefused'
  <2>1. /\ UNCHANGED <<keys, calls, sends, restarts, up_at>>
        /\ now' >= now
    BY <1>a, <1>7 DEF BraveTick, Tick, processVars
  <2>. QED BY <1>5, <2>1
<1>8. ASSUME UNCHANGED braveVars
      PROVE  WithinPlan' /\ Remembered' /\ NoBurstRefused'
  <2>1. UNCHANGED <<now, keys, calls, sends, restarts, up_at>>
    BY <1>8 DEF braveVars, processVars
  <2>. QED BY <1>a, <1>5, <2>1
<1>9. WithinPlan' /\ Remembered' /\ NoBurstRefused'
  BY <1>1, <1>2, <1>3, <1>4, <1>6, <1>7, <1>8 DEF BraveNext
<1>. QED BY <1>0, <1>9 DEF BurstInv

\* Brave answers no request 429 for the second, however long requests and their
\* answers take and whichever of them are lost (Pool::try_acquire against the
\* window of mock_brave.py), as long as the process is never restarted, or takes
\* as long to come back as a request may stay in Brave's second: a second, and
\* the way to Brave.
THEOREM NoBurstEverRefused ==
  ASSUME MaxRestarts = 0 \/ DOWN >= WINDOW + JITTER
  PROVE  BraveSpec => []NoBurstRefused
<1>1. MaxRestarts = 0 \/ DOWN >= Reach
  BY DEF Reach
<1>2. BurstInv /\ [BraveNext]_braveVars => BurstInv'
  BY <1>1, BurstStep
<1>3. BurstInv => NoBurstRefused
  BY DEF BurstInv
<1>. QED BY <1>2, <1>3, BurstInit, PTL DEF BraveSpec

-----------------------------------------------------------------------------
(* A month that is used up is left alone.                                  *)

\* The key is parked for its month until some time after T.
ParkedPast(k, T) == k.health = "Exhausted" /\ k.until > T

\* A look ends such a park only when T is past.
LEMMA LookKeepsPark ==
  ASSUME NEW k \in KeyRecord, NEW t \in Instant, NEW T \in Int, ParkedPast(k, T),
         NEW k2 \in {k, Refresh(k, t), Look(k, t)}
  PROVE  k2 = k \/ t > T
<1>1. k.until \in Nat /\ t \in Nat
  BY FieldTypes DEF Instant
<1>2. CASE k.until <= t
  BY <1>1, <1>2 DEF ParkedPast
<1>3. CASE ~(k.until <= t)
  <2>1. k.health = "Exhausted" /\ k.health # "Ok" /\ k.until > t
    BY <1>1, <1>3 DEF ParkedPast
  <2>2. Refresh(k, t) = k /\ Settle(k, t) = k
    BY <1>1, <2>1, ParkedIsUntouched DEF Instant
  <2>. QED BY <2>2 DEF Look
<1>. QED BY <1>2, <1>3

LEMMA LookKeepsCount ==
  ASSUME NEW k \in KeyRecord, NEW t \in Instant,
         NEW k2 \in {k, Refresh(k, t), Look(k, t)}
  PROVE  /\ k2.cap = k.cap
         /\ k2.consecutive_failures = k.consecutive_failures
<1>1. ASSUME NEW r \in KeyRecord
      PROVE  /\ Settle(r, t).cap = r.cap
             /\ Settle(r, t).consecutive_failures = r.consecutive_failures
  BY DEF Settle, KeyRecord
<1>2. /\ Refresh(k, t) \in KeyRecord
      /\ Refresh(k, t).cap = k.cap
      /\ Refresh(k, t).consecutive_failures = k.consecutive_failures
  <2>1. Refresh(k, t) \in KeyRecord
    BY RefreshType
  <2>. QED BY <2>1 DEF Refresh, KeyRecord
<1>. QED BY <1>1, <1>2 DEF Look

\* What an answer does to a key without a cap: with a used-up month it parks it
\* until the reset, otherwise its health is left as it was.
LEMMA AnswerParks ==
  ASSUME NEW k \in KeyRecord, k.cap = Absent, NEW t \in Instant,
         NEW o \in Outcome, o.class \in {"2xx", "429"}, o.rl.present,
         o.rl.reset.month \in Nat
  PROVE  LET d == Digest(k, t, o)
         IN  /\ d.cap = Absent
             /\ d.consecutive_failures \in {0, k.consecutive_failures}
             /\ IF MonthExhausted(o.rl)
                THEN d.health = "Exhausted" /\ d.until = t + Secs(o.rl.reset.month)
                ELSE d.health = k.health /\ d.until = k.until
<1> DEFINE l == LearnLimits(k, t, o.rl)
<1>1. /\ l \in KeyRecord /\ l.cap = Absent
      /\ l.consecutive_failures = k.consecutive_failures
      /\ l.health = k.health /\ l.until = k.until
  <2>1. l \in KeyRecord
    BY LearnLimitsType DEF Outcome
  <2>. QED BY <2>1 DEF LearnLimits, KeyRecord
<1>2. MonthReset(o.rl) = Secs(o.rl.reset.month) /\ MonthReset(o.rl) # Absent
  <2>1. Secs(o.rl.reset.month) \in Nat
    BY SecsType
  <2>. QED BY <2>1 DEF MonthReset, Absent
<1>3. ASSUME NEW r \in KeyRecord
      PROVE  LET e == Exhaust(r, t, MonthReset(o.rl))
             IN  /\ e.cap = r.cap
                 /\ e.consecutive_failures = r.consecutive_failures
                 /\ e.health = "Exhausted" /\ e.until = t + Secs(o.rl.reset.month)
  BY <1>2 DEF Exhaust, KeyRecord
<1> HIDE DEF l
<1>4. CASE o.class = "2xx"
  <2> DEFINE served == [l EXCEPT !.ok = @ + 1, !.consecutive_failures = 0,
                                 !.consecutive_429 = 0, !.disable_strikes = 0]
  <2>1. /\ served \in KeyRecord /\ served.cap = Absent
        /\ served.consecutive_failures = 0
        /\ served.health = l.health /\ served.until = l.until
    <3>1. l.ok + 1 \in Nat
      BY <1>1 DEF KeyRecord
    <3>. QED BY <1>1, <3>1 DEF KeyRecord
  <2>2. ~OverrideCapExhausted(served)
    <3> HIDE DEF served
    <3>. QED BY <2>1 DEF OverrideCapExhausted
  <2>3. Succeed(l, t, o.rl) = IF MonthExhausted(o.rl)
                              THEN Exhaust(served, t, MonthReset(o.rl)) ELSE served
    BY <2>2, Zenon DEF Succeed
  <2>4. Digest(k, t, o) = Succeed(l, t, o.rl)
    BY <1>4, Zenon DEF Digest, l
  <2> HIDE DEF served
  <2>. QED BY <1>1, <1>3, <2>1, <2>3, <2>4
<1>5. CASE o.class = "429"
  <2> DEFINE counted == [l EXCEPT !.consecutive_429 = @ + 1]
             held    == [counted EXCEPT !.hold_until = t + SecondWait(o.rl)]
  <2>1. /\ counted \in KeyRecord /\ counted.cap = Absent
        /\ counted.consecutive_failures = l.consecutive_failures
        /\ counted.health = l.health /\ counted.until = l.until
    <3>1. l.consecutive_429 + 1 \in Nat
      BY <1>1 DEF KeyRecord
    <3>. QED BY <1>1, <3>1 DEF KeyRecord
  <2>2. /\ held.cap = Absent
        /\ held.consecutive_failures = l.consecutive_failures
        /\ held.health = l.health /\ held.until = l.until
    <3> HIDE DEF counted
    <3>. QED BY <2>1 DEF KeyRecord
  <2>3. TooManyRequests(l, t, o.rl) = IF MonthExhausted(o.rl)
                                      THEN Exhaust(counted, t, MonthReset(o.rl))
                                      ELSE held
    BY Zenon DEF TooManyRequests
  <2>4. Digest(k, t, o) = TooManyRequests(l, t, o.rl)
    <3>1. o.class # "2xx"
      BY <1>5
    <3>. QED BY <1>5, <3>1, Zenon DEF Digest, l
  <2> HIDE DEF counted, held
  <2>. QED BY <1>1, <1>3, <2>1, <2>2, <2>3, <2>4
<1>. QED BY <1>4, <1>5

\* What a request without an answer does to a key, while the failures in a row
\* stay below the threshold: it is counted, and no more.
LEMMA LossCounts ==
  ASSUME NEW k \in KeyRecord, k.consecutive_failures + 1 < FAIL_THRESHOLD,
         NEW t \in Instant
  PROVE  LET d == Digest(k, t, TransportError)
         IN  /\ d.cap = k.cap
             /\ d.consecutive_failures = k.consecutive_failures + 1
             /\ d.health = k.health /\ d.until = k.until
<1> DEFINE l == LearnLimits(k, t, TransportError.rl)
           failed == [l EXCEPT !.consecutive_failures = @ + 1]
<1>1. /\ l \in KeyRecord /\ l.cap = k.cap
      /\ l.consecutive_failures = k.consecutive_failures
      /\ l.health = k.health /\ l.until = k.until
  <2>1. l \in KeyRecord
    BY LearnLimitsType, TransportErrorIsOutcome DEF Outcome
  <2>. QED BY <2>1 DEF LearnLimits, KeyRecord
<1>2. Digest(k, t, TransportError) = Fail(l, t)
  <2>1. TransportError.class = "transport"
    BY DEF TransportError
  <2>. QED BY <2>1 DEF Digest
<1> HIDE DEF l
<1>3. /\ failed.cap = k.cap
      /\ failed.consecutive_failures = k.consecutive_failures + 1
      /\ failed.health = k.health /\ failed.until = k.until
  BY <1>1 DEF KeyRecord
<1>4. k.consecutive_failures \in Nat /\ FAIL_THRESHOLD \in Nat
  BY KeyStateAssumption DEF KeyRecord
<1>5. Fail(l, t) = failed
  <2>1. ~(failed.consecutive_failures >= FAIL_THRESHOLD)
    <3> HIDE DEF failed
    <3>. QED BY <1>3, <1>4
  <2>. QED BY <2>1, Zenon DEF Fail
<1>. QED BY <1>2, <1>3, <1>5

\* The earliest that the reset the pool was told of can be.
Since(i) == told[i] - WINDOW - CLOCK_LAG

Uncapped == \A i \in Key : keys[i].cap = Absent

FewFailures == /\ lost <= MaxLost
               /\ \A i \in Key : keys[i].consecutive_failures <= lost

\* A month that the pool was told is used up is over, or its key is parked.
ParksHold == \A i \in Key : now > Since(i) \/ ParkedPast(keys[i], Since(i))

UsedUpInv == Base /\ Uncapped /\ FewFailures /\ ParksHold

\* What a step does to one key and what was told of it.
KeyKept(i) == /\ keys'[i].cap = Absent
              /\ keys'[i].consecutive_failures <= lost'
              /\ now' > Since(i)' \/ ParkedPast(keys'[i], Since(i)')

LEMMA SinceType ==
  ASSUME Base
  PROVE  /\ now \in Nat /\ now # 0 /\ lost \in Nat /\ MaxLost \in Nat
         /\ WINDOW \in Nat /\ CLOCK_LAG \in Nat
         /\ \A i \in Key : /\ keys[i] \in KeyRecord
                           /\ keys[i].consecutive_failures \in Nat
                           /\ told[i] \in Nat /\ Since(i) \in Int
<1>1. /\ now \in Instant /\ lost \in Nat /\ told \in [Key -> OptInstant]
      /\ keys \in [Key -> KeyRecord]
  BY DEF Base, BraveTypeOK, TypeOK
<1>2. MaxLost \in Nat /\ WINDOW \in Nat /\ CLOCK_LAG \in Nat
  BY RateLimitAssumption, BraveAssumption, PoolAssumption
<1>. QED BY <1>1, <1>2 DEF Instant, OptInstant, NoInstant, Since, KeyRecord

\* A key that is at most looked at, and of which nothing new was told.
LEMMA LookedAtKept ==
  ASSUME UsedUpInv, NEW i \in Key, LookedAt(i) \/ keys'[i] = keys[i],
         now' \in Nat, now' >= now, told' = told, lost' = lost
  PROVE  KeyKept(i)
<1>1. /\ now \in Nat /\ now # 0 /\ keys[i] \in KeyRecord /\ Since(i) \in Int
      /\ keys[i].cap = Absent /\ keys[i].consecutive_failures <= lost
      /\ now > Since(i) \/ ParkedPast(keys[i], Since(i))
  BY SinceType DEF UsedUpInv, Uncapped, FewFailures, ParksHold
<1>2. now \in Instant
  BY <1>1 DEF Instant, NoInstant
<1>3. PICK t \in Instant :
        t <= now /\ keys'[i] \in {keys[i], Refresh(keys[i], t), Look(keys[i], t)}
  BY <1>1, <1>2 DEF LookedAt
<1>4. Since(i)' = Since(i)
  BY DEF Since
<1>5. keys'[i].cap = Absent /\ keys'[i].consecutive_failures <= lost'
  BY <1>1, <1>3, LookKeepsCount
<1>6. now > Since(i) => now' > Since(i)
  <2>1. \A s \in Int : \A m, n \in Nat : n >= m /\ m > s => n > s
    OBVIOUS
  <2>. QED BY <1>1, <2>1
<1>7. ~(now > Since(i)) => keys'[i] = keys[i]
  <2>1. SUFFICES ASSUME ~(now > Since(i)) PROVE keys'[i] = keys[i]
    OBVIOUS
  <2>2. keys'[i] = keys[i] \/ t > Since(i)
    BY <1>1, <1>3, <2>1, LookKeepsPark
  <2>3. t \in Nat
    BY <1>3 DEF Instant
  <2>. QED BY <1>1, <1>3, <2>1, <2>2, <2>3
<1>. QED BY <1>1, <1>4, <1>5, <1>6, <1>7 DEF KeyKept

\* A key is leased only when what was told of its month is over.
LEMMA LeaseIsNotParked ==
  ASSUME UsedUpInv, NEW exclude \in SUBSET Key, NEW i \in Key, Lease(exclude, i)
  PROVE  now > Since(i)
<1>1. /\ now \in Nat /\ now \in Instant /\ keys[i] \in KeyRecord /\ Since(i) \in Int
      /\ keys[i].until \in Nat
      /\ now > Since(i) \/ ParkedPast(keys[i], Since(i))
  BY SinceType, FieldTypes DEF UsedUpInv, ParksHold, Instant, NoInstant
<1>2. Available(Look(keys[i], now))
  BY LeaseEffect, Zenon DEF UsedUpInv, Base
<1>3. CASE ParkedPast(keys[i], Since(i))
  <2>1. Look(keys[i], now) = keys[i] \/ now > Since(i)
    BY <1>1, <1>3, LookKeepsPark
  <2>2. Look(keys[i], now) # keys[i]
    BY <1>2, <1>3 DEF Available, ParkedPast
  <2>. QED BY <2>1, <2>2
<1>. QED BY <1>1, <1>3

\* The key that is leased.
LEMMA LeasedKept ==
  ASSUME UsedUpInv, NEW exclude \in SUBSET Key, NEW i \in Key, Lease(exclude, i),
         told' = told, lost' = lost
  PROVE  KeyKept(i)
<1> DEFINE l == Look(keys[i], now)
<1>1. /\ l \in KeyRecord
      /\ keys'[i] = [l EXCEPT !.sends = Append(@, now), !.last_used = now]
  BY LeaseEffect, Zenon DEF UsedUpInv, Base
<1>2. /\ now \in Instant /\ keys[i] \in KeyRecord
      /\ keys[i].cap = Absent /\ keys[i].consecutive_failures <= lost
  BY SinceType DEF UsedUpInv, Uncapped, FewFailures, Instant, NoInstant
<1>3. l.cap = Absent /\ l.consecutive_failures <= lost
  BY <1>2, LookKeepsCount
<1> HIDE DEF l
<1>4. keys'[i].cap = Absent /\ keys'[i].consecutive_failures <= lost
  BY <1>1, <1>3 DEF KeyRecord
<1>5. now > Since(i) /\ Since(i)' = Since(i) /\ now' = now
  BY LeaseIsNotParked DEF Since, Lease
<1>. QED BY <1>4, <1>5 DEF KeyKept

\* The key whose answer comes in: if it tells of a used-up month, the key is
\* parked until the reset, but for less than a second and the lag of the clock.
LEMMA AnsweredKept ==
  ASSUME UsedUpInv, NEW c \in calls, Receive(c)
  PROVE  c.key \in Key /\ KeyKept(c.key)
<1> DEFINE i == c.key
           rl == c.result.rl
           reset == Secs(rl.reset.month)
<1>1. /\ c \in Call /\ i \in Key /\ c.reset_at \in Nat
      /\ c.result \in Outcome /\ c.result.class \in {"2xx", "429"}
      /\ rl.present /\ rl.reset.month \in Nat
      /\ now + reset > c.reset_at - WINDOW
  BY DEF UsedUpInv, Base, BraveTypeOK, Sound, Receive, Call, OptInstant
<1>2. PICK t \in Reading : RecordAt(i, c.result, t)
  BY DEF Receive, Record
<1>3. /\ now \in Nat /\ now \in Instant /\ lost \in Nat
      /\ WINDOW \in Nat /\ CLOCK_LAG \in Nat
      /\ keys[i] \in KeyRecord /\ keys[i].cap = Absent
      /\ keys[i].consecutive_failures \in Nat
      /\ keys[i].consecutive_failures <= lost
      /\ now > Since(i) \/ ParkedPast(keys[i], Since(i))
  BY <1>1, SinceType DEF UsedUpInv, Uncapped, FewFailures, ParksHold, Instant,
                         NoInstant
<1>4. t \in Instant /\ t \in Nat /\ now - t <= CLOCK_LAG
  BY <1>3, ReadingType DEF Reading, Instant
<1>5. reset \in Nat
  BY <1>1, SecsType
<1> DEFINE d == Digest(keys[i], t, c.result)
<1>6. /\ d.cap = Absent
      /\ d.consecutive_failures \in {0, keys[i].consecutive_failures}
      /\ IF MonthExhausted(rl)
         THEN d.health = "Exhausted" /\ d.until = t + reset
         ELSE d.health = keys[i].health /\ d.until = keys[i].until
  BY <1>1, <1>3, <1>4, AnswerParks
<1>7. /\ now' = now /\ lost' = lost
      /\ keys'[i] = d
      /\ told'[i] = IF MonthExhausted(rl) THEN c.reset_at ELSE told[i]
  <2>1. keys \in [Key -> KeyRecord] /\ told \in [Key -> OptInstant]
    BY DEF UsedUpInv, Base, BraveTypeOK, TypeOK
  <2>2. keys' = [keys EXCEPT ![i] = Digest(keys[i], t, c.result)] /\ now' = now
    BY <1>2 DEF RecordAt
  <2>. QED BY <1>1, <2>1, <2>2 DEF Receive
<1>8. Since(i)' = told'[i] - WINDOW - CLOCK_LAG
  BY DEF Since
<1> HIDE DEF d
<1>9. CASE MonthExhausted(rl)
  <2>1. d.until > told'[i] - WINDOW - CLOCK_LAG
    <3>1. d.until = t + reset /\ told'[i] = c.reset_at
      BY <1>6, <1>7, <1>9
    <3>2. t + reset > c.reset_at - WINDOW - CLOCK_LAG
      <4> HIDE DEF reset, rl
      <4>. QED BY <1>1, <1>3, <1>4, <1>5
    <3>. QED BY <3>1, <3>2
  <2>2. d.health = "Exhausted"
    BY <1>6, <1>9
  <2>3. d.consecutive_failures <= lost
    BY <1>3, <1>6
  <2>. QED BY <1>1, <1>6, <1>7, <1>8, <2>1, <2>2, <2>3 DEF KeyKept, ParkedPast
<1>10. CASE ~MonthExhausted(rl)
  <2>1. told'[i] = told[i] /\ d.health = keys[i].health /\ d.until = keys[i].until
    BY <1>6, <1>7, <1>10
  <2>2. Since(i)' = Since(i)
    BY <1>8, <2>1 DEF Since
  <2>3. d.consecutive_failures <= lost
    BY <1>3, <1>6
  <2>. QED BY <1>1, <1>3, <1>6, <1>7, <2>1, <2>2, <2>3 DEF KeyKept, ParkedPast
<1>. QED BY <1>9, <1>10

\* The key whose request gets no answer: one more failure, still too few.
LEMMA LostKept ==
  ASSUME MaxLost < FAIL_THRESHOLD,
         UsedUpInv, NEW c \in calls, TimeOut(c) \/ Break(c)
  PROVE  c.key \in Key /\ KeyKept(c.key) /\ lost' = lost + 1 /\ lost' <= MaxLost
<1> DEFINE i == c.key
<1>1. i \in Key
  BY DEF UsedUpInv, Base, BraveTypeOK, Sound, Call
<1>2. /\ now \in Nat /\ now \in Instant /\ lost \in Nat /\ MaxLost \in Nat
      /\ FAIL_THRESHOLD \in Nat
      /\ keys[i] \in KeyRecord /\ keys[i].cap = Absent
      /\ keys[i].consecutive_failures \in Nat
      /\ keys[i].consecutive_failures <= lost
      /\ now > Since(i) \/ ParkedPast(keys[i], Since(i))
  BY <1>1, SinceType, KeyStateAssumption
     DEF UsedUpInv, Uncapped, FewFailures, ParksHold, Instant, NoInstant
<1>3. /\ lost < MaxLost /\ lost' = lost + 1 /\ told' = told
      /\ Record(i, TransportError)
  BY DEF TimeOut, Break
<1>4. PICK t \in Reading : RecordAt(i, TransportError, t)
  BY <1>3 DEF Record
<1>5. t \in Instant
  BY <1>2, ReadingType
<1> DEFINE d == Digest(keys[i], t, TransportError)
<1>6. keys[i].consecutive_failures + 1 < FAIL_THRESHOLD
  BY <1>2, <1>3
<1>7. /\ d.cap = Absent
      /\ d.consecutive_failures = keys[i].consecutive_failures + 1
      /\ d.health = keys[i].health /\ d.until = keys[i].until
  BY <1>2, <1>5, <1>6, LossCounts
<1>8. keys'[i] = d /\ now' = now
  <2>1. keys \in [Key -> KeyRecord]
    BY DEF UsedUpInv, Base, BraveTypeOK, TypeOK
  <2>. QED BY <1>1, <1>4, <2>1 DEF RecordAt
<1> HIDE DEF d
<1>9. d.consecutive_failures <= lost'
  BY <1>2, <1>3, <1>7
<1>10. Since(i)' = Since(i)
  BY <1>3 DEF Since
<1>11. lost' <= MaxLost
  BY <1>2, <1>3
<1>. QED BY <1>1, <1>2, <1>3, <1>7, <1>8, <1>9, <1>10, <1>11 DEF KeyKept, ParkedPast

\* A result, of whatever kind, is the result of one key.
LEMMA OthersUntouched ==
  ASSUME UsedUpInv, NEW c \in calls, Receive(c) \/ TimeOut(c) \/ Break(c),
         NEW i \in Key, i # c.key
  PROVE  keys'[i] = keys[i] /\ told'[i] = told[i] /\ now' = now
<1>1. keys \in [Key -> KeyRecord] /\ told \in [Key -> OptInstant]
  BY DEF UsedUpInv, Base, BraveTypeOK, TypeOK
<1>2. PICK o : Record(c.key, o)
  BY DEF Receive, TimeOut, Break
<1>3. keys'[i] = keys[i] /\ now' = now
  BY <1>1, <1>2 DEF Record, RecordAt
<1>4. told'[i] = told[i]
  BY <1>1 DEF Receive, TimeOut, Break
<1>. QED BY <1>3, <1>4

LEMMA UsedUpInit ==
  ASSUME \A i \in Key : Caps[i] = Absent
  PROVE  BraveInit => UsedUpInv
<1> SUFFICES ASSUME BraveInit PROVE UsedUpInv
  OBVIOUS
<1>1. Base
  BY BaseInit
<1>2. /\ now = 1 /\ lost = 0 /\ MaxLost \in Nat
      /\ \A i \in Key : told[i] = 0 /\ keys[i] = NewKey(Absent)
  BY BraveAssumption DEF BraveInit, Init, NoInstant
<1>3. Uncapped /\ FewFailures
  BY <1>2 DEF Uncapped, FewFailures, NewKey
<1>4. ParksHold
  BY <1>1, <1>2, SinceType DEF ParksHold, Since
<1>. QED BY <1>1, <1>3, <1>4 DEF UsedUpInv

LEMMA UsedUpStep ==
  ASSUME MaxLost < FAIL_THRESHOLD, \A i \in Key : Caps[i] = Absent
  PROVE  UsedUpInv /\ [BraveNext]_braveVars => UsedUpInv'
<1> SUFFICES ASSUME UsedUpInv, [BraveNext]_braveVars PROVE UsedUpInv'
  OBVIOUS
<1>0. Base /\ Base' /\ lost <= MaxLost
  BY BaseStep DEF UsedUpInv, FewFailures
<1>a. /\ now \in Nat /\ now' \in Nat /\ now <= now /\ lost \in Nat /\ MaxLost \in Nat
      /\ WINDOW \in Nat /\ CLOCK_LAG \in Nat
  BY <1>0, SinceType DEF Base, BraveTypeOK, TypeOK, Instant
<1> SUFFICES lost' <= MaxLost /\ \A i \in Key : KeyKept(i)
  BY <1>0 DEF UsedUpInv, Uncapped, FewFailures, ParksHold, KeyKept
<1>1. ASSUME NEW exclude \in SUBSET Key, NEW j \in Key, SendOut(exclude, j)
      PROVE  lost' <= MaxLost /\ \A i \in Key : KeyKept(i)
  <2>1. Lease(exclude, j) /\ now' = now /\ lost' = lost /\ told' = told
    BY <1>1 DEF SendOut, Lease
  <2>2. KeyKept(j)
    BY <2>1, LeasedKept, Zenon
  <2>3. ASSUME NEW i \in Key \ {j} PROVE KeyKept(i)
    <3>1. LookedAt(i)
      BY <1>0, <2>1, LeaseEffect, Zenon DEF Base
    <3>. QED BY <1>a, <2>1, <3>1, LookedAtKept
  <2>. QED BY <1>0, <2>1, <2>2, <2>3
<1>2. ASSUME now' >= now, lost' = lost, told' = told,
             \A i \in Key : LookedAt(i) \/ keys'[i] = keys[i]
      PROVE  lost' <= MaxLost /\ \A i \in Key : KeyKept(i)
  <2>1. ASSUME NEW i \in Key PROVE KeyKept(i)
    BY <1>a, <1>2, LookedAtKept
  <2>. QED BY <1>0, <1>2, <2>1
<1>3. ASSUME NEW c \in calls, Arrive(c) \/ Leave(c)
      PROVE  lost' <= MaxLost /\ \A i \in Key : KeyKept(i)
  <2>1. UNCHANGED <<now, keys, lost, told>>
    BY <1>3 DEF Arrive, Leave, Abandon
  <2>. QED BY <1>a, <1>2, <2>1
<1>4. ASSUME NEW c \in calls, Receive(c) \/ TimeOut(c) \/ Break(c)
      PROVE  lost' <= MaxLost /\ \A i \in Key : KeyKept(i)
  <2>1. /\ lost' \in Nat /\ lost' >= lost /\ lost' <= MaxLost
        /\ c.key \in Key /\ KeyKept(c.key)
    <3>1. CASE Receive(c)
      <4>1. lost' = lost
        BY <3>1 DEF Receive
      <4>2. c.key \in Key /\ KeyKept(c.key)
        BY <3>1, AnsweredKept
      <4>. QED BY <1>0, <1>a, <4>1, <4>2
    <3>2. CASE TimeOut(c) \/ Break(c)
      <4>1. c.key \in Key /\ KeyKept(c.key) /\ lost' = lost + 1 /\ lost' <= MaxLost
        BY <3>2, LostKept
      <4>. QED BY <1>a, <4>1
    <3>. QED BY <1>4, <3>1, <3>2
  <2>2. ASSUME NEW i \in Key, i # c.key PROVE KeyKept(i)
    <3>1. keys'[i] = keys[i] /\ Since(i)' = Since(i) /\ now' = now
      BY <1>4, <2>2, OthersUntouched DEF Since
    <3>2. /\ keys[i].cap = Absent /\ keys[i].consecutive_failures <= lost
          /\ now > Since(i) \/ ParkedPast(keys[i], Since(i))
          /\ keys[i].consecutive_failures \in Nat
      BY <1>0, SinceType DEF UsedUpInv, Uncapped, FewFailures, ParksHold
    <3>3. keys[i].consecutive_failures <= lost'
      BY <1>a, <2>1, <3>2
    <3>. QED BY <3>1, <3>2, <3>3 DEF KeyKept
  <2>. QED BY <2>1, <2>2
<1>5. ASSUME Restart
      PROVE  lost' <= MaxLost /\ \A i \in Key : KeyKept(i)
  <2>1. /\ now' = now /\ lost' = lost
        /\ \A i \in Key : keys'[i] = NewKey(Absent) /\ told'[i] = 0
    BY <1>5 DEF Restart, NoInstant
  <2>2. now # 0
    BY <1>0, SinceType
  <2>3. \A i \in Key : now > told'[i] - WINDOW - CLOCK_LAG
    BY <1>a, <2>1, <2>2
  <2>. QED BY <1>0, <1>a, <2>1, <2>3 DEF KeyKept, Since, NewKey
<1>6. ASSUME Observe
      PROVE  lost' <= MaxLost /\ \A i \in Key : KeyKept(i)
  <2>1. UNCHANGED <<now, lost, told>>
    BY <1>6 DEF Observe, Snapshot, SnapshotAt, Refuse
  <2>2. \A i \in Key : LookedAt(i)
    BY <1>0, <1>6, ObserveEffect DEF Base
  <2>. QED BY <1>a, <1>2, <2>1, <2>2
<1>7. ASSUME BraveTick
      PROVE  lost' <= MaxLost /\ \A i \in Key : KeyKept(i)
  <2>1. UNCHANGED <<keys, lost, told>> /\ now' >= now
    BY <1>a, <1>7 DEF BraveTick, Tick
  <2>. QED BY <1>2, <2>1
<1>8. ASSUME UNCHANGED braveVars
      PROVE  lost' <= MaxLost /\ \A i \in Key : KeyKept(i)
  <2>1. UNCHANGED <<now, keys, lost, told>>
    BY <1>8 DEF braveVars
  <2>. QED BY <1>a, <1>2, <2>1
<1>. QED BY <1>1, <1>3, <1>4, <1>5, <1>6, <1>7, <1>8 DEF BraveNext

\* Only a lease adds to the requests in flight with a key.
LEMMA OnlyLeasesAdd ==
  ASSUME UsedUpInv, [BraveNext]_braveVars, NEW i \in Key, inflight'[i] > inflight[i]
  PROVE  \E exclude \in SUBSET Key : Lease(exclude, i)
<1>1. inflight \in [Key -> Nat] /\ inflight[i] \in Nat
  BY DEF UsedUpInv, Base, BraveTypeOK, TypeOK
<1>2. ASSUME NEW exclude \in SUBSET Key, NEW j \in Key, SendOut(exclude, j)
      PROVE  Lease(exclude, i)
  <2>1. Lease(exclude, j) /\ inflight' = [inflight EXCEPT ![j] = inflight[j] + 1]
    BY <1>2 DEF SendOut, Lease
  <2>2. j = i
    BY <1>1, <2>1
  <2>. QED BY <2>1, <2>2
<1>3. ASSUME inflight' = inflight PROVE FALSE
  BY <1>1, <1>3
<1>4. ASSUME NEW c \in calls, ~(inflight' = inflight),
             Receive(c) \/ TimeOut(c) \/ Break(c) \/ Leave(c)
      PROVE  FALSE
  <2>1. inflight' = [inflight EXCEPT ![c.key] = inflight[c.key] - 1]
    BY <1>4 DEF Receive, TimeOut, Break, Leave, Record, RecordAt, Abandon
  <2>2. c.key \in Key
    BY DEF UsedUpInv, Base, BraveTypeOK, Sound, Call
  <2>. QED BY <1>1, <2>1, <2>2
<1>5. CASE Restart
  <2>1. inflight'[i] = 0
    BY <1>5 DEF Restart
  <2>. QED BY <1>1, <2>1
<1>6. (\E c \in calls : Arrive(c)) \/ Observe \/ BraveTick \/ UNCHANGED braveVars
        => inflight' = inflight
  BY DEF Arrive, Observe, Snapshot, SnapshotAt, Refuse, BraveTick, Tick, braveVars
<1>. QED BY <1>2, <1>3, <1>4, <1>5, <1>6 DEF BraveNext

\* A key of which Brave said that its month is used up is not leased again
\* before the reset that was announced, but for the part of a second by which the
\* header rounds it down and the lag of the clock (Pool::record and try_acquire
\* against rl_headers of mock_brave.py), whatever older answers, lost requests
\* and restarts come in between.  It takes keys without a cap of their own and
\* fewer lost requests than park a key for another reason.
THEOREM UsedUpIsAlwaysLeftAlone ==
  ASSUME MaxLost < FAIL_THRESHOLD, \A i \in Key : Caps[i] = Absent
  PROVE  BraveSpec => UsedUpIsLeftAlone
<1>1. BraveInit => UsedUpInv
  BY UsedUpInit
<1>2. UsedUpInv /\ [BraveNext]_braveVars => UsedUpInv'
  BY UsedUpStep
<1>3. UsedUpInv /\ [BraveNext]_braveVars
        => [\A i \in Key : inflight'[i] > inflight[i]
                             => now > told[i] - WINDOW - CLOCK_LAG]_braveVars
  <2> SUFFICES ASSUME UsedUpInv, [BraveNext]_braveVars,
                      NEW i \in Key, inflight'[i] > inflight[i]
               PROVE  now > Since(i)
    BY DEF Since
  <2>1. PICK exclude \in SUBSET Key : Lease(exclude, i)
    BY OnlyLeasesAdd
  <2>. QED BY <2>1, LeaseIsNotParked, Zenon
<1>. QED BY <1>1, <1>2, <1>3, PTL DEF BraveSpec, UsedUpIsLeftAlone

-----------------------------------------------------------------------------
\* Against Brave the pool takes no step that module Pool does not have, as long
\* as the process is not restarted: every selection, result, drop and report is
\* one of Pool's, with an outcome Pool considers, and everything else leaves the
\* pool alone.  So what is proved about Pool holds here too (src/pool.rs).
THEOREM BraveUsesPool ==
  ASSUME Outcomes = Outcome, MaxRestarts = 0
  PROVE  BraveSpec => Spec
<1>1. BraveInit => Init
  BY DEF BraveInit
<1>2. Base /\ [BraveNext]_braveVars => [Next]_vars
  <2> SUFFICES ASSUME Base, [BraveNext]_braveVars PROVE Next \/ UNCHANGED vars
    OBVIOUS
  <2>1. ASSUME NEW exclude \in SUBSET Key, NEW i \in Key, SendOut(exclude, i)
        PROVE  Next
    BY <2>1 DEF SendOut, Next, TryAcquire
  <2>2. ASSUME NEW c \in calls, Arrive(c)
        PROVE  UNCHANGED vars
    BY <2>2 DEF Arrive, vars
  <2>3. ASSUME NEW c \in calls, Receive(c) \/ TimeOut(c) \/ Break(c)
        PROVE  Next
    <3>1. c.key \in Key
      BY <2>3, ResultEffect DEF Base
    <3>2. \E o \in Outcome : Record(c.key, o)
      BY <2>3, ResultEffect DEF Base
    <3>. QED BY <3>1, <3>2 DEF Next
  <2>4. ASSUME NEW c \in calls, Leave(c)
        PROVE  Next
    <3>1. c.key \in Key
      BY DEF Base, BraveTypeOK, Sound, Call
    <3>. QED BY <2>4, <3>1 DEF Leave, Next
  <2>5. ~Restart
    BY DEF Restart, Base, BraveTypeOK
  <2>6. CASE Observe
    BY <2>6 DEF Observe, Next, TryAcquire
  <2>7. CASE BraveTick
    BY <2>7 DEF BraveTick, Next
  <2>8. CASE UNCHANGED braveVars
    BY <2>8 DEF braveVars, vars
  <2>. QED BY <2>1, <2>2, <2>3, <2>4, <2>5, <2>6, <2>7, <2>8 DEF BraveNext
<1>. QED BY <1>1, <1>2, BaseInit, BaseStep, PTL DEF BraveSpec, Spec
=============================================================================
