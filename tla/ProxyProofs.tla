----------------------------- MODULE ProxyProofs -----------------------------
(***************************************************************************)
(* Theorems about the requests and the pool they share, for any number of  *)
(* requests and keys: leases and places in the turnstile are neither lost  *)
(* nor doubled, retries go where they should, what the client is told is   *)
(* true to what happened, and the sleeper is told the truth.               *)
(*                                                                         *)
(* All of them rest on one inductive invariant, ProxyInv.  That each step  *)
(* keeps it is shown in two parts: what every action of a handler does to  *)
(* the handler, its place and its lease (Moves), and that whatever does    *)
(* this keeps the invariant.                                               *)
(***************************************************************************)
EXTENDS Proxy, PoolProofs, FiniteSetTheorems

\* The turnstile holds the requests that are inside Pool::acquire, each once.
QueueInv ==
    /\ \A m, n \in 1..Len(turnstile) : turnstile[m] = turnstile[n] => m = n
    /\ \A r \in Requests :
          req[r].pc = "acquire" <=> \E n \in 1..Len(turnstile) : turnstile[n] = r

\* Only the first of them sleeps, and not past its deadline.
SleepInv ==
    \A r \in Requests :
        req[r].wake # NoInstant =>
            /\ req[r].pc = "acquire" /\ r = turnstile[1]
            /\ req[r].wake <= req[r].deadline

\* How far a handler h has come, of what it holds, remembers and answers.
HandlerInv(h) ==
    /\ h.lease # NoKey <=> h.pc = "send"
    /\ h.pc \in {"new", "acquire"} => h.attempts < MaxAttempts
    /\ h.status # NoResponse => h.pc \in {"respond", "done"}
    /\ h.status \in {"429", "auth", "5xx"} => h.attempts = MaxAttempts
    /\ h.answer # "none" => h.pc = "done"
    /\ h.answer = "upstream_unreachable" => h.last_response = NoResponse

\* The inductive invariant.
ProxyInv == /\ ProxyTypeOK
            /\ LeasesAreHeld
            /\ QueueInv
            /\ SleepInv
            /\ \A r \in Requests : HandlerInv(req[r])

LEMMA MaxAttemptsType == MaxAttempts \in Nat /\ MaxAttempts >= 2
BY PoolAssumption DEF MaxAttempts, Max2, Min2

-----------------------------------------------------------------------------
(* What an action may do to the place of request r in the turnstile, and   *)
(* to its lease, when r's handler becomes h.                               *)

\* s2 is s without its n-th element.
Without(s, n, s2) ==
    /\ Len(s2) = Len(s) - 1
    /\ \A m \in 1..(Len(s) - 1) : s2[m] = IF m < n THEN s[m] ELSE s[m + 1]

Queues(r, h) == /\ req[r].pc # "acquire" /\ h.pc = "acquire"
                /\ turnstile' = Append(turnstile, r)
                /\ h.wake = NoInstant

LeavesQueue(r, h) == /\ h.pc # "acquire"
                     /\ \E n \in 1..Len(turnstile) :
                           /\ turnstile[n] = r
                           /\ Without(turnstile, n, turnstile')
                     /\ turnstile' \in Seq(Requests)
                     /\ h.wake = NoInstant

KeepsPlace(r, h) == /\ req[r].pc = "acquire" <=> h.pc = "acquire"
                    /\ UNCHANGED turnstile
                    /\ h.wake # NoInstant =>
                          /\ h.pc = "acquire" /\ r = turnstile[1]
                          /\ h.wake <= h.deadline

TakesLease(r, h) == /\ req[r].lease = NoKey /\ h.lease \in Key
                    /\ inflight' = [inflight EXCEPT ![h.lease] = @ + 1]

ReturnsLease(r, h) == /\ req[r].lease \in Key /\ h.lease = NoKey
                      /\ inflight' = [inflight EXCEPT ![req[r].lease] = @ - 1]

KeepsLease(r, h) == h.lease = req[r].lease /\ UNCHANGED inflight

\* A step of request r.  What is once remembered of a response is remembered.
Moves(r, h) ==
    /\ req' = [req EXCEPT ![r] = h]
    /\ h \in Handler
    /\ HandlerInv(h)
    /\ Queues(r, h) \/ LeavesQueue(r, h) \/ KeepsPlace(r, h)
    /\ TakesLease(r, h) \/ ReturnsLease(r, h) \/ KeepsLease(r, h)
    /\ req[r].pc \notin {"done", "gone"}
    /\ req[r].last_response # NoResponse =>
          h.last_response # NoResponse \/ h.pc = "gone"

\* The steps that are not a request's.
Background == UNCHANGED <<inflight, turnstile, req>>

-----------------------------------------------------------------------------
(* Whatever moves so keeps the invariant.                                  *)

LEMMA MoveKeepsQueue ==
  ASSUME ProxyTypeOK, QueueInv, SleepInv, NEW r \in Requests, NEW h \in Handler,
         req' = [req EXCEPT ![r] = h],
         Queues(r, h) \/ LeavesQueue(r, h) \/ KeepsPlace(r, h)
  PROVE  QueueInv' /\ SleepInv' /\ turnstile' \in Seq(Requests)
<1>1. /\ turnstile \in Seq(Requests) /\ Len(turnstile) \in Nat
      /\ req \in [Requests -> Handler]
  BY DEF ProxyTypeOK
<1>2. /\ req'[r] = h
      /\ \A q \in Requests : q # r => req'[q] = req[q]
  BY <1>1
<1>3. CASE Queues(r, h)
  <2>1. /\ turnstile' = Append(turnstile, r) /\ h.pc = "acquire"
        /\ h.wake = NoInstant /\ req[r].pc # "acquire"
    BY <1>3 DEF Queues
  <2>2. /\ turnstile' \in Seq(Requests)
        /\ Len(turnstile') = Len(turnstile) + 1
        /\ \A n \in 1..Len(turnstile) : turnstile'[n] = turnstile[n]
        /\ turnstile'[Len(turnstile) + 1] = r
    BY <1>1, <2>1
  <2>3. \A n \in 1..Len(turnstile) : turnstile[n] # r
    BY <2>1 DEF QueueInv
  <2>4. \A n \in 1..Len(turnstile') :
           n \in 1..Len(turnstile) \/ n = Len(turnstile) + 1
    BY <1>1, <2>2
  <2>5. Len(turnstile) + 1 \in 1..Len(turnstile')
        /\ 1..Len(turnstile) \subseteq 1..Len(turnstile')
    BY <1>1, <2>2
  <2>6. QueueInv'
    <3>1. ASSUME NEW m \in 1..Len(turnstile'), NEW n \in 1..Len(turnstile'),
                 turnstile'[m] = turnstile'[n]
          PROVE  m = n
      BY <2>2, <2>3, <2>4, <3>1 DEF QueueInv
    <3>2. ASSUME NEW q \in Requests
          PROVE  req'[q].pc = "acquire"
                   <=> \E n \in 1..Len(turnstile') : turnstile'[n] = q
      <4>1. CASE q = r
        BY <1>2, <2>1, <2>2, <2>5, <4>1
      <4>2. CASE q # r
        BY <1>2, <2>2, <2>4, <2>5, <4>2 DEF QueueInv
      <4>. QED BY <4>1, <4>2
    <3>. QED BY <3>1, <3>2 DEF QueueInv
  <2>7. ASSUME NEW q \in Requests, req'[q].wake # NoInstant
        PROVE  /\ req'[q].pc = "acquire" /\ q = turnstile'[1]
               /\ req'[q].wake <= req'[q].deadline
    <3>1. q # r /\ req'[q] = req[q]
      BY <1>2, <2>1, <2>7
    <3>2. req[q].pc = "acquire" /\ q = turnstile[1] /\ req[q].wake <= req[q].deadline
      BY <2>7, <3>1 DEF SleepInv
    <3>3. 1 \in 1..Len(turnstile)
      BY <1>1, <3>2 DEF QueueInv
    <3>. QED BY <2>2, <3>1, <3>2, <3>3
  <2>. QED BY <2>2, <2>6, <2>7 DEF SleepInv
<1>4. CASE LeavesQueue(r, h)
  <2>1. PICK n \in 1..Len(turnstile) :
           turnstile[n] = r /\ Without(turnstile, n, turnstile')
    BY <1>4 DEF LeavesQueue
  <2>2. /\ turnstile' \in Seq(Requests)
        /\ h.pc # "acquire" /\ h.wake = NoInstant
    BY <1>4 DEF LeavesQueue
  <2> DEFINE L == Len(turnstile)
             old(m) == IF m < n THEN m ELSE m + 1
  <2>3. /\ Len(turnstile') = L - 1 /\ L \in Nat /\ n \in 1..L
        /\ \A m \in 1..(L - 1) : /\ old(m) \in 1..L /\ old(m) # n
                                 /\ turnstile'[m] = turnstile[old(m)]
    BY <1>1, <2>1 DEF Without
  <2>4. \A m \in 1..L : m # n => \E k \in 1..(L - 1) : old(k) = m
    <3> SUFFICES ASSUME NEW m \in 1..L, m # n
                 PROVE  \E k \in 1..(L - 1) : old(k) = m
      OBVIOUS
    <3>1. CASE m < n
      <4>1. m \in 1..(L - 1) /\ old(m) = m
        BY <2>3, <3>1
      <4>. QED BY <4>1, Zenon
    <3>2. CASE m > n
      <4>1. m - 1 \in 1..(L - 1) /\ old(m - 1) = m
        BY <2>3, <3>2
      <4>. QED BY <4>1, Zenon
    <3>. QED BY <2>3, <3>1, <3>2
  <2>5. \A m \in 1..L : turnstile[m] = r => m = n
    BY <2>1, <2>3 DEF QueueInv
  <2>6. QueueInv'
    <3>1. ASSUME NEW a \in 1..Len(turnstile'), NEW b \in 1..Len(turnstile'),
                 turnstile'[a] = turnstile'[b]
          PROVE  a = b
      <4>1. a \in 1..(L - 1) /\ b \in 1..(L - 1)
        BY <2>3
      <4>2. old(a) = old(b)
        <5> HIDE DEF old
        <5>. QED BY <2>3, <3>1, <4>1 DEF QueueInv
      <4>. QED BY <2>3, <4>1, <4>2
    <3>2. ASSUME NEW q \in Requests
          PROVE  req'[q].pc = "acquire"
                   <=> \E m \in 1..Len(turnstile') : turnstile'[m] = q
      <4> HIDE DEF old
      <4>1. CASE q = r
        BY <1>2, <2>2, <2>3, <2>5, <4>1
      <4>2. CASE q # r
        <5>1. req'[q] = req[q]
          BY <1>2, <4>2
        <5>2. (\E m \in 1..L : turnstile[m] = q)
                <=> \E m \in 1..(L - 1) : turnstile'[m] = q
          BY <2>1, <2>3, <2>4, <4>2
        <5>. QED BY <2>3, <5>1, <5>2 DEF QueueInv
      <4>. QED BY <4>1, <4>2
    <3>. QED BY <3>1, <3>2 DEF QueueInv
  <2>7. ASSUME NEW q \in Requests, req'[q].wake # NoInstant
        PROVE  /\ req'[q].pc = "acquire" /\ q = turnstile'[1]
               /\ req'[q].wake <= req'[q].deadline
    <3>1. q # r /\ req'[q] = req[q]
      BY <1>2, <2>2, <2>7
    <3>2. req[q].pc = "acquire" /\ q = turnstile[1] /\ req[q].wake <= req[q].deadline
      BY <2>7, <3>1 DEF SleepInv
    <3>3. n # 1
      BY <2>1, <3>1, <3>2
    <3>4. 1 \in 1..(L - 1) /\ old(1) = 1
      BY <2>3, <3>3
    <3>5. turnstile'[1] = turnstile[1]
      <4> HIDE DEF old
      <4>. QED BY <2>3, <3>4
    <3>. QED BY <3>1, <3>2, <3>5
  <2>. QED BY <2>2, <2>6, <2>7 DEF SleepInv
<1>5. CASE KeepsPlace(r, h)
  <2>1. /\ turnstile' = turnstile
        /\ req[r].pc = "acquire" <=> h.pc = "acquire"
        /\ h.wake # NoInstant => /\ h.pc = "acquire" /\ r = turnstile[1]
                                 /\ h.wake <= h.deadline
    BY <1>5 DEF KeepsPlace
  <2>2. \A q \in Requests : req'[q].pc = "acquire" <=> req[q].pc = "acquire"
    BY <1>2, <2>1
  <2>3. QueueInv'
    BY <2>1, <2>2 DEF QueueInv
  <2>4. SleepInv'
    BY <1>2, <2>1 DEF SleepInv
  <2>. QED BY <1>1, <2>1, <2>3, <2>4
<1>. QED BY <1>3, <1>4, <1>5

LEMMA MoveKeepsLeases ==
  ASSUME ProxyTypeOK, LeasesAreHeld, NEW r \in Requests, NEW h \in Handler,
         req' = [req EXCEPT ![r] = h],
         TakesLease(r, h) \/ ReturnsLease(r, h) \/ KeepsLease(r, h)
  PROVE  LeasesAreHeld'
<1> DEFINE Holders(i)    == {q \in Requests : req[q].lease = i}
           NewHolders(i) == {q \in Requests : req'[q].lease = i}
<1>1. /\ req'[r] = h
      /\ \A q \in Requests : q # r => req'[q] = req[q]
      /\ inflight \in [Key -> Nat]
      /\ NoKey \notin Key
  BY DEF ProxyTypeOK, TypeOK, Key, NoKey
<1>2. ASSUME NEW i \in Key
      PROVE  IsFiniteSet(Holders(i)) /\ inflight[i] = Cardinality(Holders(i))
  <2>1. Holders(i) \subseteq Requests /\ IsFiniteSet(Requests)
    BY ProxyAssumption
  <2>. QED BY <2>1, FS_Subset DEF LeasesAreHeld
<1> SUFFICES ASSUME NEW i \in Key
             PROVE  inflight'[i] = Cardinality(NewHolders(i))
  BY DEF LeasesAreHeld
<1>3. CASE h.lease = i /\ req[r].lease # i
  <2>1. NewHolders(i) = Holders(i) \cup {r} /\ r \notin Holders(i)
    BY <1>1, <1>3
  <2>2. Cardinality(NewHolders(i)) = Cardinality(Holders(i)) + 1
    <3> HIDE DEF Holders, NewHolders
    <3>. QED BY <1>2, <2>1, FS_AddElement
  <2>3. inflight'[i] = inflight[i] + 1
    BY <1>1, <1>3 DEF TakesLease, ReturnsLease, KeepsLease
  <2>. QED BY <1>2, <2>2, <2>3
<1>4. CASE h.lease # i /\ req[r].lease = i
  <2>1. NewHolders(i) = Holders(i) \ {r} /\ r \in Holders(i)
    BY <1>1, <1>4
  <2>2. Cardinality(NewHolders(i)) = Cardinality(Holders(i)) - 1
    <3> HIDE DEF Holders, NewHolders
    <3>. QED BY <1>2, <2>1, FS_RemoveElement
  <2>3. inflight'[i] = inflight[i] - 1
    BY <1>1, <1>4 DEF TakesLease, ReturnsLease, KeepsLease
  <2>. QED BY <1>2, <2>2, <2>3
<1>5. CASE h.lease = i <=> req[r].lease = i
  <2>1. NewHolders(i) = Holders(i)
    BY <1>1, <1>5
  <2>2. inflight'[i] = inflight[i]
    BY <1>1, <1>5 DEF TakesLease, ReturnsLease, KeepsLease
  <2>. QED BY <1>2, <2>1, <2>2
<1>. QED BY <1>3, <1>4, <1>5

LEMMA MoveKeepsInv ==
  ASSUME ProxyInv, TypeOK', NEW r \in Requests, NEW h, Moves(r, h)
  PROVE  ProxyInv'
<1>1. /\ req' = [req EXCEPT ![r] = h] /\ h \in Handler /\ HandlerInv(h)
      /\ Queues(r, h) \/ LeavesQueue(r, h) \/ KeepsPlace(r, h)
      /\ TakesLease(r, h) \/ ReturnsLease(r, h) \/ KeepsLease(r, h)
  BY DEF Moves
<1>2. QueueInv' /\ SleepInv' /\ turnstile' \in Seq(Requests)
  BY <1>1, MoveKeepsQueue DEF ProxyInv
<1>3. LeasesAreHeld'
  BY <1>1, MoveKeepsLeases DEF ProxyInv
<1>4. req' \in [Requests -> Handler]
  BY <1>1 DEF ProxyInv, ProxyTypeOK
<1>5. \A q \in Requests : HandlerInv(req'[q])
  BY <1>1 DEF ProxyInv, ProxyTypeOK
<1>6. (\A q \in Requests : HandlerInv(req[q]))'
  BY <1>5 DEF HandlerInv
<1>. QED BY <1>2, <1>3, <1>4, <1>6 DEF ProxyInv, ProxyTypeOK

LEMMA BackgroundKeepsInv ==
  ASSUME ProxyInv, TypeOK', Background
  PROVE  ProxyInv'
<1> USE DEF Background, ProxyInv
<1>1. ProxyTypeOK' /\ LeasesAreHeld'
  BY DEF ProxyTypeOK, LeasesAreHeld
<1>2. QueueInv' /\ SleepInv'
  BY DEF QueueInv, SleepInv
<1>3. (\A q \in Requests : HandlerInv(req[q]))'
  BY DEF HandlerInv
<1>. QED BY <1>1, <1>2, <1>3

-----------------------------------------------------------------------------
(* Every action of a request is such a move.                               *)

LEMMA FirstOfQueue ==
  ASSUME ProxyInv, NEW r, HasTurn(r)
  PROVE  /\ r \in Requests /\ req[r].pc = "acquire"
         /\ r = turnstile[1] /\ 1 \in 1..Len(turnstile)
         /\ Tail(turnstile) \in Seq(Requests)
         /\ Without(turnstile, 1, Tail(turnstile))
<1>1. turnstile \in Seq(Requests) /\ turnstile # <<>>
  BY DEF ProxyInv, ProxyTypeOK, HasTurn
<1>2. /\ Len(turnstile) \in Nat \ {0}
      /\ Tail(turnstile) \in Seq(Requests)
      /\ Len(Tail(turnstile)) = Len(turnstile) - 1
      /\ \A m \in 1..(Len(turnstile) - 1) : Tail(turnstile)[m] = turnstile[m + 1]
  BY <1>1, HeadTailProperties
<1>3. r = turnstile[1] /\ 1 \in 1..Len(turnstile) /\ r \in Requests
  BY <1>1, <1>2 DEF HasTurn
<1>4. req[r].pc = "acquire"
  BY <1>3 DEF ProxyInv, QueueInv
<1>5. \A m \in 1..(Len(turnstile) - 1) : ~(m < 1)
  BY <1>2
<1>. QED BY <1>2, <1>3, <1>4, <1>5 DEF Without

LEMMA RejectMoves ==
  ASSUME ProxyInv, NEW r \in Requests, Reject(r)
  PROVE  \E h : Moves(r, h)
<1> DEFINE h == [req[r] EXCEPT !.pc = "done", !.answer = "rejected"]
<1>1. req[r] \in Handler /\ HandlerInv(req[r]) /\ req[r].pc = "new"
  BY DEF ProxyInv, ProxyTypeOK, Reject
<1>2. req' = [req EXCEPT ![r] = h] /\ UNCHANGED <<turnstile, inflight>>
  BY DEF Reject
<1>3. req[r].wake = NoInstant
  BY <1>1 DEF ProxyInv, SleepInv
<1>4. /\ h \in Handler /\ HandlerInv(h) /\ h.pc = "done" /\ h.lease = req[r].lease
      /\ h.wake = NoInstant /\ h.last_response = req[r].last_response
  BY <1>1, <1>3 DEF Handler, HandlerInv, Answers, NoResponse
<1> HIDE DEF h
<1>5. Moves(r, h)
  BY <1>1, <1>2, <1>4 DEF Moves, KeepsPlace, KeepsLease
<1>. QED BY <1>5

LEMMA ArriveMoves ==
  ASSUME ProxyInv, NEW r \in Requests, Arrive(r)
  PROVE  \E h : Moves(r, h)
<1> DEFINE h == [req[r] EXCEPT !.pc = "acquire", !.deadline = now + MAX_QUEUE_WAIT]
<1>1. req[r] \in Handler /\ HandlerInv(req[r]) /\ req[r].pc = "new"
  BY DEF ProxyInv, ProxyTypeOK, Arrive
<1>2. /\ req' = [req EXCEPT ![r] = h] /\ UNCHANGED inflight
      /\ turnstile' = Append(turnstile, r)
  BY DEF Arrive
<1>3. req[r].wake = NoInstant
  BY <1>1 DEF ProxyInv, SleepInv
<1>4. now + MAX_QUEUE_WAIT \in OptInstant
  BY ProxyAssumption DEF ProxyInv, ProxyTypeOK, TypeOK, Instant, OptInstant
<1>5. /\ h \in Handler /\ h.pc = "acquire" /\ h.lease = req[r].lease
      /\ h.wake = NoInstant /\ h.last_response = req[r].last_response
      /\ h.attempts = req[r].attempts /\ h.status = req[r].status
      /\ h.answer = req[r].answer
  BY <1>1, <1>3, <1>4 DEF Handler
<1> HIDE DEF h
<1>6. HandlerInv(h)
  BY <1>1, <1>5 DEF HandlerInv
<1>7. Moves(r, h)
  BY <1>1, <1>2, <1>5, <1>6 DEF Moves, Queues, KeepsLease
<1>. QED BY <1>7

LEMMA LeaseForMoves ==
  ASSUME ProxyInv, NEW r \in Requests, NEW i \in Key, LeaseFor(r, i)
  PROVE  \E h : Moves(r, h)
<1> DEFINE h == [req[r] EXCEPT !.pc = "send", !.wake = NoInstant, !.lease = i,
                               !.tried = @ \cup {i}, !.attempts = @ + 1,
                               !.sent_at = now]
<1>1. req[r] \in Handler /\ HandlerInv(req[r]) /\ req[r].pc = "acquire"
  BY FirstOfQueue DEF ProxyInv, ProxyTypeOK, LeaseFor
<1>2. /\ req' = [req EXCEPT ![r] = h]
      /\ inflight' = [inflight EXCEPT ![i] = @ + 1]
      /\ turnstile' = Tail(turnstile)
  <2>1. Lease(req[r].tried, i)
    BY DEF LeaseFor
  <2>2. inflight' = [inflight EXCEPT ![i] = @ + 1]
    BY <2>1, Zenon DEF Lease
  <2>3. turnstile' = Tail(turnstile)
    BY Zenon DEF LeaseFor
  <2>4. req' = [req EXCEPT ![r] = h]
    BY Zenon DEF LeaseFor
  <2> HIDE DEF h
  <2>. QED BY <2>2, <2>3, <2>4
<1>3. req[r].attempts + 1 \in 0..MaxAttempts
  BY <1>1, MaxAttemptsType DEF Handler, HandlerInv
<1>4. now \in OptInstant
  BY DEF ProxyInv, ProxyTypeOK, TypeOK, Instant, OptInstant
<1>5. /\ h \in Handler /\ h.pc = "send" /\ h.lease = i
      /\ h.wake = NoInstant /\ h.last_response = req[r].last_response
      /\ h.status = req[r].status /\ h.answer = req[r].answer
  BY <1>1, <1>3, <1>4 DEF Handler, OptInstant, NoInstant
<1> HIDE DEF h
<1>6. HandlerInv(h)
  <2>1. i # NoKey
    BY DEF Key, NoKey
  <2>2. h.status = NoResponse /\ h.answer = "none"
    BY <1>1, <1>5 DEF HandlerInv
  <2>. QED BY <1>5, <2>1, <2>2 DEF HandlerInv, NoResponse
<1>7. LeavesQueue(r, h)
  BY <1>2, <1>5, FirstOfQueue DEF LeavesQueue, LeaseFor
<1>8. TakesLease(r, h)
  BY <1>1, <1>2, <1>5 DEF TakesLease, HandlerInv
<1>9. Moves(r, h)
  BY <1>1, <1>2, <1>5, <1>6, <1>7, <1>8 DEF Moves
<1>. QED BY <1>9

\* The instant to wake at, of a refused request.
LEMMA WakeType ==
  ASSUME ProxyInv, NEW r, Refuse(req[r].tried)
  PROVE  NextAt(req[r].tried, now) \in OptInstant
BY NextAtIsFirst DEF ProxyInv, ProxyTypeOK, TypeOK, Refuse, OptInstant

LEMMA SleepMoves ==
  ASSUME ProxyInv, NEW r \in Requests, Sleep(r)
  PROVE  \E h : Moves(r, h)
<1> DEFINE at == NextAt(req[r].tried, now)
           h == [req[r] EXCEPT !.wake = at]
<1>1. /\ req[r] \in Handler /\ HandlerInv(req[r]) /\ req[r].pc = "acquire"
      /\ r = turnstile[1]
  BY FirstOfQueue DEF ProxyInv, ProxyTypeOK, Sleep
<1>2. /\ req' = [req EXCEPT ![r] = h] /\ UNCHANGED <<turnstile, inflight>>
      /\ at <= req[r].deadline
  BY DEF Sleep, Refuse
<1>3. at \in OptInstant
  BY WakeType DEF Sleep
<1> HIDE DEF at
<1>4. /\ h \in Handler /\ h.wake = at /\ h.pc = "acquire"
      /\ h.lease = req[r].lease /\ h.deadline = req[r].deadline
      /\ h.last_response = req[r].last_response
      /\ h.attempts = req[r].attempts /\ h.status = req[r].status
      /\ h.answer = req[r].answer
  BY <1>1, <1>3 DEF Handler
<1> HIDE DEF h
<1>5. HandlerInv(h)
  BY <1>1, <1>4 DEF HandlerInv
<1>6. KeepsPlace(r, h) /\ KeepsLease(r, h)
  BY <1>1, <1>2, <1>4 DEF KeepsPlace, KeepsLease
<1>7. Moves(r, h)
  BY <1>1, <1>2, <1>4, <1>5, <1>6 DEF Moves
<1>. QED BY <1>7

LEMMA GiveUpQueueingMoves ==
  ASSUME ProxyInv, NEW r \in Requests,
         NEW error \in {"rotator_saturated", "no_usable_key"},
         GiveUpQueueing(r, error)
  PROVE  \E h : Moves(r, h)
<1> DEFINE h == [req[r] EXCEPT !.pc = "done", !.wake = NoInstant, !.answer = error]
<1>1. req[r] \in Handler /\ HandlerInv(req[r]) /\ req[r].pc = "acquire"
  BY FirstOfQueue DEF ProxyInv, ProxyTypeOK, GiveUpQueueing
<1>2. /\ req' = [req EXCEPT ![r] = h] /\ UNCHANGED inflight
      /\ turnstile' = Tail(turnstile)
  BY DEF GiveUpQueueing, Refuse
<1>3. /\ h \in Handler /\ h.pc = "done" /\ h.lease = req[r].lease
      /\ h.wake = NoInstant /\ h.last_response = req[r].last_response
      /\ h.status = req[r].status /\ h.answer = error
  BY <1>1 DEF Handler, Answers, OptInstant, NoInstant
<1> HIDE DEF h
<1>4. HandlerInv(h)
  BY <1>1, <1>3 DEF HandlerInv, NoResponse
<1>5. LeavesQueue(r, h) /\ KeepsLease(r, h)
  BY <1>2, <1>3, FirstOfQueue DEF LeavesQueue, KeepsLease, GiveUpQueueing
<1>6. Moves(r, h)
  BY <1>1, <1>2, <1>3, <1>4, <1>5 DEF Moves
<1>. QED BY <1>6

\* The handler of r while it is upstream, its lease given back.
Upstream(r) == [req[r] EXCEPT !.lease = NoKey, !.sent_at = NoInstant]

LEMMA UpstreamType ==
  ASSUME ProxyInv, NEW r \in Requests, req[r].pc = "send"
  PROVE  /\ Upstream(r) \in Handler
         /\ Upstream(r).pc = "send" /\ Upstream(r).lease = NoKey
         /\ Upstream(r).wake = NoInstant
         /\ Upstream(r).status = NoResponse /\ Upstream(r).answer = "none"
         /\ Upstream(r).last_response = req[r].last_response
         /\ Upstream(r).attempts = req[r].attempts
         /\ req[r].lease \in Key
<1>1. req[r] \in Handler /\ HandlerInv(req[r])
  BY DEF ProxyInv, ProxyTypeOK
<1>2. /\ req[r].status = NoResponse /\ req[r].answer = "none"
      /\ req[r].lease # NoKey
  BY <1>1 DEF HandlerInv
<1>3. req[r].wake = NoInstant
  BY DEF ProxyInv, SleepInv
<1>. QED BY <1>1, <1>2, <1>3 DEF Upstream, Handler, OptInstant, NoInstant

\* A handler f with a failed attempt goes on as Retry says.
LEMMA RetryMoves ==
  ASSUME ProxyInv, NEW r \in Requests, req[r].pc = "send",
         NEW f \in Handler, f.pc = "send", f.lease = NoKey,
         f.wake = NoInstant, f.status = NoResponse, f.answer = "none",
         req[r].last_response # NoResponse => f.last_response # NoResponse,
         Retry(r, f),
         inflight' = [inflight EXCEPT ![req[r].lease] = @ - 1]
  PROVE  \E h : Moves(r, h)
<1>1. req[r].lease \in Key
  BY UpstreamType
<1>2. MaxAttempts \in Nat /\ f.attempts \in 0..MaxAttempts
  BY MaxAttemptsType DEF Handler
<1>3. ASSUME NEW h \in Handler, req' = [req EXCEPT ![r] = h], HandlerInv(h),
             h.lease = NoKey, h.wake = NoInstant,
             h.last_response = f.last_response,
             \/ h.pc = "acquire" /\ turnstile' = Append(turnstile, r)
             \/ h.pc # "acquire" /\ UNCHANGED turnstile
      PROVE  Moves(r, h)
  <2>1. ReturnsLease(r, h)
    BY <1>1, <1>3 DEF ReturnsLease
  <2>2. Queues(r, h) \/ KeepsPlace(r, h)
    BY <1>3 DEF Queues, KeepsPlace
  <2>. QED BY <1>3, <2>1, <2>2 DEF Moves
<1>4. CASE f.attempts < MaxAttempts
  <2> DEFINE h == [f EXCEPT !.pc = "acquire"]
  <2>1. req' = [req EXCEPT ![r] = h] /\ turnstile' = Append(turnstile, r)
    BY <1>4 DEF Retry
  <2>2. /\ h \in Handler /\ h.pc = "acquire" /\ h.lease = NoKey
        /\ h.wake = NoInstant /\ h.last_response = f.last_response
        /\ h.attempts = f.attempts /\ h.status = NoResponse /\ h.answer = "none"
    BY DEF Handler
  <2> HIDE DEF h
  <2>3. HandlerInv(h)
    BY <1>4, <2>2 DEF HandlerInv, NoResponse
  <2>. QED BY <1>3, <2>1, <2>2, <2>3
<1>5. CASE ~(f.attempts < MaxAttempts) /\ f.last_response # NoResponse
  <2> DEFINE h == [f EXCEPT !.pc = "respond", !.status = f.last_response]
  <2>1. req' = [req EXCEPT ![r] = h] /\ UNCHANGED turnstile
    BY <1>5 DEF Retry
  <2>2. /\ h \in Handler /\ h.pc = "respond" /\ h.lease = NoKey
        /\ h.wake = NoInstant /\ h.last_response = f.last_response
        /\ h.attempts = f.attempts /\ h.answer = "none"
    BY DEF Handler
  <2> HIDE DEF h
  <2>3. h.attempts = MaxAttempts
    BY <1>2, <1>5, <2>2
  <2>4. HandlerInv(h)
    BY <2>2, <2>3 DEF HandlerInv
  <2>. QED BY <1>3, <2>1, <2>2, <2>4
<1>6. CASE ~(f.attempts < MaxAttempts) /\ f.last_response = NoResponse
  <2> DEFINE h == [f EXCEPT !.pc = "done", !.answer = "upstream_unreachable"]
  <2>1. req' = [req EXCEPT ![r] = h] /\ UNCHANGED turnstile
    BY <1>6 DEF Retry
  <2>2. /\ h \in Handler /\ h.pc = "done" /\ h.lease = NoKey
        /\ h.wake = NoInstant /\ h.last_response = f.last_response
        /\ h.status = NoResponse
    BY DEF Handler, Answers
  <2> HIDE DEF h
  <2>3. HandlerInv(h)
    BY <1>6, <2>2 DEF HandlerInv, NoResponse
  <2>. QED BY <1>3, <2>1, <2>2, <2>3
<1>. QED BY <1>4, <1>5, <1>6

LEMMA AnsweredMoves ==
  ASSUME ProxyInv, NEW r \in Requests, NEW o \in Outcomes, Answered(r, o)
  PROVE  \E h : Moves(r, h)
<1> DEFINE f == Upstream(r)
<1>1. /\ req[r].pc = "send"
      /\ inflight' = [inflight EXCEPT ![req[r].lease] = @ - 1]
  BY DEF Answered, Record, RecordAt
<1>2. /\ f \in Handler /\ f.pc = "send" /\ f.lease = NoKey
      /\ f.wake = NoInstant /\ f.status = NoResponse /\ f.answer = "none"
      /\ f.last_response = req[r].last_response /\ req[r].lease \in Key
  BY <1>1, UpstreamType
<1>3. o.class \in Class /\ o.class # NoResponse
  BY PoolAssumption DEF Outcome, Class, NoResponse
<1>4. \/ /\ Verdict(o) # "RetryOtherKey"
         /\ req' = [req EXCEPT ![r] = [f EXCEPT !.pc = "respond", !.status = o.class]]
         /\ UNCHANGED turnstile
      \/ Retry(r, [f EXCEPT !.last_error = TRUE])
      \/ Retry(r, [f EXCEPT !.last_response = o.class])
  BY Zenon DEF Answered, Upstream
<1> HIDE DEF f
<1>5. CASE /\ Verdict(o) # "RetryOtherKey"
           /\ req' = [req EXCEPT ![r] = [f EXCEPT !.pc = "respond", !.status = o.class]]
           /\ UNCHANGED turnstile
  <2> DEFINE h == [f EXCEPT !.pc = "respond", !.status = o.class]
  <2>1. /\ h \in Handler /\ h.pc = "respond" /\ h.lease = NoKey
        /\ h.wake = NoInstant /\ h.last_response = f.last_response
        /\ h.status = o.class /\ h.answer = "none"
    BY <1>2, <1>3 DEF Handler
  <2>2. req' = [req EXCEPT ![r] = h] /\ UNCHANGED turnstile
    BY <1>5
  <2> HIDE DEF h
  <2>3. o.class \notin {"429", "auth", "5xx"}
    BY <1>5 DEF Verdict
  <2>4. HandlerInv(h)
    BY <2>1, <2>3 DEF HandlerInv
  <2>5. ReturnsLease(r, h) /\ KeepsPlace(r, h)
    BY <1>1, <1>2, <2>1, <2>2 DEF ReturnsLease, KeepsPlace
  <2>6. Moves(r, h)
    BY <1>1, <1>2, <2>1, <2>2, <2>4, <2>5 DEF Moves
  <2>. QED BY <2>6
<1>6. CASE Retry(r, [f EXCEPT !.last_error = TRUE])
  <2> DEFINE g == [f EXCEPT !.last_error = TRUE]
  <2>1. /\ g \in Handler /\ g.pc = "send" /\ g.lease = NoKey
        /\ g.wake = NoInstant /\ g.status = NoResponse /\ g.answer = "none"
        /\ g.last_response = f.last_response
    BY <1>2 DEF Handler
  <2>2. Retry(r, g)
    BY <1>6
  <2> HIDE DEF g
  <2>. QED BY <1>1, <1>2, <2>1, <2>2, RetryMoves
<1>7. CASE Retry(r, [f EXCEPT !.last_response = o.class])
  <2> DEFINE g == [f EXCEPT !.last_response = o.class]
  <2>1. /\ g \in Handler /\ g.pc = "send" /\ g.lease = NoKey
        /\ g.wake = NoInstant /\ g.status = NoResponse /\ g.answer = "none"
        /\ g.last_response # NoResponse
    BY <1>2, <1>3 DEF Handler
  <2>2. Retry(r, g)
    BY <1>7
  <2> HIDE DEF g
  <2>. QED BY <1>1, <1>2, <2>1, <2>2, RetryMoves
<1>. QED BY <1>4, <1>5, <1>6, <1>7

LEMMA RespondMoves ==
  ASSUME ProxyInv, NEW r \in Requests, Respond(r)
  PROVE  \E h : Moves(r, h)
<1> DEFINE h == [req[r] EXCEPT !.pc = "done", !.answer = "upstream"]
<1>1. req[r] \in Handler /\ HandlerInv(req[r]) /\ req[r].pc = "respond"
  BY DEF ProxyInv, ProxyTypeOK, Respond
<1>2. req' = [req EXCEPT ![r] = h] /\ UNCHANGED <<turnstile, inflight>>
  BY DEF Respond, Snapshot, SnapshotAt
<1>3. req[r].wake = NoInstant
  BY <1>1 DEF ProxyInv, SleepInv
<1>4. /\ h \in Handler /\ h.pc = "done" /\ h.lease = req[r].lease
      /\ h.wake = NoInstant /\ h.last_response = req[r].last_response
      /\ h.status = req[r].status /\ h.attempts = req[r].attempts
      /\ h.answer = "upstream"
  BY <1>1, <1>3 DEF Handler, Answers
<1> HIDE DEF h
<1>5. HandlerInv(h)
  BY <1>1, <1>4 DEF HandlerInv
<1>6. Moves(r, h)
  BY <1>1, <1>2, <1>4, <1>5 DEF Moves, KeepsPlace, KeepsLease
<1>. QED BY <1>6

\* Taking an element out of a sequence.
LEMMA RemoveAtIsWithout ==
  ASSUME NEW S, NEW s \in Seq(S), NEW n \in 1..Len(s)
  PROVE  RemoveAt(s, n) \in Seq(S) /\ Without(s, n, RemoveAt(s, n))
<1> DEFINE a == SubSeq(s, 1, n - 1)
           b == SubSeq(s, n + 1, Len(s))
<1>1. Len(s) \in Nat /\ \A i \in 1..Len(s) : s[i] \in S
  OBVIOUS
<1>2. /\ a \in Seq(S) /\ Len(a) = n - 1
      /\ \A i \in 1..(n - 1) : a[i] = s[i]
  <2>1. \A i \in 1..(n - 1) : s[i] \in S /\ 1 + i - 1 = i
    BY <1>1
  <2>. QED BY <1>1, <2>1, SubSeqProperties
<1>3. /\ b \in Seq(S) /\ Len(b) = Len(s) - n
      /\ \A i \in 1..(Len(s) - n) : b[i] = s[n + i]
  <2>1. \A i \in (n + 1)..Len(s) : s[i] \in S
    BY <1>1
  <2>2. \A i \in 1..(Len(s) - n) : (n + 1) + i - 1 = n + i
    BY <1>1
  <2>. QED BY <1>1, <2>1, <2>2, SubSeqProperties
<1>4. RemoveAt(s, n) = a \o b
  BY DEF RemoveAt
<1> HIDE DEF a, b
<1>5. /\ a \o b \in Seq(S) /\ Len(a \o b) = Len(a) + Len(b)
      /\ \A i \in 1..(Len(a) + Len(b)) :
            (a \o b)[i] = IF i <= Len(a) THEN a[i] ELSE b[i - Len(a)]
  BY <1>2, <1>3, ConcatProperties
<1>6. ASSUME NEW m \in 1..(Len(s) - 1)
      PROVE  (a \o b)[m] = IF m < n THEN s[m] ELSE s[m + 1]
  <2>1. m \in 1..(Len(a) + Len(b))
    BY <1>1, <1>2, <1>3
  <2>2. CASE m < n
    <3>1. m \in 1..(n - 1) /\ m <= Len(a)
      BY <1>1, <1>2, <2>2
    <3>. QED BY <1>2, <1>5, <2>1, <2>2, <3>1
  <2>3. CASE ~(m < n)
    <3>1. /\ m - Len(a) \in 1..(Len(s) - n) /\ ~(m <= Len(a))
          /\ n + (m - Len(a)) = m + 1
      BY <1>1, <1>2, <2>3
    <3>2. (a \o b)[m] = b[m - Len(a)]
      BY <1>5, <2>1, <3>1
    <3>3. b[m - Len(a)] = s[n + (m - Len(a))]
      BY <1>3, <3>1
    <3>. QED BY <2>3, <3>1, <3>2, <3>3
  <2>. QED BY <2>2, <2>3
<1>. QED BY <1>1, <1>2, <1>3, <1>4, <1>5, <1>6 DEF Without

LEMMA DisconnectMoves ==
  ASSUME ProxyInv, NEW r \in Requests, Disconnect(r)
  PROVE  \E h : Moves(r, h)
<1> DEFINE h == [NewHandler EXCEPT !.pc = "gone"]
<1>1. /\ req[r] \in Handler /\ HandlerInv(req[r])
      /\ req[r].pc \in {"acquire", "send"}
      /\ turnstile \in Seq(Requests)
  BY DEF ProxyInv, ProxyTypeOK, Disconnect
<1>2. req' = [req EXCEPT ![r] = h]
  BY DEF Disconnect
<1>3. /\ h \in Handler /\ h.pc = "gone" /\ h.lease = NoKey
      /\ h.wake = NoInstant /\ h.last_response = NoResponse
      /\ h.status = NoResponse /\ h.attempts = 0 /\ h.answer = "none"
  <2>1. NewHandler \in Handler
    <3>1. 0 \in 0..MaxAttempts
      BY MaxAttemptsType
    <3>. QED BY <3>1 DEF NewHandler, Handler, Answers, OptInstant, NoInstant
  <2>2. h \in Handler
    BY <2>1 DEF Handler
  <2>. QED BY <2>2 DEF NewHandler
<1> HIDE DEF h
<1>4. HandlerInv(h)
  BY <1>3 DEF HandlerInv, NoResponse
<1>5. CASE /\ req[r].pc = "acquire"
           /\ \E n \in DOMAIN turnstile :
                 turnstile[n] = r /\ turnstile' = RemoveAt(turnstile, n)
           /\ UNCHANGED inflight
  <2>1. PICK n \in 1..Len(turnstile) :
           turnstile[n] = r /\ turnstile' = RemoveAt(turnstile, n)
    BY <1>1, <1>5
  <2>2. turnstile' \in Seq(Requests) /\ Without(turnstile, n, turnstile')
    BY <1>1, <2>1, RemoveAtIsWithout
  <2>3. LeavesQueue(r, h)
    BY <1>3, <2>1, <2>2 DEF LeavesQueue
  <2>4. KeepsLease(r, h)
    BY <1>1, <1>3, <1>5 DEF KeepsLease, HandlerInv
  <2>5. Moves(r, h)
    BY <1>1, <1>2, <1>3, <1>4, <2>3, <2>4 DEF Moves
  <2>. QED BY <2>5
<1>6. CASE req[r].pc = "send" /\ Abandon(req[r].lease) /\ UNCHANGED turnstile
  <2>1. req[r].lease \in Key
    BY <1>6, UpstreamType
  <2>2. ReturnsLease(r, h) /\ KeepsPlace(r, h)
    BY <1>3, <1>6, <2>1 DEF ReturnsLease, KeepsPlace, Abandon
  <2>3. Moves(r, h)
    BY <1>1, <1>2, <1>3, <1>4, <2>2 DEF Moves
  <2>. QED BY <2>3
<1>. QED BY <1>5, <1>6 DEF Disconnect

LEMMA RequestMoves ==
  ASSUME ProxyInv, NEW r \in Requests,
         \/ Reject(r) \/ Arrive(r) \/ Acquire(r) \/ UpstreamAnswer(r)
         \/ UpstreamTimeout(r) \/ Respond(r) \/ Disconnect(r)
  PROVE  \E h : Moves(r, h)
<1>1. CASE Acquire(r)
  <2>1. ASSUME NEW i \in Key, LeaseFor(r, i) PROVE \E h : Moves(r, h)
    BY <2>1, LeaseForMoves
  <2>2. CASE Sleep(r)
    BY <2>2, SleepMoves
  <2>3. CASE Saturated(r)
    BY <2>3, GiveUpQueueingMoves DEF Saturated
  <2>4. CASE Unavailable(r)
    BY <2>4, GiveUpQueueingMoves DEF Unavailable
  <2>. QED BY <1>1, <2>1, <2>2, <2>3, <2>4 DEF Acquire
<1>2. CASE UpstreamAnswer(r) \/ UpstreamTimeout(r)
  <2>1. PICK o \in Outcomes : Answered(r, o)
    BY <1>2, ProxyAssumption DEF UpstreamAnswer, UpstreamTimeout
  <2>. QED BY <2>1, AnsweredMoves
<1>. QED BY <1>1, <1>2, RejectMoves, ArriveMoves, RespondMoves, DisconnectMoves

LEMMA StepMoves ==
  ASSUME ProxyInv, [ProxyNext]_proxyVars
  PROVE  Background \/ \E r \in Requests : \E h : Moves(r, h)
<1>1. CASE Report \/ ProxyTick \/ UNCHANGED proxyVars
  BY <1>1 DEF Report, ProxyTick, Snapshot, SnapshotAt, Tick, proxyVars, Background
<1>. QED BY <1>1, RequestMoves DEF ProxyNext

-----------------------------------------------------------------------------
(* The pool, as the requests use it.                                       *)

\* Every step of the requests is a step of the pool, or none.
LEMMA StepUsesPool ==
  ASSUME ProxyInv, [ProxyNext]_proxyVars
  PROVE  [Next]_vars
<1>1. ASSUME NEW r \in Requests, req[r].pc = "send" PROVE req[r].lease \in Key
  BY <1>1, UpstreamType
<1>2. ASSUME NEW r \in Requests PROVE req[r].tried \in SUBSET Key
  BY DEF ProxyInv, ProxyTypeOK, Handler
<1>3. ASSUME NEW r \in Requests, Reject(r) \/ Arrive(r) PROVE UNCHANGED vars
  BY <1>3 DEF Reject, Arrive, vars
<1>4. ASSUME NEW r \in Requests, Acquire(r)
      PROVE  TryAcquire(req[r].tried)
  BY <1>4, Zenon
     DEF Acquire, LeaseFor, Sleep, Saturated, Unavailable, GiveUpQueueing,
         TryAcquire
<1>5. ASSUME NEW r \in Requests, UpstreamAnswer(r) \/ UpstreamTimeout(r)
      PROVE  \E i \in Key, o \in Outcomes : Record(i, o)
  <2>1. PICK o \in Outcomes : Answered(r, o)
    BY <1>5, ProxyAssumption DEF UpstreamAnswer, UpstreamTimeout
  <2>. QED BY <1>1, <2>1, Zenon DEF Answered
<1>6. ASSUME NEW r \in Requests, Disconnect(r)
      PROVE  UNCHANGED vars \/ \E i \in Key : Abandon(i)
  BY <1>1, <1>6, Zenon DEF Disconnect, vars
<1>7. CASE Report \/ ProxyTick \/ UNCHANGED proxyVars
  BY <1>7 DEF Report, ProxyTick, Next, proxyVars, vars
<1>8. ASSUME NEW r \in Requests, Respond(r) PROVE Snapshot
  BY <1>8 DEF Respond
<1>. QED BY <1>2, <1>3, <1>4, <1>5, <1>6, <1>7, <1>8 DEF ProxyNext, Next

LEMMA ProxyInvStep == ProxyInv /\ [ProxyNext]_proxyVars => ProxyInv'
<1> SUFFICES ASSUME ProxyInv, [ProxyNext]_proxyVars PROVE ProxyInv'
  OBVIOUS
<1>1. TypeOK'
  BY StepUsesPool, TypeStep DEF ProxyInv, ProxyTypeOK
<1>. QED BY <1>1, StepMoves, MoveKeepsInv, BackgroundKeepsInv

LEMMA ProxyInvInit == ProxyInit => ProxyInv
<1> SUFFICES ASSUME ProxyInit PROVE ProxyInv
  OBVIOUS
<1>1. TypeOK
  BY NewKeyType, PoolAssumption
     DEF ProxyInit, Init, TypeOK, Instant, NoInstant
<1>2. turnstile = <<>> /\ \A r \in Requests : req[r] = NewHandler
  BY DEF ProxyInit
<1>3. NewHandler \in Handler /\ HandlerInv(NewHandler)
  <2>1. 0 \in 0..MaxAttempts /\ 0 < MaxAttempts
    BY MaxAttemptsType
  <2>. QED BY <2>1 DEF NewHandler, Handler, HandlerInv, Answers, OptInstant,
                       NoInstant, NoResponse
<1>4. ProxyTypeOK
  BY <1>1, <1>3 DEF ProxyInit, ProxyTypeOK
<1>5. LeasesAreHeld
  <2> SUFFICES ASSUME NEW i \in Key
               PROVE  inflight[i] = Cardinality({r \in Requests : req[r].lease = i})
    BY DEF LeasesAreHeld
  <2>1. {r \in Requests : req[r].lease = i} = {}
    BY <1>2 DEF NewHandler, NoKey, Key
  <2>2. inflight[i] = 0
    BY DEF ProxyInit, Init
  <2>. QED BY <2>1, <2>2, FS_EmptySet
<1>6. QueueInv /\ SleepInv
  <2>1. 1..Len(turnstile) = {}
    BY <1>2
  <2>. QED BY <1>2, <2>1 DEF QueueInv, SleepInv, NewHandler
<1>. QED BY <1>2, <1>3, <1>4, <1>5, <1>6 DEF ProxyInv

LEMMA ProxyInvHolds == ProxySpec => []ProxyInv
BY ProxyInvInit, ProxyInvStep, PTL DEF ProxySpec

-----------------------------------------------------------------------------
\* The types of the handlers' variables and of the turnstile.
THEOREM ProxyTypeCorrect == ProxySpec => []ProxyTypeOK
BY ProxyInvHolds, PTL DEF ProxyInv

\* Every lease belongs to the one request that is upstream with it: none is
\* recorded twice, and none outlives its request, answered or disconnected.
THEOREM LeasesAlwaysHeld == ProxySpec => []LeasesAreHeld
BY ProxyInvHolds, PTL DEF ProxyInv

\* The requests inside Pool::acquire are in the turnstile, each once, and only
\* the first sleeps, not past its deadline (Pool::acquire).
THEOREM TurnstileAlwaysSound == ProxySpec => []TurnstileIsSound
<1>1. ASSUME ProxyInv PROVE TurnstileIsSound
  <2>1. /\ turnstile \in Seq(Requests) /\ Len(turnstile) \in Nat
        /\ DOMAIN turnstile = 1..Len(turnstile)
    BY <1>1 DEF ProxyInv, ProxyTypeOK
  <2>2. ASSUME NEW r \in Requests
        PROVE  Cardinality({n \in DOMAIN turnstile : turnstile[n] = r})
                 = IF req[r].pc = "acquire" THEN 1 ELSE 0
    <3> DEFINE places == {n \in 1..Len(turnstile) : turnstile[n] = r}
    <3>1. CASE req[r].pc = "acquire"
      <4>1. PICK n \in 1..Len(turnstile) : turnstile[n] = r
        BY <1>1, <3>1 DEF ProxyInv, QueueInv
      <4>2. places = {n}
        BY <1>1, <4>1 DEF ProxyInv, QueueInv
      <4>. QED BY <2>1, <3>1, <4>2, FS_Singleton
    <3>2. CASE req[r].pc # "acquire"
      <4>1. places = {}
        BY <1>1, <3>2 DEF ProxyInv, QueueInv
      <4>. QED BY <2>1, <3>2, <4>1, FS_EmptySet
    <3>. QED BY <3>1, <3>2
  <2>3. ASSUME NEW r \in Requests, req[r].wake # NoInstant
        PROVE  r = Head(turnstile) /\ req[r].wake <= req[r].deadline
    <3>1. r = turnstile[1] /\ req[r].wake <= req[r].deadline
      BY <1>1, <2>3 DEF ProxyInv, SleepInv
    <3>. QED BY <3>1 DEF Head
  <2>. QED BY <2>2, <2>3 DEF TurnstileIsSound
<1>. QED BY <1>1, ProxyInvHolds, PTL

\* A failure that another key might have avoided is shown to the client only
\* after all attempts (proxy, the code after its loop).
THEOREM FailureOnlyAfterAll == ProxySpec => []FailureOnlyAfterAllAttempts
<1>1. ProxyInv => FailureOnlyAfterAllAttempts
  BY DEF ProxyInv, HandlerInv, FailureOnlyAfterAllAttempts
<1>. QED BY <1>1, ProxyInvHolds, PTL

\* The requests are a use of the pool: whatever is proved of every behaviour of
\* Pool holds of the pool that serves them.
THEOREM ProxyUsesPool == ProxySpec => UsesPool
<1>1. ProxyInit => Init
  BY DEF ProxyInit
<1>2. ProxyInv /\ [ProxyNext]_proxyVars => [Next]_vars
  BY StepUsesPool
<1>. QED BY <1>1, <1>2, ProxyInvHolds, PTL DEF ProxySpec, UsesPool, Spec

-----------------------------------------------------------------------------
\* Once Brave has answered one of the attempts, the client is not told that
\* upstream was unreachable (proxy, last_response).
THEOREM AnAnswerIsNeverLost == ProxySpec => AnAnswerIsNotLost
<1> SUFFICES ASSUME NEW r \in Requests
             PROVE  ProxySpec =>
                      [](req[r].last_response # NoResponse
                           => [](req[r].answer # "upstream_unreachable"))
  BY DEF AnAnswerIsNotLost
<1> DEFINE Heard == req[r].last_response # NoResponse \/ req[r].pc = "gone"
<1>1. ProxyInv /\ Heard => req[r].answer # "upstream_unreachable"
  BY DEF ProxyInv, HandlerInv
<1>2. ProxyInv /\ Heard /\ [ProxyNext]_proxyVars => Heard'
  <2> SUFFICES ASSUME ProxyInv, Heard, [ProxyNext]_proxyVars PROVE Heard'
    OBVIOUS
  <2>1. CASE Background
    BY <2>1 DEF Background
  <2>2. ASSUME NEW q \in Requests, NEW h, Moves(q, h)
        PROVE  Heard'
    <3>1. /\ req' = [req EXCEPT ![q] = h] /\ req[q].pc # "gone"
          /\ req[q].last_response # NoResponse =>
                h.last_response # NoResponse \/ h.pc = "gone"
      BY <2>2 DEF Moves
    <3>2. req \in [Requests -> Handler]
      BY DEF ProxyInv, ProxyTypeOK
    <3>3. req'[r] = IF r = q THEN h ELSE req[r]
      BY <3>1, <3>2
    <3>. QED BY <3>1, <3>3
  <2>. QED BY <2>1, <2>2, StepMoves
<1>3. req[r].last_response # NoResponse => Heard
  OBVIOUS
<1> HIDE DEF Heard
<1>. QED BY <1>1, <1>2, <1>3, ProxyInvHolds, PTL DEF ProxySpec

-----------------------------------------------------------------------------
\* Only a lease is an attempt.
LEMMA AttemptIsLease ==
  ASSUME ProxyInv, [ProxyNext]_proxyVars, NEW r \in Requests,
         req'[r].attempts > req[r].attempts
  PROVE  \E i \in Key : LeaseFor(r, i)
<1>0. /\ req \in [Requests -> Handler]
      /\ \A q \in Requests : req[q] \in Handler /\ req[q].attempts \in Nat
  <2>1. req \in [Requests -> Handler]
    BY DEF ProxyInv, ProxyTypeOK
  <2>. QED BY <2>1, MaxAttemptsType DEF Handler
<1>1. ASSUME NEW q \in Requests, NEW h, req' = [req EXCEPT ![q] = h],
             h.attempts = req[q].attempts \/ h.attempts = 0
      PROVE  FALSE
  <2>1. req'[r] = IF r = q THEN h ELSE req[r]
    BY <1>0, <1>1
  <2>2. req[r].attempts \in Nat
    BY <1>0
  <2>. QED BY <1>1, <2>1, <2>2
<1>2. CASE Report \/ ProxyTick \/ UNCHANGED proxyVars
  <2>1. req' = req
    BY <1>2 DEF Report, ProxyTick, proxyVars
  <2>. QED BY <1>0, <2>1
<1>3. ASSUME NEW q \in Requests, Reject(q) PROVE FALSE
  <2>1. [req[q] EXCEPT !.pc = "done", !.answer = "rejected"].attempts
          = req[q].attempts
    BY <1>0 DEF Handler
  <2>. QED BY <1>1, <1>3, <2>1 DEF Reject
<1>4. ASSUME NEW q \in Requests, Arrive(q) PROVE FALSE
  <2>1. [req[q] EXCEPT !.pc = "acquire",
                       !.deadline = now + MAX_QUEUE_WAIT].attempts
          = req[q].attempts
    BY <1>0 DEF Handler
  <2>. QED BY <1>1, <1>4, <2>1 DEF Arrive
<1>5. ASSUME NEW q \in Requests, Respond(q) PROVE FALSE
  <2>1. [req[q] EXCEPT !.pc = "done", !.answer = "upstream"].attempts
          = req[q].attempts
    BY <1>0 DEF Handler
  <2>. QED BY <1>1, <1>5, <2>1 DEF Respond
<1>6. ASSUME NEW q \in Requests, Disconnect(q) PROVE FALSE
  <2>1. [NewHandler EXCEPT !.pc = "gone"].attempts = 0
    BY DEF NewHandler
  <2>. QED BY <1>1, <1>6, <2>1 DEF Disconnect
<1>7. ASSUME NEW q \in Requests, Sleep(q) PROVE FALSE
  <2>1. [req[q] EXCEPT !.wake = NextAt(req[q].tried, now)].attempts
          = req[q].attempts
    BY <1>0 DEF Handler
  <2>. QED BY <1>1, <1>7, <2>1 DEF Sleep
<1>8. ASSUME NEW q \in Requests, NEW error, GiveUpQueueing(q, error) PROVE FALSE
  <2>1. [req[q] EXCEPT !.pc = "done", !.wake = NoInstant,
                       !.answer = error].attempts = req[q].attempts
    BY <1>0 DEF Handler
  <2>. QED BY <1>1, <1>8, <2>1 DEF GiveUpQueueing
<1>9. ASSUME NEW q \in Requests, NEW o \in Outcomes, Answered(q, o) PROVE FALSE
  <2> DEFINE f == Upstream(q)
  <2>1. f \in Handler /\ f.attempts = req[q].attempts
    BY <1>9, UpstreamType DEF Answered
  <2>2. \/ req' = [req EXCEPT ![q] = [f EXCEPT !.pc = "respond", !.status = o.class]]
        \/ Retry(q, [f EXCEPT !.last_error = TRUE])
        \/ Retry(q, [f EXCEPT !.last_response = o.class])
    BY <1>9, Zenon DEF Answered, Upstream
  <2> HIDE DEF f
  <2>3. ASSUME NEW g, g.attempts = f.attempts, DOMAIN g = DOMAIN f, Retry(q, g)
        PROVE  FALSE
    <3>1. \/ req' = [req EXCEPT ![q] = [g EXCEPT !.pc = "acquire"]]
          \/ req' = [req EXCEPT ![q] =
                       [g EXCEPT !.pc = "respond", !.status = g.last_response]]
          \/ req' = [req EXCEPT ![q] =
                       [g EXCEPT !.pc = "done", !.answer = "upstream_unreachable"]]
      BY <2>3, Zenon DEF Retry
    <3>2. /\ [g EXCEPT !.pc = "acquire"].attempts = g.attempts
          /\ [g EXCEPT !.pc = "respond",
                       !.status = g.last_response].attempts = g.attempts
          /\ [g EXCEPT !.pc = "done",
                       !.answer = "upstream_unreachable"].attempts = g.attempts
      BY <2>1, <2>3 DEF Handler
    <3>. QED BY <1>1, <2>1, <2>3, <3>1, <3>2
  <2>4. /\ [f EXCEPT !.pc = "respond", !.status = o.class].attempts = f.attempts
        /\ [f EXCEPT !.last_error = TRUE].attempts = f.attempts
        /\ [f EXCEPT !.last_response = o.class].attempts = f.attempts
        /\ DOMAIN [f EXCEPT !.last_error = TRUE] = DOMAIN f
        /\ DOMAIN [f EXCEPT !.last_response = o.class] = DOMAIN f
    BY <2>1 DEF Handler
  <2>. QED BY <1>1, <2>1, <2>2, <2>3, <2>4
<1>10. ASSUME NEW q \in Requests, NEW i \in Key, LeaseFor(q, i)
       PROVE  LeaseFor(r, i)
  <2>1. CASE q = r
    BY <1>10, <2>1
  <2>2. CASE q # r
    <3>1. req'[r] = req[r]
      BY <1>0, <1>10, <2>2 DEF LeaseFor
    <3>. QED BY <1>0, <3>1
  <2>. QED BY <2>1, <2>2
<1>. QED BY <1>2, <1>3, <1>4, <1>5, <1>6, <1>7, <1>8, <1>9, <1>10,
            ProxyAssumption
         DEF ProxyNext, Acquire, Saturated, Unavailable, UpstreamAnswer,
             UpstreamTimeout

\* A request is sent again with a key it has tried only while every key it has
\* not tried is parked (Pool::try_acquire, the two looks at the keys).
THEOREM RetriesAlwaysAnotherKey == ProxySpec => RetriesAnotherKey
<1>1. ASSUME ProxyInv, [ProxyNext]_proxyVars, NEW r \in Requests,
             req'[r].attempts > req[r].attempts, req'[r].lease \in req[r].tried,
             NEW j \in Key \ req[r].tried
      PROVE  keys'[j].health # "Ok"
  <2>1. PICK i \in Key : LeaseFor(r, i)
    BY <1>1, AttemptIsLease
  <2> DEFINE tried == req[r].tried
  <2>2. /\ keys' = [Examined(tried, now) EXCEPT
                      ![i].sends = Append(@, now), ![i].last_used = now]
        /\ i \in Usable(tried, now)
    BY <2>1 DEF LeaseFor, Lease, Best
  <2>3. TypeOK /\ now \in Instant /\ req \in [Requests -> Handler]
    BY <1>1 DEF ProxyInv, ProxyTypeOK, TypeOK
  <2>4. i \in tried
    <3>1. req'[r].lease = i
      BY <2>1, <2>3, Zenon DEF LeaseFor, Handler
    <3>. QED BY <1>1, <3>1
  <2>5. Refresh(keys[j], now).health # "Ok" /\ j \in Considered(tried, now)
    <3>1. i \in Considered(tried, now)
      BY <2>2 DEF Usable
    <3>. QED BY <1>1, <2>4, <3>1, SelectionIsLooks
  <2>6. Examined(tried, now)[j].health # "Ok"
    <3>1. Examined(tried, now)[j] = Look(keys[j], now)
      BY <2>5, SelectionIsLooks
    <3>2. Refresh(keys[j], now) \in KeyRecord
      BY <1>1, <2>3, RefreshType DEF TypeOK
    <3>. QED BY <2>5, <3>1, <3>2, SettleKeepsHealth DEF Look
  <2>7. keys'[j] = Examined(tried, now)[j]
    <3>1. j # i /\ j \in Key
      BY <1>1, <2>4
    <3>2. Examined(tried, now) \in [Key -> KeyRecord]
      BY <2>3, ExaminedType
    <3>. QED BY <2>2, <3>1, <3>2
  <2>. QED BY <2>6, <2>7
<1>2. ProxyInv /\ [ProxyNext]_proxyVars =>
        [\A r \in Requests :
           req'[r].attempts > req[r].attempts /\ req'[r].lease \in req[r].tried
             => \A i \in Key \ req[r].tried : keys'[i].health # "Ok"]_proxyVars
  BY <1>1
<1>. QED BY <1>2, ProxyInvHolds, PTL DEF ProxySpec, RetriesAnotherKey

-----------------------------------------------------------------------------
(* What the sleeper was told.                                              *)

\* Whether the pool still tells a sleeper what it told it depends on looks only.
LEMMA ToldOf ==
  ASSUME NEW r
  PROVE  /\ StillTold(r) <=>
               /\ UsableOf(keys, req[r].tried, now) = {}
               /\ NextAtOf(keys, req[r].tried, now) >= req[r].wake
         /\ StillTold(r)' <=>
               /\ UsableOf(keys', req'[r].tried, now') = {}
               /\ NextAtOf(keys', req'[r].tried, now') >= req'[r].wake
<1>1. StillTold(r) <=> /\ UsableOf(keys, req[r].tried, now) = {}
                       /\ NextAtOf(keys, req[r].tried, now) >= req[r].wake
  BY SelectionOf DEF StillTold
<1>2. /\ Usable(req[r].tried, now)' = UsableOf(keys', req'[r].tried, now')
      /\ NextAt(req[r].tried, now)' = NextAtOf(keys', req'[r].tried, now')
  BY SelectionOfNextKeys
<1>. QED BY <1>1, <1>2 DEF StillTold

\* A step that at most looks at keys leaves a sleeper as it is.
LEMMA LooksKeepTold ==
  ASSUME ProxyInv, NEW r \in Requests, StillTold(r),
         req'[r] = req[r], now' = now, NEW t \in Instant, t <= now,
         \A i \in Key :
            keys'[i] \in {keys[i], Refresh(keys[i], t), Look(keys[i], t)}
  PROVE  StillTold(r)'
<1>1. keys \in [Key -> KeyRecord] /\ now \in Instant
  BY DEF ProxyInv, ProxyTypeOK, TypeOK
<1>2. /\ UsableOf(keys', req[r].tried, now) = UsableOf(keys, req[r].tried, now)
      /\ NextAtOf(keys', req[r].tried, now) = NextAtOf(keys, req[r].tried, now)
  BY <1>1, LookedAtAlike
<1>. QED BY <1>2, ToldOf

\* A request that goes to sleep is told the truth.
LEMMA SleepIsTold ==
  ASSUME ProxyInv, NEW r \in Requests, Sleep(r)
  PROVE  StillTold(r)'
<1> DEFINE tried == req[r].tried
           at == NextAt(tried, now)
<1>1. /\ keys \in [Key -> KeyRecord] /\ now \in Instant
      /\ req \in [Requests -> Handler] /\ req[r] \in Handler
      /\ now <= now
  BY DEF ProxyInv, ProxyTypeOK, TypeOK, Instant
<1>2. /\ keys' = Examined(tried, now) /\ now' = now
      /\ Usable(tried, now) = {}
      /\ req' = [req EXCEPT ![r].wake = at]
  BY DEF Sleep, Refuse
<1>3. req'[r].tried = tried /\ req'[r].wake = at
  BY <1>1, <1>2 DEF Handler
<1>4. at \in Nat
  BY WakeType DEF Sleep, OptInstant
<1>5. \A i \in Key :
         keys'[i] \in {keys[i], Refresh(keys[i], now), Look(keys[i], now)}
  BY <1>2, ExaminedLooks
<1>6. /\ UsableOf(keys', tried, now) = UsableOf(keys, tried, now)
      /\ NextAtOf(keys', tried, now) = NextAtOf(keys, tried, now)
  BY <1>1, <1>5, LookedAtAlike
<1>7. UsableOf(keys', tried, now) = {} /\ NextAtOf(keys', tried, now) = at
  BY <1>2, <1>6, SelectionOf
<1> HIDE DEF tried, at
<1>8. at >= at
  BY <1>4
<1>. QED BY <1>2, <1>3, <1>7, <1>8, ToldOf

\* Nobody else has the turn while r sleeps.
LEMMA SleeperHasTheTurn ==
  ASSUME ProxyInv, NEW r \in Requests, req[r].wake # NoInstant,
         NEW q, HasTurn(q)
  PROVE  q = r
BY FirstOfQueue DEF ProxyInv, SleepInv

LEMMA AnswerIsAResult ==
  ASSUME ProxyInv, NEW q \in Requests, NEW o \in Outcomes, Answered(q, o)
  PROVE  req[q].pc = "send" /\ req'[q].pc \notin {"send", "gone"}
<1> DEFINE f == Upstream(q)
<1>1. req[q].pc = "send" /\ req \in [Requests -> Handler]
  BY DEF Answered, ProxyInv, ProxyTypeOK
<1>2. f \in Handler
  BY <1>1, UpstreamType
<1>3. \/ req' = [req EXCEPT ![q] = [f EXCEPT !.pc = "respond", !.status = o.class]]
      \/ Retry(q, [f EXCEPT !.last_error = TRUE])
      \/ Retry(q, [f EXCEPT !.last_response = o.class])
  BY Zenon DEF Answered, Upstream
<1> HIDE DEF f
<1>4. ASSUME NEW g, "pc" \in DOMAIN g, Retry(q, g)
      PROVE  req'[q].pc \in {"acquire", "respond", "done"}
  <2>1. \/ req' = [req EXCEPT ![q] = [g EXCEPT !.pc = "acquire"]]
        \/ req' = [req EXCEPT ![q] =
                     [g EXCEPT !.pc = "respond", !.status = g.last_response]]
        \/ req' = [req EXCEPT ![q] =
                     [g EXCEPT !.pc = "done", !.answer = "upstream_unreachable"]]
    BY <1>4, Zenon DEF Retry
  <2>2. /\ [g EXCEPT !.pc = "acquire"].pc = "acquire"
        /\ [g EXCEPT !.pc = "respond", !.status = g.last_response].pc = "respond"
        /\ [g EXCEPT !.pc = "done", !.answer = "upstream_unreachable"].pc = "done"
    BY <1>4
  <2>. QED BY <1>1, <2>1, <2>2
<1>5. /\ "pc" \in DOMAIN [f EXCEPT !.last_error = TRUE]
      /\ "pc" \in DOMAIN [f EXCEPT !.last_response = o.class]
      /\ [f EXCEPT !.pc = "respond", !.status = o.class].pc = "respond"
  BY <1>2 DEF Handler
<1>. QED BY <1>1, <1>3, <1>4, <1>5

\* Nothing but the result of another request makes a slot free earlier than the
\* sleeping holder of the turn was told (Pool::acquire, sleep_until).
THEOREM OnlyAResultEverFreesEarlier == ProxySpec => OnlyAResultFreesEarlier
<1>1. ASSUME ProxyInv, ProxyInv', [ProxyNext]_proxyVars, NEW r \in Requests,
             now' < req'[r].wake, req'[r].wake = req[r].wake => StillTold(r),
             ~ \E q \in Requests : /\ req[q].pc = "send"
                                   /\ req'[q].pc \notin {"send", "gone"}
      PROVE  StillTold(r)'
  <2>1. /\ req \in [Requests -> Handler] /\ now \in Instant /\ now <= now
        /\ keys \in [Key -> KeyRecord] /\ now' \in Nat
    BY <1>1 DEF ProxyInv, ProxyTypeOK, TypeOK, Instant
  <2>2. req'[r].wake # NoInstant /\ req'[r].pc = "acquire"
    <3>1. req'[r].wake # NoInstant
      BY <1>1, <2>1 DEF NoInstant
    <3>. QED BY <1>1, <3>1 DEF ProxyInv, SleepInv
  <2>3. req[r].wake # NoInstant => req[r].pc = "acquire"
    BY <1>1 DEF ProxyInv, SleepInv
  <2>4. ASSUME req'[r] = req[r], now' = now, NEW t \in Instant, t <= now,
               \A i \in Key :
                  keys'[i] \in {keys[i], Refresh(keys[i], t), Look(keys[i], t)}
        PROVE  StillTold(r)'
    BY <1>1, <2>4, LooksKeepTold
  <2>5. ASSUME NEW q \in Requests, NEW h, req' = [req EXCEPT ![q] = h]
        PROVE  /\ q # r => req'[r] = req[r] /\ req[r].wake # NoInstant
               /\ q = r => req'[r] = h
    BY <2>1, <2>2, <2>5
  <2>6. ASSUME Snapshot, req'[r] = req[r] PROVE StillTold(r)'
    <3>1. PICK t \in Reading : keys' = Reported(t) /\ now' = now
      BY <2>6 DEF Snapshot, SnapshotAt
    <3>2. t \in Instant /\ t <= now
      BY <2>1, ReadingType
    <3>3. \A i \in Key : keys'[i] = Look(keys[i], t)
      BY <3>1, ReportedLooks
    <3>. QED BY <2>4, <2>6, <3>1, <3>2, <3>3
  <2>7. ASSUME NEW q \in Requests, Reject(q) PROVE StillTold(r)'
    <3>1. q # r
      <4> DEFINE h == [req[q] EXCEPT !.pc = "done", !.answer = "rejected"]
      <4>1. h.pc = "done"
        BY <2>1 DEF Handler
      <4>2. req' = [req EXCEPT ![q] = h]
        BY <2>1, <2>7 DEF Reject
      <4> HIDE DEF h
      <4>. QED BY <2>2, <2>5, <4>1, <4>2
    <3>. QED BY <2>1, <2>4, <2>5, <2>7, <3>1 DEF Reject
  <2>8. ASSUME NEW q \in Requests, Arrive(q) PROVE StillTold(r)'
    <3>1. q # r
      <4> DEFINE h == [req[q] EXCEPT !.pc = "acquire",
                                     !.deadline = now + MAX_QUEUE_WAIT]
      <4>1. h.wake = req[q].wake
        BY <2>1 DEF Handler
      <4>2. req' = [req EXCEPT ![q] = h] /\ req[q].pc = "new"
        BY <2>1, <2>8 DEF Arrive
      <4> HIDE DEF h
      <4>. QED BY <2>2, <2>3, <2>5, <4>1, <4>2
    <3>. QED BY <2>1, <2>4, <2>5, <2>8, <3>1 DEF Arrive
  <2>9. ASSUME NEW q \in Requests, Respond(q) PROVE StillTold(r)'
    <3>1. q # r
      <4> DEFINE h == [req[q] EXCEPT !.pc = "done", !.answer = "upstream"]
      <4>1. h.pc = "done"
        BY <2>1 DEF Handler
      <4>2. req' = [req EXCEPT ![q] = h]
        BY <2>1, <2>9 DEF Respond
      <4> HIDE DEF h
      <4>. QED BY <2>2, <2>5, <4>1, <4>2
    <3>. QED BY <2>5, <2>6, <2>9, <3>1 DEF Respond
  <2>10. ASSUME NEW q \in Requests, Disconnect(q) PROVE StillTold(r)'
    <3>1. q # r
      <4>1. [NewHandler EXCEPT !.pc = "gone"].pc = "gone"
        BY DEF NewHandler
      <4>. QED BY <2>2, <2>5, <2>10, <4>1 DEF Disconnect
    <3>2. req'[r] = req[r]
      BY <2>5, <2>10, <3>1 DEF Disconnect
    <3>3. UNCHANGED <<now, keys>>
      BY <2>10 DEF Disconnect, Abandon
    <3>. QED BY <2>1, <2>4, <3>2, <3>3
  <2>11. ASSUME NEW q \in Requests, Acquire(q) PROVE StillTold(r)'
    <3>1. HasTurn(q) /\ req' = [req EXCEPT ![q] = req'[q]]
      <4>1. HasTurn(q)
        BY <2>11, Zenon DEF Acquire, LeaseFor, Sleep, Saturated, Unavailable,
                            GiveUpQueueing
      <4>2. \E h : req' = [req EXCEPT ![q] = h]
        <5>1. Sleep(q) => req' = [req EXCEPT ![q] = [req[q] EXCEPT
                                     !.wake = NextAt(req[q].tried, now)]]
          BY Zenon DEF Sleep
        <5>. QED BY <2>11, <5>1, Zenon
                 DEF Acquire, LeaseFor, Saturated, Unavailable, GiveUpQueueing
      <4>. QED BY <2>1, <4>1, <4>2
    <3>2. q = r
      BY <1>1, <2>5, <3>1, SleeperHasTheTurn
    <3>3. ASSUME NEW i \in Key, LeaseFor(r, i) PROVE FALSE
      <4>1. req'[r].pc = "send"
        BY <2>1, <3>3 DEF LeaseFor, Handler
      <4>. QED BY <2>2, <4>1
    <3>4. ASSUME NEW error, GiveUpQueueing(r, error) PROVE FALSE
      <4>1. req'[r].pc = "done"
        BY <2>1, <3>4 DEF GiveUpQueueing, Handler
      <4>. QED BY <2>2, <4>1
    <3>5. Sleep(r)
      BY <2>11, <3>2, <3>3, <3>4 DEF Acquire, Saturated, Unavailable
    <3>. QED BY <1>1, <3>5, SleepIsTold
  <2>12. ASSUME NEW q \in Requests, UpstreamAnswer(q) \/ UpstreamTimeout(q)
         PROVE  FALSE
    <3>1. PICK o \in Outcomes : Answered(q, o)
      BY <2>12, ProxyAssumption DEF UpstreamAnswer, UpstreamTimeout
    <3>. QED BY <1>1, <3>1, AnswerIsAResult
  <2>13. CASE ProxyTick
    <3>1. /\ req' = req /\ keys' = keys /\ now' = now + 1 /\ now + 1 \in Instant
          /\ now <= now + 1
      BY <2>1, <2>13 DEF ProxyTick, Tick, Instant, NoInstant
    <3>2. StillTold(r) /\ now + 1 < req[r].wake
      BY <1>1, <3>1
    <3>3. /\ Usable(req[r].tried, now) = {}
          /\ NextAt(req[r].tried, now) >= req[r].wake
      BY <3>2 DEF StillTold
    <3>4. NextAt(req[r].tried, now) \in Nat /\ req[r].wake \in Nat
      BY <1>1, <2>1, <3>3, NextAtIsFirst
         DEF ProxyInv, ProxyTypeOK, Handler, OptInstant
    <3>5. now + 1 < NextAt(req[r].tried, now)
      BY <2>1, <3>1, <3>2, <3>3, <3>4 DEF Instant
    <3>6. /\ Usable(req[r].tried, now + 1) = {}
          /\ NextAt(req[r].tried, now + 1) = NextAt(req[r].tried, now)
      BY <1>1, <2>1, <3>1, <3>3, <3>5, RefusalStays DEF ProxyInv, ProxyTypeOK
    <3>. QED BY <3>1, <3>3, <3>6, SelectionOf, ToldOf
  <2>14. CASE Report
    BY <2>6, <2>14 DEF Report
  <2>15. CASE UNCHANGED proxyVars
    BY <2>1, <2>4, <2>15 DEF proxyVars
  <2>. QED BY <1>1, <2>7, <2>8, <2>9, <2>10, <2>11, <2>12, <2>13, <2>14, <2>15
           DEF ProxyNext
<1>2. ProxyInv /\ ProxyInv' /\ [ProxyNext]_proxyVars =>
        [\A r \in Requests :
           /\ now' < req'[r].wake
           /\ req'[r].wake = req[r].wake => StillTold(r)
           /\ ~StillTold(r)'
           => \E q \in Requests : req[q].pc = "send"
                                 /\ req'[q].pc \notin {"send", "gone"}]_proxyVars
  BY <1>1
<1>. QED BY <1>2, ProxyInvHolds, PTL DEF ProxySpec, OnlyAResultFreesEarlier
=============================================================================
