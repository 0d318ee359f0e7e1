---------------------------- MODULE SlidingWindow ----------------------------
(***************************************************************************)
(* What the pool promises Brave for every key: a sliding window.  A        *)
(* request may be sent with a key only while fewer than `limit' requests   *)
(* were sent with it during the last Window, the one just being sent       *)
(* included in its own.  The limit may change from one send to the next;   *)
(* the history records the limit each send was given under.                *)
(***************************************************************************)
EXTENDS Naturals, Sequences, FiniteSets

CONSTANTS Key, Limits, Window

VARIABLES now,  \* the time
          log   \* for each key, the sends: [at |-> instant, limit |-> limit]

vars == <<now, log>>

Init == /\ now = 1
        /\ log = [i \in Key |-> <<>>]

\* The sends of key i that a request sent now has to share its window with.
Recent(i) == {n \in 1..Len(log[i]) : log[i][n].at + Window > now}

Send(i) ==
    \E limit \in Limits :
        /\ Cardinality(Recent(i)) < limit
        /\ log' = [log EXCEPT ![i] = Append(@, [at |-> now, limit |-> limit])]
        /\ UNCHANGED now

Wait == /\ now' \in Nat
        /\ now' > now
        /\ UNCHANGED log

Next == Wait \/ \E i \in Key : Send(i)

Spec == Init /\ [][Next]_vars
=============================================================================
