--------------------------- MODULE MCPoolHistory -----------------------------
(* Constants of the runs of the pool with the history of its results. *)
EXTENDS PoolHistory

NoCaps == [i \in Key |-> Absent]

Bare == [limit |-> <<>>, remaining |-> <<>>, reset |-> <<>>, policy |-> <<>>,
         retry_after |-> Absent]

\* One response of each class that a counter of the key reacts to.
BareResponses ==
    {[class |-> c, headers |-> Bare] : c \in {"2xx", "4xx", "429", "auth"}}

AuthErrors == {[class |-> "auth", headers |-> Bare]}
BusyFor3   == {[class |-> "429", headers |-> [Bare EXCEPT !.retry_after = 3]]}

NoOutcomes == {}   \* the results are made of Responses
=============================================================================
