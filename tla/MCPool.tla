------------------------------- MODULE MCPool --------------------------------
(* Constants of the runs of the pool alone. *)
EXTENDS Pool, MCResponses

\* No caps: the keys follow what the headers say.
NoCaps   == [i \in Key |-> Absent]
CapFirst == [i \in Key |-> IF i = 1 THEN 1 ELSE Absent]

\* A plan of more requests per second than is believed (2), and of 3 per
\* month, of which 2 or none are left.
PlanOutcomes ==
    {Result("2xx", Rl(3, 3, 2, 1, 2)), Result("2xx", Rl(3, 3, 0, 1, 2)),
     Result("429", NoInfo), Result("auth", NoInfo)}

\* The month is used up, with its reset far away, while others still fail.
MonthOutcomes == {Result("2xx", Rl(2, 3, 0, 1, 9)), Result("auth", NoInfo)}

\* Success without any header.
PlainSuccess == {Result("2xx", NoInfo), Result("4xx", NoInfo)}
=============================================================================
