---------------------------- MODULE MCPoolPacing -----------------------------
(* Constants of the pacing run. *)
EXTENDS PoolPacing, MCResponses

NoCaps == [i \in Key |-> Absent]

\* The limit goes up, down, and beyond what is believed; the key is held,
\* exhausted and disabled in between.
PacingOutcomes ==
    {Result("2xx", Rl(1, 0, 0, 1, 1)), Result("2xx", Rl(2, 0, 0, 1, 1)),
     Result("5xx", Rl(5, Absent, Absent, 1, Absent)),
     Result("429", Rl(1, 9, 8, 1, 9)), Result("2xx", Rl(2, 9, 0, 1, 2))}
=============================================================================
