------------------------------ MODULE MCReport -------------------------------
(* Constants of the run of the reports. *)
EXTENDS Report, MCResponses

NoCaps == [i \in Key |-> Absent]

\* A limit that is raised, one that is lowered with a month used up, and a hold.
ReportOutcomes ==
    {Result("2xx", Rl(2, 3, 2, 1, 3)), Result("2xx", Rl(1, 3, 0, 1, 1)),
     Result("429", Rl(2, 3, 2, 2, 3)), Result("auth", NoInfo)}
=============================================================================
