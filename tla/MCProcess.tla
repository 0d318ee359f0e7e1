------------------------------ MODULE MCProcess ------------------------------
(* Constants of the run of the shutdown. *)
EXTENDS Process, MCResponses

NoCaps == [i \in Key |-> Absent]

ProcessOutcomes ==
    {Result("2xx", NoInfo), Result("transport", NoInfo),
     Result("429", Rl(1, 0, 0, 4, Absent))}
=============================================================================
