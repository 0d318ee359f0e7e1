------------------------------- MODULE MCProxy -------------------------------
(* Constants of the run that composes the requests with the pool. *)
EXTENDS Proxy, MCResponses

NoCaps == [i \in Key |-> Absent]

\* Success, and every kind of failure with its own way through the handler.
ProxyOutcomes ==
    {Result("2xx", NoInfo), Result("4xx", NoInfo), Result("transport", NoInfo),
     Result("429", Rl(1, 0, 0, 2, Absent)), Result("auth", NoInfo)}
=============================================================================
