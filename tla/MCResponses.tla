----------------------------- MODULE MCResponses -----------------------------
(* The responses from which the model-checking runs choose their outcomes. *)
EXTENDS KeyState

\* A response's headers for a plan of `second' requests per second and `month'
\* per month (Absent: not reported, 0: no cap), of which `left' remain.
Rl(second, month, left, resetSecond, resetMonth) ==
    FromHeaders([limit |-> <<second, month>>, remaining |-> <<0, left>>,
                 reset |-> <<resetSecond, resetMonth>>, policy |-> <<>>,
                 retry_after |-> Absent])

Result(class, rl) == [class |-> class, rl |-> rl]
=============================================================================
