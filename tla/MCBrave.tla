------------------------------- MODULE MCBrave -------------------------------
(* Constants of the run of the pool against Brave. *)
EXTENDS Brave

NoCaps == [i \in Key |-> Absent]
NoOutcomes == {}   \* the results are Brave's answers
=============================================================================
