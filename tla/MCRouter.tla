------------------------------- MODULE MCRouter -------------------------------
(***************************************************************************)
(* Three jobs in two outbound messages.                                    *)
(***************************************************************************)
EXTENDS Router

CONSTANTS m1, m2, j1, j2, j3

MCJobsOf == [m \in Messages |-> IF m = m1 THEN <<j1, j2>> ELSE <<j3>>]

=============================================================================
