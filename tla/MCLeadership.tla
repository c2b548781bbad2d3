----------------------------- MODULE MCLeadership -----------------------------
(***************************************************************************)
(* A cluster whose nodes all vote in every term. Nodes may be permuted     *)
(* where no liveness is checked.                                           *)
(***************************************************************************)
EXTENDS Leadership, TLC

MCVotersOf == [t \in 0..MaxTerm |-> Nodes]
NodeSymmetry == Permutations(Nodes)

=============================================================================
