------------------------------ MODULE MCDoneBatch -----------------------------
(***************************************************************************)
(* Two jobs of one topic and a third of another; the first consumer        *)
(* acknowledges two of them.                                               *)
(***************************************************************************)
EXTENDS DoneBatch

MCTopicOf == [j \in Jobs |-> IF j = "j3" THEN "b" ELSE "a"]
MCConsumerOf == [j \in Jobs |-> IF j = "j2" THEN "c2" ELSE "c1"]

=============================================================================
