---------------------------- MODULE LeaderRegister ----------------------------
(***************************************************************************)
(* What the rest of the proxy relies on when it asks "who is the leader":  *)
(* a register that holds the winner of an election, moves to the winners   *)
(* of later elections only, and may skip some. withLeaderCheck and         *)
(* sendToLeader read it together with a flag that says whether to use it.  *)
(*                                                                         *)
(* How the heartbeats bring this about is the business of Leadership,      *)
(* which implements this specification.                                    *)
(***************************************************************************)
EXTENDS Naturals

CONSTANTS Nodes, NoNode, MaxTerm

VARIABLES
    chosen,          \* the winner of each election so far
    newest,          \* the number of elections so far
    followedTerm,    \* the election whose winner is in the register, 0 if none
    followed,        \* the register
    available        \* whether requests may be sent to that node

vars == <<chosen, newest, followedTerm, followed, available>>

Init ==
    /\ chosen = [t \in 1..MaxTerm |-> NoNode]
    /\ newest = 0
    /\ followedTerm = 0
    /\ followed = NoNode
    /\ available = FALSE

Choose(n) ==
    /\ newest < MaxTerm
    /\ newest' = newest + 1
    /\ chosen' = [chosen EXCEPT ![newest + 1] = n]
    /\ UNCHANGED <<followedTerm, followed, available>>

\* The register moves to the winner of a later election.
Follow(t) ==
    /\ followedTerm < t /\ t <= newest
    /\ followedTerm' = t
    /\ followed' = chosen[t]
    /\ available' = TRUE
    /\ UNCHANGED <<chosen, newest>>

\* The flag goes down and up while somebody is followed.
SetAvailable(up) ==
    /\ followed # NoNode
    /\ available' = up
    /\ UNCHANGED <<chosen, newest, followedTerm, followed>>

Next ==
    \/ \E n \in Nodes : Choose(n)
    \/ \E t \in 1..MaxTerm : Follow(t)
    \/ \E up \in BOOLEAN : SetAvailable(up)

Spec == Init /\ [][Next]_vars

\* The register does not stay behind.
LiveSpec == Spec /\ WF_vars(\E t \in 1..MaxTerm : Follow(t))

=============================================================================
