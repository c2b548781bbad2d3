------------------------------ MODULE MCSession -------------------------------
(***************************************************************************)
(* A consumer that connects twice with one UUID and one token, which the   *)
(* auth file may give the role of a consumer or of a producer, or not      *)
(* know.                                                                   *)
(***************************************************************************)
EXTENDS Session, TLC

CONSTANTS c1, c2

MCConns == {c1, c2}
MCAfter == (c1 :> NoConn) @@ (c2 :> c1)
MCUUIDOf == [c \in Conns |-> CHOOSE u \in UUIDs : TRUE]
MCTokenOf == [c \in Conns |-> CHOOSE t \in Tokens : TRUE]
MCVersions == [Tokens -> {"consumer", "producer"}]

=============================================================================
