------------------------------ MODULE Leadership ------------------------------
(***************************************************************************)
(* How one CueProxy instance follows the leader of the Cue cluster:        *)
(* handleHeartbeat and evaluateLeadership (internal/cluster/process.go),   *)
(* which run under topologyMu, one goroutine per stream, so that           *)
(* heartbeats are handled in any order.                                    *)
(*                                                                         *)
(* The cluster is external: a Raft group with at most one leader per term, *)
(* whose nodes learn of a new term one by one. A node tells the truth      *)
(* about the term it is in, however old that term is.                      *)
(*                                                                         *)
(* A definition named after another with a suffix is a wrong variant of    *)
(* it, which Next does not use.                                            *)
(***************************************************************************)
EXTENDS Naturals, FiniteSets

CONSTANTS
    Nodes,           \* node IDs that may send heartbeats, learners included
    NoNode,          \* the empty node ID
    VotersOf,        \* hb.Voters of a heartbeat, by term
    MaxTerm,         \* bound: terms
    MaxWire,         \* bound: heartbeats that are under way
    MaxDisruptions   \* bound: lost, "unavailable" and overdue heartbeats

Terms == 1..MaxTerm

ASSUME ClusterAssumption ==
    /\ IsFiniteSet(Nodes)
    /\ NoNode \notin Nodes
    /\ MaxTerm \in Nat
    /\ MaxWire \in Nat
    /\ MaxDisruptions \in Nat
    /\ VotersOf \in [0..MaxTerm -> SUBSET Nodes]

VARIABLES
    elected,         \* external: the leader of each term so far
    lastTerm,        \* external: the newest term
    nodeTerm,        \* external: the term each node is in
    wire,            \* heartbeats under way
    disruptions,     \* disruptive steps taken so far
    nodeHeartbeats,  \* cueTopology.NodeHeartbeats
    term,            \* cueTopology.Term
    voters,          \* cueTopology.Voters
    currentLeader,   \* currentLeader, and cueTopology.Leader
    leaderAvailable  \* the flag that withLeaderCheck and sendToLeader read

clusterVars == <<elected, lastTerm, nodeTerm>>
proxyVars == <<nodeHeartbeats, term, voters, currentLeader, leaderAvailable>>
vars == <<clusterVars, wire, disruptions, proxyVars>>

Status == {"leader", "follower", "unavailable"}
Heartbeat == [sender : Nodes, status : Status, leader : Nodes \union {NoNode},
              term : 0..MaxTerm]

\* NodeHeartbeatInfo, with LastSeen reduced to whether it is over 5 seconds old.
NodeHeartbeatInfo ==
    [node : Nodes, claimedLeader : Nodes \union {NoNode}, term : 0..MaxTerm, old : BOOLEAN]

Init ==
    /\ elected = [t \in Terms |-> NoNode]
    /\ lastTerm = 0
    /\ nodeTerm = [n \in Nodes |-> 0]
    /\ wire = {}
    /\ disruptions = 0
    /\ nodeHeartbeats = {}
    /\ term = 0
    /\ voters = {}
    /\ currentLeader = NoNode
    /\ leaderAvailable = FALSE

-----------------------------------------------------------------------------
(* The cluster (external)                                                  *)

Elect(n) ==
    /\ lastTerm < MaxTerm
    /\ lastTerm' = lastTerm + 1
    /\ elected' = [elected EXCEPT ![lastTerm + 1] = n]
    /\ nodeTerm' = [nodeTerm EXCEPT ![n] = lastTerm + 1]
    /\ UNCHANGED <<wire, disruptions, proxyVars>>

LearnTerm(n) ==
    /\ nodeTerm[n] < lastTerm
    /\ nodeTerm' = [nodeTerm EXCEPT ![n] = lastTerm]
    /\ UNCHANGED <<elected, lastTerm, wire, disruptions, proxyVars>>

LeaderKnownTo(n) == IF nodeTerm[n] = 0 THEN NoNode ELSE elected[nodeTerm[n]]

HeartbeatOf(n, status) ==
    [sender |-> n, status |-> status, leader |-> LeaderKnownTo(n), term |-> nodeTerm[n]]

SendHeartbeat(n) ==
    /\ Cardinality(wire) < MaxWire
    /\ wire' = wire \union
               {HeartbeatOf(n, IF LeaderKnownTo(n) = n THEN "leader" ELSE "follower")}
    /\ UNCHANGED <<clusterVars, disruptions, proxyVars>>

SendUnavailable(n) ==
    /\ Cardinality(wire) < MaxWire
    /\ disruptions < MaxDisruptions
    /\ disruptions' = disruptions + 1
    /\ wire' = wire \union {HeartbeatOf(n, "unavailable")}
    /\ UNCHANGED <<clusterVars, proxyVars>>

LoseHeartbeat(hb) ==
    /\ disruptions < MaxDisruptions
    /\ disruptions' = disruptions + 1
    /\ wire' = wire \ {hb}
    /\ UNCHANGED <<clusterVars, proxyVars>>

\* 5 seconds pass since the last heartbeat of a node was handled.
Overdue(info) ==
    /\ ~info.old
    /\ disruptions < MaxDisruptions
    /\ disruptions' = disruptions + 1
    /\ nodeHeartbeats' = (nodeHeartbeats \ {info}) \union {[info EXCEPT !.old = TRUE]}
    /\ UNCHANGED <<clusterVars, wire, term, voters, currentLeader, leaderAvailable>>

-----------------------------------------------------------------------------
(* handleHeartbeat and evaluateLeadership                                  *)

\* The sender's entry is replaced, whatever its term, and old entries go.
Refreshed(hb) ==
    {info \in nodeHeartbeats : info.node # hb.sender /\ ~info.old} \union
    {[node |-> hb.sender, claimedLeader |-> hb.leader, term |-> hb.term, old |-> FALSE]}

\* The node whose leadership the heartbeat is about, if it is about one.
ClaimedLeader(hb) ==
    IF hb.status = "leader" THEN hb.sender
    ELSE IF hb.status = "follower" /\ hb.leader # hb.sender THEN hb.leader
    ELSE NoNode

Agreement_AnyTerm(leader, t, infos) ==
    Cardinality({info \in infos : info.claimedLeader = leader})
Agreement(leader, t, infos) ==
    Cardinality({info \in infos : info.claimedLeader = leader /\ info.term = t})

\* len(Voters)/2 + 1, never 0: the fallback to the active nodes is never used.
Quorum == Cardinality(voters) \div 2 + 1

HasQuorum(hb, infos) == Agreement(ClaimedLeader(hb), hb.term, infos) >= Quorum

IsNews_AnyTerm(hb) == ClaimedLeader(hb) # currentLeader
IsNews_SameTermOnly(hb) == hb.term = term /\ ClaimedLeader(hb) # currentLeader
IsNews(hb) ==
    hb.term > term \/ (hb.term = term /\ ClaimedLeader(hb) # currentLeader)

\* The branch of evaluateLeadership that confirms a leader.
ConfirmLeader_KeepsTerm(hb) ==
    /\ voters' = VotersOf[hb.term]
    /\ currentLeader' = ClaimedLeader(hb)
    /\ leaderAvailable' = TRUE
    /\ term' = term
ConfirmLeader_NextTerm(hb) ==
    /\ term' = hb.term + 1
    /\ voters' = VotersOf[hb.term]
    /\ currentLeader' = ClaimedLeader(hb)
    /\ leaderAvailable' = TRUE
ConfirmLeader(hb) ==
    /\ term' = hb.term
    /\ voters' = VotersOf[hb.term]
    /\ currentLeader' = ClaimedLeader(hb)
    /\ leaderAvailable' = TRUE

Confirm(hb) ==
    /\ ClaimedLeader(hb) # NoNode
    /\ HasQuorum(hb, Refreshed(hb))
    /\ IsNews(hb)
    /\ ConfirmLeader(hb)
    /\ nodeHeartbeats' = Refreshed(hb)

\* "Leader lost quorum".
LoseQuorum(hb) ==
    /\ ClaimedLeader(hb) # NoNode
    /\ ~HasQuorum(hb, Refreshed(hb))
    /\ ClaimedLeader(hb) = currentLeader
    /\ leaderAvailable' = FALSE
    /\ nodeHeartbeats' = Refreshed(hb)
    /\ UNCHANGED <<term, voters, currentLeader>>

\* The heartbeat only refreshes the entry of its sender.
JustRefresh(hb) ==
    /\ hb.status # "unavailable"
    /\ \/ ClaimedLeader(hb) = NoNode
       \/ HasQuorum(hb, Refreshed(hb)) /\ ~IsNews(hb)
       \/ ~HasQuorum(hb, Refreshed(hb)) /\ ClaimedLeader(hb) # currentLeader
    /\ nodeHeartbeats' = Refreshed(hb)
    /\ UNCHANGED <<term, voters, currentLeader, leaderAvailable>>

NodeUnavailable(hb) ==
    /\ hb.status = "unavailable"
    /\ leaderAvailable' = (leaderAvailable /\ hb.sender # currentLeader)
    /\ nodeHeartbeats' = {info \in Refreshed(hb) : info.node # hb.sender}
    /\ UNCHANGED <<term, voters, currentLeader>>

HandleHeartbeat(hb) ==
    /\ wire' = wire \ {hb}
    /\ Confirm(hb) \/ LoseQuorum(hb) \/ JustRefresh(hb) \/ NodeUnavailable(hb)
    /\ UNCHANGED <<clusterVars, disruptions>>

-----------------------------------------------------------------------------

Next ==
    \/ \E n \in Nodes :
          Elect(n) \/ LearnTerm(n) \/ SendHeartbeat(n) \/ SendUnavailable(n)
    \/ \E hb \in wire : LoseHeartbeat(hb) \/ HandleHeartbeat(hb)
    \/ \E info \in nodeHeartbeats : Overdue(info)

\* Live nodes learn of the newest term and go on sending heartbeats, and the
\* streams of a node get handled. Elections need not happen. The wire may be full
\* of other heartbeats again and again, hence strong fairness of sending.
Fairness ==
    \A n \in Nodes :
        /\ WF_vars(LearnTerm(n))
        /\ SF_vars(SendHeartbeat(n))
        /\ WF_vars(\E hb \in wire : hb.sender = n /\ HandleHeartbeat(hb))

Spec == Init /\ [][Next]_vars /\ Fairness

-----------------------------------------------------------------------------
(* Properties                                                              *)

TypeOK ==
    /\ elected \in [Terms -> Nodes \union {NoNode}]
    /\ lastTerm \in 0..MaxTerm
    /\ nodeTerm \in [Nodes -> 0..MaxTerm]
    /\ wire \subseteq Heartbeat
    /\ disruptions \in 0..MaxDisruptions
    /\ nodeHeartbeats \subseteq NodeHeartbeatInfo
    /\ term \in 0..MaxTerm
    /\ voters \subseteq Nodes
    /\ currentLeader \in Nodes \union {NoNode}
    /\ leaderAvailable \in BOOLEAN

\* The node the proxy sends requests to, in the term it has noted, is the leader
\* the cluster elected in that term, whatever order heartbeats were handled in.
LeaderIsElected ==
    currentLeader # NoNode => term \in Terms /\ elected[term] = currentLeader

\* A late heartbeat never takes the proxy back to an older term, and within a
\* term the leader never changes, although evaluateLeadership has a branch for it.
LeadershipAdvances ==
    [][\/ term' > term
       \/ term' = term /\ (currentLeader = NoNode \/ currentLeader' = currentLeader)]_vars

\* "Only accept leadership with quorum agreement": when evaluateLeadership notes a new
\* term, more nodes than half of the voters it knows have really got that far. Entries
\* from before the election, late heartbeats and a leader that is elected again do not
\* count for the new term.
ConfirmedByQuorum ==
    [][term' # term =>
          2 * Cardinality({n \in Nodes : nodeTerm[n] >= term'}) > Cardinality(voters)]_vars

Register == INSTANCE LeaderRegister WITH
    chosen <- elected, newest <- lastTerm, followedTerm <- term,
    followed <- currentLeader, available <- leaderAvailable

\* Seen by withLeaderCheck and sendToLeader, evaluateLeadership is a register of
\* election winners: whatever it does with claims, quorums and late heartbeats, the
\* pair (leader, term) changes together, to the winner of a later election, and
\* leaderAvailable is up only when there is a leader to send to.
IsLeaderRegister == Register!Spec

\* And it is one that does not stay behind, in spite of lost, overdue and late
\* heartbeats: when elections have ceased the proxy is in the newest term.
IsLiveRegister == Register!LiveSpec

\* "The service is temporarily unavailable": with a leader in office, and nodes
\* that keep confirming it, the flag does not stay down.
UnavailableIsTemporary ==
    (currentLeader # NoNode /\ ~leaderAvailable) ~> leaderAvailable

=============================================================================
