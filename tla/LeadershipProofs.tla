--------------------------- MODULE LeadershipProofs ---------------------------
(***************************************************************************)
(* Proofs about Leadership, for any set of nodes, any voter sets and any   *)
(* number of terms: the proxy only ever follows a node that was elected,   *)
(* and goes over to a new term when a quorum has.                          *)
(*                                                                         *)
(* The argument: a claim about a term (a heartbeat on the wire) names the  *)
(* leader elected in that term, and elections are never undone. Whatever   *)
(* order heartbeats are handled in, a confirmed pair (leader, term) is one *)
(* of these claims. A claim counts for the term of an entry, the sender of *)
(* which has got that far (HeardFrom), and for one node, since entries are *)
(* kept by sender.                                                         *)
(***************************************************************************)
EXTENDS Leadership, FiniteSetTheorems, TLAPS

\* Nothing is claimed of a term to come, and the terms so far have a leader.
ElectionsSoFar ==
    /\ \A t \in Terms : t <= lastTerm <=> elected[t] # NoNode
    /\ \A n \in Nodes : nodeTerm[n] <= lastTerm

\* A heartbeat names the leader its sender's term had when it was sent.
WireIsTruthful ==
    \A hb \in wire :
        /\ hb.term <= lastTerm
        /\ hb.term = 0 => hb.leader = NoNode
        /\ hb.term # 0 => hb.leader = elected[hb.term]
        /\ hb.status = "leader" => hb.leader = hb.sender

\* The inductive invariant.
IInv == TypeOK /\ ElectionsSoFar /\ WireIsTruthful /\ LeaderIsElected

\* Before the first heartbeat nothing is claimed and nobody is followed.
LEMMA InitIInv == Init => IInv
  <1> SUFFICES ASSUME Init PROVE IInv
    OBVIOUS
  <1> USE ClusterAssumption DEF Init
  <1>1. TypeOK
    <2>1. /\ elected \in [Terms -> Nodes \union {NoNode}]
          /\ nodeTerm \in [Nodes -> 0..MaxTerm]
      OBVIOUS
    <2>2. /\ lastTerm \in 0..MaxTerm
          /\ disruptions \in 0..MaxDisruptions
          /\ term \in 0..MaxTerm
      OBVIOUS
    <2>3. /\ wire \subseteq Heartbeat
          /\ nodeHeartbeats \subseteq NodeHeartbeatInfo
          /\ voters \subseteq Nodes
          /\ currentLeader \in Nodes \union {NoNode}
          /\ leaderAvailable \in BOOLEAN
      OBVIOUS
    <2> QED BY <2>1, <2>2, <2>3 DEF TypeOK
  <1>2. ElectionsSoFar
    BY DEF ElectionsSoFar, Terms
  <1>3. WireIsTruthful /\ LeaderIsElected
    BY DEF WireIsTruthful, LeaderIsElected
  <1> QED BY <1>1, <1>2, <1>3 DEF IInv

\* Entries of NodeHeartbeats made from a heartbeat have their type.
LEMMA RefreshedType ==
    ASSUME TypeOK, NEW hb \in wire
    PROVE  Refreshed(hb) \subseteq NodeHeartbeatInfo
  <1>1. hb \in Heartbeat /\ nodeHeartbeats \subseteq NodeHeartbeatInfo
    BY DEF TypeOK
  <1>2. [node |-> hb.sender, claimedLeader |-> hb.leader, term |-> hb.term, old |-> FALSE]
            \in NodeHeartbeatInfo
    BY <1>1 DEF Heartbeat, NodeHeartbeatInfo
  <1> QED BY <1>1, <1>2 DEF Refreshed

\* What handleHeartbeat may take for the leader was elected in the heartbeat's term.
LEMMA ClaimIsTrue ==
    ASSUME TypeOK, WireIsTruthful, NEW hb \in wire, ClaimedLeader(hb) # NoNode
    PROVE  hb.term \in Terms /\ ClaimedLeader(hb) \in Nodes /\ elected[hb.term] = ClaimedLeader(hb)
  <1>1. hb \in Heartbeat
    BY DEF TypeOK
  <1>2. ClaimedLeader(hb) = hb.leader
    BY <1>1 DEF WireIsTruthful, ClaimedLeader
  <1>3. hb.term # 0
    BY <1>1, <1>2 DEF WireIsTruthful
  <1> QED
    BY <1>1, <1>2, <1>3, ClusterAssumption DEF WireIsTruthful, Heartbeat, Terms, TypeOK

\* The cluster's own steps keep the invariant.
LEMMA ClusterStep ==
    ASSUME IInv, NEW n \in Nodes, Elect(n) \/ LearnTerm(n) \/ SendHeartbeat(n) \/ SendUnavailable(n)
    PROVE  IInv'
  <1> USE ClusterAssumption DEF IInv, clusterVars, proxyVars, Terms
  <1>1. CASE Elect(n)
    <2>1. TypeOK'
      BY <1>1 DEF TypeOK, Elect
    <2>2. ElectionsSoFar'
      BY <1>1 DEF TypeOK, Elect, ElectionsSoFar
    <2>3. WireIsTruthful'
      BY <1>1 DEF TypeOK, Elect, WireIsTruthful, Heartbeat
    <2>4. LeaderIsElected'
      BY <1>1 DEF TypeOK, Elect, LeaderIsElected, ElectionsSoFar
    <2> QED BY <2>1, <2>2, <2>3, <2>4
  <1>2. CASE LearnTerm(n)
    BY <1>2 DEF TypeOK, LearnTerm, ElectionsSoFar, WireIsTruthful, LeaderIsElected
  <1>3. ASSUME NEW status \in Status,
               status = "leader" => LeaderKnownTo(n) = n,
               wire' = wire \union {HeartbeatOf(n, status)},
               UNCHANGED <<clusterVars, proxyVars>>,
               disruptions' \in 0..MaxDisruptions
        PROVE  IInv'
    <2> DEFINE hb == HeartbeatOf(n, status)
    <2>1. LeaderKnownTo(n) \in Nodes \union {NoNode}
      BY DEF TypeOK, LeaderKnownTo
    <2>2. hb \in Heartbeat
      BY <2>1, <1>3 DEF HeartbeatOf, Heartbeat, TypeOK
    <2>3. TypeOK'
      BY <1>3, <2>2 DEF TypeOK
    <2>4. /\ hb.term <= lastTerm
          /\ hb.term = 0 => hb.leader = NoNode
          /\ hb.term # 0 => hb.leader = elected[hb.term]
          /\ hb.status = "leader" => hb.leader = hb.sender
      BY <1>3 DEF HeartbeatOf, LeaderKnownTo, ElectionsSoFar
    <2>5. WireIsTruthful'
      BY <1>3, <2>4 DEF WireIsTruthful
    <2> QED
      BY <1>3, <2>3, <2>5 DEF ElectionsSoFar, LeaderIsElected
  <1>4. CASE SendHeartbeat(n)
    <2> DEFINE s == IF LeaderKnownTo(n) = n THEN "leader" ELSE "follower"
    <2>1. s \in Status /\ (s = "leader" => LeaderKnownTo(n) = n)
      BY DEF Status
    <2>2. wire' = wire \union {HeartbeatOf(n, s)}
      BY <1>4 DEF SendHeartbeat
    <2>3. UNCHANGED <<clusterVars, proxyVars>> /\ disruptions' \in 0..MaxDisruptions
      BY <1>4 DEF SendHeartbeat, TypeOK
    <2> HIDE DEF s
    <2> QED BY <2>1, <2>2, <2>3, <1>3
  <1>5. CASE SendUnavailable(n)
    <2>1. disruptions' \in 0..MaxDisruptions
      BY <1>5 DEF SendUnavailable, TypeOK
    <2> QED BY <2>1, <1>5, <1>3 DEF SendUnavailable, Status
  <1> QED BY <1>1, <1>2, <1>4, <1>5

\* Losing a heartbeat, or the passing of time, keeps the invariant.
LEMMA DisruptionStep ==
    ASSUME IInv, \/ \E hb \in wire : LoseHeartbeat(hb)
                 \/ \E info \in nodeHeartbeats : Overdue(info)
    PROVE  IInv'
  <1> USE ClusterAssumption DEF IInv, clusterVars, proxyVars
  <1>1. CASE \E hb \in wire : LoseHeartbeat(hb)
    BY <1>1 DEF LoseHeartbeat, TypeOK, ElectionsSoFar, WireIsTruthful, LeaderIsElected
  <1>2. CASE \E info \in nodeHeartbeats : Overdue(info)
    <2> PICK info \in nodeHeartbeats : Overdue(info)
      BY <1>2
    <2>1. [info EXCEPT !.old = TRUE] \in NodeHeartbeatInfo
      BY DEF TypeOK, NodeHeartbeatInfo
    <2>2. nodeHeartbeats' \subseteq NodeHeartbeatInfo
      BY <2>1 DEF Overdue, TypeOK
    <2>3. disruptions' \in 0..MaxDisruptions
      BY DEF Overdue, TypeOK
    <2>4. TypeOK'
      BY <2>2, <2>3 DEF Overdue, TypeOK
    <2> QED
      BY <2>4 DEF Overdue, ElectionsSoFar, WireIsTruthful, LeaderIsElected
  <1> QED BY <1>1, <1>2

\* Handling a heartbeat keeps the invariant, and it moves the proxy forward only.
LEMMA HandleStep ==
    ASSUME IInv, NEW hb \in wire, HandleHeartbeat(hb)
    PROVE  /\ IInv'
           /\ \/ term' > term
              \/ term' = term /\ (currentLeader = NoNode \/ currentLeader' = currentLeader)
  <1> USE ClusterAssumption DEF IInv, clusterVars, HandleHeartbeat
  <1>1. hb \in Heartbeat /\ Refreshed(hb) \subseteq NodeHeartbeatInfo
    BY RefreshedType DEF TypeOK
  <1>2. wire' \subseteq wire /\ UNCHANGED <<elected, lastTerm, nodeTerm, disruptions>>
    OBVIOUS
  <1>3. ElectionsSoFar' /\ WireIsTruthful'
    BY <1>2 DEF ElectionsSoFar, WireIsTruthful
  <1>4. CASE Confirm(hb)
    <2>1. hb.term \in Terms /\ ClaimedLeader(hb) \in Nodes /\ elected[hb.term] = ClaimedLeader(hb)
      BY <1>4, ClaimIsTrue DEF Confirm
    <2>2. /\ term' = hb.term /\ voters' = VotersOf[hb.term]
          /\ currentLeader' = ClaimedLeader(hb) /\ leaderAvailable' = TRUE
          /\ nodeHeartbeats' = Refreshed(hb)
      BY <1>4 DEF Confirm, ConfirmLeader
    <2>3. TypeOK'
      BY <2>1, <2>2, <1>1, <1>2 DEF TypeOK, Terms
    <2>4. LeaderIsElected'
      BY <2>1, <2>2, <1>2 DEF LeaderIsElected
    <2>5. \/ term' > term
          \/ term' = term /\ (currentLeader = NoNode \/ currentLeader' = currentLeader)
      BY <1>4, <2>1, <2>2 DEF Confirm, IsNews, LeaderIsElected
    <2> QED BY <1>3, <2>3, <2>4, <2>5
  <1>5. CASE LoseQuorum(hb) \/ JustRefresh(hb) \/ NodeUnavailable(hb)
    <2>1. UNCHANGED <<term, voters, currentLeader>> /\ leaderAvailable' \in BOOLEAN
      BY <1>5 DEF LoseQuorum, JustRefresh, NodeUnavailable, TypeOK
    <2>2. nodeHeartbeats' \subseteq Refreshed(hb)
      BY <1>5 DEF LoseQuorum, JustRefresh, NodeUnavailable
    <2>3. TypeOK'
      BY <2>1, <2>2, <1>1, <1>2 DEF TypeOK
    <2>4. LeaderIsElected'
      BY <2>1, <1>2 DEF LeaderIsElected
    <2> QED BY <1>3, <2>1, <2>3, <2>4
  <1> QED BY <1>4, <1>5

\* A step of the specification keeps the invariant.
LEMMA NextIInv == IInv /\ [Next]_vars => IInv'
  <1> SUFFICES ASSUME IInv, [Next]_vars PROVE IInv'
    OBVIOUS
  <1>1. CASE Next
    BY <1>1, ClusterStep, DisruptionStep, HandleStep DEF Next
  <1>2. CASE UNCHANGED vars
    BY <1>2 DEF vars, clusterVars, proxyVars, IInv, TypeOK, ElectionsSoFar,
                WireIsTruthful, LeaderIsElected
  <1> QED BY <1>1, <1>2

\* The inductive invariant holds throughout.
LEMMA InvariantHolds == Spec => []IInv
  BY InitIInv, NextIInv, PTL DEF Spec

\* The state of evaluateLeadership is well-typed in every reachable state.
THEOREM LeadershipTypes == Spec => []TypeOK
  BY InvariantHolds, PTL DEF IInv

\* The node the proxy sends requests to was elected in the term the proxy noted,
\* in whatever order evaluateLeadership gets to see the heartbeats.
THEOREM FollowsElectedLeader == Spec => []LeaderIsElected
  BY InvariantHolds, PTL DEF IInv

\* evaluateLeadership never goes back to an older term, and never changes the
\* leader of a term.
THEOREM NeverGoesBack == Spec => LeadershipAdvances
  <1>1. IInv /\ [Next]_vars =>
           [\/ term' > term
            \/ term' = term /\ (currentLeader = NoNode \/ currentLeader' = currentLeader)]_vars
    <2> SUFFICES ASSUME IInv, Next
                 PROVE  \/ term' > term
                        \/ term' = term /\ (currentLeader = NoNode \/ currentLeader' = currentLeader)
      OBVIOUS
    <2>1. CASE \E hb \in wire : HandleHeartbeat(hb)
      BY <2>1, HandleStep
    <2>2. CASE ~ \E hb \in wire : HandleHeartbeat(hb)
      BY <2>2 DEF Next, Elect, LearnTerm, SendHeartbeat, SendUnavailable, LoseHeartbeat,
                  Overdue, proxyVars
    <2> QED BY <2>1, <2>2
  <1> QED BY <1>1, InvariantHolds, PTL DEF Spec, LeadershipAdvances

-----------------------------------------------------------------------------
(* Quorums                                                                 *)

\* NodeHeartbeats is a map by sender.
OneEntryPerNode == \A i, j \in nodeHeartbeats : i.node = j.node => i = j

\* A node is in the term it spoke of, or in a later one.
HeardFrom ==
    /\ \A hb \in wire : hb.term <= nodeTerm[hb.sender]
    /\ \A info \in nodeHeartbeats : info.term <= nodeTerm[info.node]

QuorumInv == OneEntryPerNode /\ HeardFrom

\* The entry handleHeartbeat makes is the only one of its sender, and true.
LEMMA RefreshedEntries ==
    ASSUME IInv, QuorumInv, NEW hb \in wire
    PROVE  /\ \A i, j \in Refreshed(hb) : i.node = j.node => i = j
           /\ \A i \in Refreshed(hb) : i.term <= nodeTerm[i.node]
  <1> DEFINE new == [node |-> hb.sender, claimedLeader |-> hb.leader,
                     term |-> hb.term, old |-> FALSE]
  <1>1. new.node = hb.sender /\ new.term = hb.term
    OBVIOUS
  <1>2. \A i \in Refreshed(hb) : i = new \/ (i \in nodeHeartbeats /\ i.node # hb.sender)
    BY DEF Refreshed
  <1> HIDE DEF new
  <1> QED BY <1>1, <1>2 DEF QuorumInv, OneEntryPerNode, HeardFrom

\* Every step keeps entries by sender and terms behind their nodes.
LEMMA NextQuorumInv == IInv /\ QuorumInv /\ [Next]_vars => QuorumInv'
  <1> SUFFICES ASSUME IInv, QuorumInv, [Next]_vars PROVE QuorumInv'
    OBVIOUS
  <1> USE DEF QuorumInv
  <1>0. /\ nodeTerm \in [Nodes -> 0..MaxTerm] /\ lastTerm \in 0..MaxTerm
        /\ wire \subseteq Heartbeat /\ nodeHeartbeats \subseteq NodeHeartbeatInfo
        /\ \A n \in Nodes : nodeTerm[n] <= lastTerm
    BY DEF IInv, TypeOK, ElectionsSoFar
  <1>1. ASSUME NEW n \in Nodes, Elect(n) \/ LearnTerm(n)
        PROVE  QuorumInv'
    <2>1. \A m \in Nodes : nodeTerm[m] <= nodeTerm'[m]
      BY <1>0, <1>1, ClusterAssumption DEF Elect, LearnTerm
    <2>2. UNCHANGED <<wire, nodeHeartbeats>> /\ nodeTerm' \in [Nodes -> Nat]
      BY <1>0, <1>1, ClusterAssumption DEF Elect, LearnTerm, proxyVars
    <2>3. HeardFrom'
      BY <1>0, <2>1, <2>2, ClusterAssumption DEF HeardFrom, Heartbeat, NodeHeartbeatInfo
    <2> QED BY <2>2, <2>3 DEF OneEntryPerNode
  <1>2. ASSUME NEW n \in Nodes, SendHeartbeat(n) \/ SendUnavailable(n)
        PROVE  QuorumInv'
    <2>1. UNCHANGED <<nodeTerm, nodeHeartbeats>>
      BY <1>2 DEF SendHeartbeat, SendUnavailable, clusterVars, proxyVars
    <2>2. PICK status : wire' = wire \union {HeartbeatOf(n, status)}
      BY <1>2 DEF SendHeartbeat, SendUnavailable
    <2>3. HeartbeatOf(n, status).term <= nodeTerm[HeartbeatOf(n, status).sender]
      BY <1>0, ClusterAssumption DEF HeartbeatOf
    <2> QED BY <2>1, <2>2, <2>3 DEF HeardFrom, OneEntryPerNode
  <1>3. ASSUME NEW hb \in wire, HandleHeartbeat(hb)
        PROVE  QuorumInv'
    <2>1. nodeHeartbeats' \subseteq Refreshed(hb)
      BY <1>3 DEF HandleHeartbeat, Confirm, LoseQuorum, JustRefresh, NodeUnavailable
    <2>2. wire' \subseteq wire /\ nodeTerm' = nodeTerm
      BY <1>3 DEF HandleHeartbeat, clusterVars
    <2> QED BY <2>1, <2>2, RefreshedEntries DEF HeardFrom, OneEntryPerNode
  <1>4. ASSUME NEW info \in nodeHeartbeats, Overdue(info)
        PROVE  QuorumInv'
    <2>1. /\ [info EXCEPT !.old = TRUE].node = info.node
          /\ [info EXCEPT !.old = TRUE].term = info.term
      BY <1>0 DEF NodeHeartbeatInfo
    <2>2. UNCHANGED <<wire, nodeTerm>>
      BY <1>4 DEF Overdue, clusterVars
    <2>3. nodeHeartbeats' = (nodeHeartbeats \ {info}) \union {[info EXCEPT !.old = TRUE]}
      BY <1>4 DEF Overdue
    <2> QED BY <2>1, <2>2, <2>3 DEF HeardFrom, OneEntryPerNode
  <1>5. ASSUME NEW hb \in wire, LoseHeartbeat(hb)
        PROVE  QuorumInv'
    BY <1>5 DEF LoseHeartbeat, clusterVars, proxyVars, HeardFrom, OneEntryPerNode
  <1>6. CASE UNCHANGED vars
    BY <1>6 DEF vars, clusterVars, proxyVars, HeardFrom, OneEntryPerNode
  <1> QED BY <1>1, <1>2, <1>3, <1>4, <1>5, <1>6 DEF Next

\* The entries that agree with a heartbeat come from as many nodes, which are in its
\* term or in a later one.
LEMMA AgreementIsOfNodes ==
    ASSUME IInv, QuorumInv, NEW hb \in wire, NEW leader
    PROVE  /\ Cardinality({n \in Nodes : nodeTerm[n] >= hb.term}) \in Nat
           /\ Agreement(leader, hb.term, Refreshed(hb)) \in Nat
           /\ Cardinality({n \in Nodes : nodeTerm[n] >= hb.term}) >=
              Agreement(leader, hb.term, Refreshed(hb))
  <1> DEFINE agreeing == {i \in Refreshed(hb) : i.claimedLeader = leader /\ i.term = hb.term}
             there == {n \in Nodes : nodeTerm[n] >= hb.term}
             nodeOf == [i \in agreeing |-> i.node]
  <1>1. /\ Refreshed(hb) \subseteq NodeHeartbeatInfo /\ hb.term \in 0..MaxTerm
        /\ nodeTerm \in [Nodes -> 0..MaxTerm]
    BY RefreshedType DEF IInv, TypeOK, Heartbeat
  <1>2. \A i \in agreeing : i.node \in there
    BY <1>1, RefreshedEntries, ClusterAssumption DEF NodeHeartbeatInfo
  <1>3. \A i, j \in agreeing : nodeOf[i] = nodeOf[j] => i = j
    BY RefreshedEntries
  <1>4. nodeOf \in [agreeing -> there]
    BY <1>2
  <1>5. nodeOf \in Injection(agreeing, there)
    BY <1>3, <1>4 DEF Injection, IsInjective
  <1>6. IsFiniteSet(there)
    BY ClusterAssumption, FS_Subset
  <1> HIDE DEF nodeOf, there, agreeing
  <1>7. IsFiniteSet(agreeing) /\ Cardinality(agreeing) <= Cardinality(there)
    BY <1>5, <1>6, FS_Injection
  <1>8. Cardinality(agreeing) \in Nat /\ Cardinality(there) \in Nat
    BY <1>6, <1>7, FS_CardinalityType
  <1> QED BY <1>7, <1>8 DEF agreeing, there, Agreement

\* ConfirmedByQuorum: whatever entries NodeHeartbeats has kept from earlier terms and in
\* whatever order heartbeats come, evaluateLeadership goes over to a new term only when
\* more nodes than half of the voters it knows have done so.
THEOREM FollowsQuorum == Spec => ConfirmedByQuorum
  <1>1. Init => QuorumInv
    BY DEF Init, QuorumInv, OneEntryPerNode, HeardFrom
  <1>2. IInv /\ QuorumInv /\ [Next]_vars =>
           [term' # term =>
              2 * Cardinality({n \in Nodes : nodeTerm[n] >= term'}) > Cardinality(voters)]_vars
    <2> SUFFICES ASSUME IInv, QuorumInv, Next, term' # term
                 PROVE  2 * Cardinality({n \in Nodes : nodeTerm[n] >= term'})
                            > Cardinality(voters)
      OBVIOUS
    <2>1. PICK hb \in wire : HandleHeartbeat(hb)
      BY DEF Next, Elect, LearnTerm, SendHeartbeat, SendUnavailable, LoseHeartbeat, Overdue,
             proxyVars
    <2>2. Confirm(hb)
      BY <2>1 DEF HandleHeartbeat, LoseQuorum, JustRefresh, NodeUnavailable
    <2>3. term' = hb.term
      BY <2>2 DEF Confirm, ConfirmLeader
    <2> DEFINE there == Cardinality({n \in Nodes : nodeTerm[n] >= hb.term})
               agreed == Agreement(ClaimedLeader(hb), hb.term, Refreshed(hb))
    <2>4. agreed >= Cardinality(voters) \div 2 + 1
      BY <2>2 DEF Confirm, HasQuorum, Quorum
    <2>5. there >= agreed /\ there \in Nat /\ agreed \in Nat
      BY AgreementIsOfNodes
    <2>6. Cardinality(voters) \in Nat
      BY ClusterAssumption, FS_Subset, FS_CardinalityType DEF IInv, TypeOK
    <2> HIDE DEF there, agreed
    <2>7. 2 * there > Cardinality(voters)
      BY <2>4, <2>5, <2>6
    <2> QED BY <2>3, <2>7 DEF there
  <1> QED BY <1>1, <1>2, NextQuorumInv, InvariantHolds, PTL DEF Spec, ConfirmedByQuorum

-----------------------------------------------------------------------------
(* Leadership implements LeaderRegister                                    *)

\* There is a leader exactly when a term was noted, and the flag is up only then.
NotedTogether ==
    /\ currentLeader = NoNode <=> term = 0
    /\ leaderAvailable => currentLeader # NoNode

\* handleHeartbeat moves the register, moves its flag, or leaves it as it is.
LEMMA HandleMovesRegister ==
    ASSUME IInv, NotedTogether, NEW hb \in wire, HandleHeartbeat(hb)
    PROVE  NotedTogether' /\ [Register!Next]_(Register!vars)
  <1> USE ClusterAssumption
  <1>1. UNCHANGED <<elected, lastTerm>>
    BY DEF HandleHeartbeat, clusterVars
  <1>2. CASE Confirm(hb)
    <2>1. /\ hb.term \in Terms /\ ClaimedLeader(hb) \in Nodes
          /\ elected[hb.term] = ClaimedLeader(hb)
      BY <1>2, ClaimIsTrue DEF Confirm, IInv
    <2>2. /\ term' = hb.term /\ currentLeader' = ClaimedLeader(hb)
          /\ leaderAvailable' = TRUE
      BY <1>2 DEF Confirm, ConfirmLeader
    <2>3. hb.term > term
      BY <1>2, <2>1 DEF Confirm, IsNews, IInv, LeaderIsElected, NotedTogether, Terms, TypeOK
    <2>4. hb.term <= lastTerm
      BY DEF IInv, WireIsTruthful
    <2>5. Register!Follow(hb.term)
      BY <1>1, <2>1, <2>2, <2>3, <2>4 DEF Register!Follow
    <2>6. Register!Next
      BY <2>1, <2>5 DEF Register!Next, Terms
    <2>7. NotedTogether'
      BY <2>1, <2>2 DEF NotedTogether, Terms
    <2> QED BY <2>6, <2>7
  <1>3. CASE LoseQuorum(hb) \/ JustRefresh(hb) \/ NodeUnavailable(hb)
    <2>1. UNCHANGED <<term, currentLeader>>
      BY <1>3 DEF LoseQuorum, JustRefresh, NodeUnavailable
    <2>2. leaderAvailable' = leaderAvailable \/ (leaderAvailable' = FALSE /\ leaderAvailable)
      BY <1>3 DEF LoseQuorum, JustRefresh, NodeUnavailable, IInv, TypeOK
    <2>3. NotedTogether'
      BY <2>1, <2>2 DEF NotedTogether
    <2>4. CASE leaderAvailable' = leaderAvailable
      BY <1>1, <2>1, <2>3, <2>4 DEF Register!vars
    <2>5. CASE leaderAvailable' = FALSE /\ leaderAvailable
      BY <1>1, <2>1, <2>3, <2>5 DEF NotedTogether, Register!Next, Register!SetAvailable
    <2> QED BY <2>2, <2>3, <2>4, <2>5
  <1> QED BY <1>2, <1>3 DEF HandleHeartbeat

\* Any step of Leadership is a step of LeaderRegister or leaves it alone.
LEMMA StepMovesRegister ==
    ASSUME IInv, NotedTogether, [Next]_vars
    PROVE  NotedTogether' /\ [Register!Next]_(Register!vars)
  <1>1. ASSUME NEW n \in Nodes, Elect(n)
        PROVE  NotedTogether' /\ Register!Next
    <2>1. Register!Choose(n)
      BY <1>1 DEF Elect, Register!Choose, proxyVars
    <2> QED BY <1>1, <2>1 DEF Register!Next, Elect, NotedTogether, proxyVars
  <1>2. ASSUME NEW hb \in wire, HandleHeartbeat(hb)
        PROVE  NotedTogether' /\ [Register!Next]_(Register!vars)
    BY <1>2, HandleMovesRegister
  <1>3. CASE UNCHANGED <<elected, lastTerm, term, currentLeader, leaderAvailable>>
    BY <1>3 DEF Register!vars, NotedTogether
  <1> QED
    BY <1>1, <1>2, <1>3 DEF Next, LearnTerm, SendHeartbeat, SendUnavailable, LoseHeartbeat,
                            Overdue, vars, clusterVars, proxyVars

\* What evaluateLeadership shows to the rest of the proxy is a register of election
\* winners that moves forward only.
THEOREM ImplementsLeaderRegister == Spec => IsLeaderRegister
  <1>1. Init => NotedTogether /\ Register!Init
    BY DEF Init, NotedTogether, Register!Init, Terms
  <1>2. IInv /\ NotedTogether /\ [Next]_vars =>
            NotedTogether' /\ [Register!Next]_(Register!vars)
    BY StepMovesRegister
  <1> QED
    BY <1>1, <1>2, InvariantHolds, PTL DEF Spec, IsLeaderRegister, Register!Spec

=============================================================================
