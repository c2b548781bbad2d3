--------------------------- MODULE ConnectionsProofs --------------------------
(***************************************************************************)
(* Proofs about Connections, for any configuration files and command       *)
(* lines, any set of nodes, any changes of the list of peers and any       *)
(* number of faults.                                                       *)
(*                                                                         *)
(* A dialing goroutine works for a peer of the round that started it, and  *)
(* none is left when the round has ended (DialersAreOfRound). The list of  *)
(* peers, which is filled at the start if it comes from discovery.yml, is  *)
(* only replaced by a list of the endpoint that is not empty               *)
(* (ListStaysFilled). With static discovery no call of updateDiscovery     *)
(* ever begins (StaticNeverAsks).                                          *)
(***************************************************************************)
EXTENDS Connections, TLAPS

DialersAreOfRound ==
    \A n \in Nodes : dial[n] # "done" => sync = "dialing" /\ n \in peers

ListStaysFilled ==
    /\ updating = "fetched" => fetched # {}
    /\ discovery = {} => config.kind = "http" /\ peers = {} /\ sync = "waiting"

StaticNeverAsks == config.kind = "static" => updating = "idle"

\* The inductive invariant.
IInv ==
    /\ TypeOK
    /\ RunsOnValidSettings
    /\ DialersAreOfRound
    /\ ListStaysFilled
    /\ StaticNeverAsks
    /\ ConnsMatchLastRound
    /\ LeakOnlyBeforeFirstFetch

\* A configuration that buildConfig makes is one, and the flags keep what Validate
\* has checked and DefaultConfig has right.
LEMMA BuiltConfig ==
    ASSUME NEW c \in BuildConfig(ConfigFiles, FlagSets)
    PROVE  /\ c \in Config
           /\ c.apiPort >= 1 /\ c.quicPort >= 1 /\ c.maxInflights >= 1
           /\ c.clusterCert /\ c.clusterKey
  <1>1. PICK base \in LoadConfig(ConfigFiles), f \in FlagSets : c = Overridden(base, f)
    BY DEF BuildConfig
  <1>2. f \in Flags
    BY DiscoveryAssumption
  <1>3. base = DefaultConfig \/ base \in {file \in ConfigFiles : Validate(file)}
    BY DEF LoadConfig
  <1>4. DefaultConfig \in Config
    BY DEF DefaultConfig, Config, KindNames, Kinds
  <1>5. base \in Config
    BY <1>3, <1>4, DiscoveryAssumption
  <1>6. base.apiPort >= 1 /\ base.quicPort >= 1 /\ base.maxInflights >= 1
    BY <1>3 DEF DefaultConfig, Validate
  <1>7. base.clusterCert /\ base.clusterKey
    BY <1>3 DEF DefaultConfig, Validate
  <1>8. c \in Config
    BY <1>1, <1>2, <1>5 DEF Overridden, Given, Config, Flags, KindNames, Kinds
  <1>9. c.apiPort >= 1 /\ c.quicPort >= 1 /\ c.maxInflights >= 1
    <2>1. /\ f.apiPort \in Nat /\ f.quicPort \in Nat
          /\ base.apiPort \in Nat /\ base.quicPort \in Nat
      BY <1>2, <1>5 DEF Flags, Config
    <2>2. /\ c.apiPort = Given(f.apiPort, base.apiPort)
          /\ c.quicPort = Given(f.quicPort, base.quicPort)
          /\ c.maxInflights = base.maxInflights
      BY <1>1 DEF Overridden
    <2> QED BY <1>6, <2>1, <2>2 DEF Given
  <1>10. c.clusterCert /\ c.clusterKey
    BY <1>1, <1>7 DEF Overridden
  <1> QED BY <1>8, <1>9, <1>10

\* The agent starts with a configuration, without connections, and without a round.
LEMMA InitIInv == Init => IInv
  <1> SUFFICES ASSUME Init PROVE IInv
    OBVIOUS
  <1> USE DiscoveryAssumption DEF Init
  <1>0. config \in Config /\ RunsOnValidSettings
    BY BuiltConfig DEF RunsOnValidSettings, Starts, ParseDiscoveryKind, Kinds
  <1>1. TypeOK
    <2>0. discovery \subseteq Nodes
      BY DEF InitialDiscovery
    <2>1. changes \in 0..MaxChanges /\ faults \in 0..MaxFaults
      OBVIOUS
    <2>2. /\ dial \in [Nodes -> {"send", "recv", "done"}]
          /\ sendConns \in [Nodes -> ConnState]
          /\ recvConns \in [Nodes -> ConnState]
      BY DEF ConnState
    <2> QED BY <1>0, <2>0, <2>1, <2>2 DEF TypeOK
  <1>2. DialersAreOfRound /\ ListStaysFilled /\ StaticNeverAsks
    BY DEF DialersAreOfRound, ListStaysFilled, StaticNeverAsks, Starts, InitialDiscovery,
           ParseDiscoveryKind,
           LoadDiscoveryFile, Kinds
  <1>3. ConnsMatchLastRound /\ LeakOnlyBeforeFirstFetch
    BY DEF ConnsMatchLastRound, LeakOnlyBeforeFirstFetch
  <1> QED BY <1>0, <1>1, <1>2, <1>3 DEF IInv

\* A fault is counted, up to the bound.
LEMMA FaultType == ASSUME TypeOK, Fault PROVE faults' \in 0..MaxFaults
  BY DiscoveryAssumption DEF TypeOK, Fault

\* The outside changes the list at the endpoint, or breaks an open connection.
LEMMA OutsideStep ==
    ASSUME IInv, EndpointChanges \/ \E n \in Nodes : ConnectionDies(n)
    PROVE  IInv'
  <1> USE DiscoveryAssumption
      DEF IInv, externalVars, discoveryVars, syncVars, RunsOnValidSettings
  <1>1. CASE EndpointChanges
    <2>1. changes' \in 0..MaxChanges /\ endpoint' \subseteq Nodes
      BY <1>1 DEF EndpointChanges, TypeOK
    <2> QED BY <1>1, <2>1 DEF EndpointChanges, TypeOK, DialersAreOfRound, ListStaysFilled,
                              StaticNeverAsks,
                              ConnsMatchLastRound, LeakOnlyBeforeFirstFetch
  <1>2. ASSUME NEW n \in Nodes, ConnectionDies(n) PROVE IInv'
    <2>1. faults' \in 0..MaxFaults
      BY <1>2, FaultType DEF ConnectionDies
    <2>2. sendConns' \in [Nodes -> ConnState] /\ recvConns' \in [Nodes -> ConnState]
      BY <1>2 DEF ConnectionDies, TypeOK, ConnState
    <2>3. TypeOK'
      BY <1>2, <2>1, <2>2 DEF ConnectionDies, TypeOK
    <2>4. \A m \in Nodes : /\ sendConns[m] = "none" => sendConns'[m] = "none"
                           /\ recvConns[m] = "none" => recvConns'[m] = "none"
      BY <1>2 DEF ConnectionDies, TypeOK
    <2>5. ConnsMatchLastRound'
      BY <1>2, <2>4 DEF ConnectionDies, ConnsMatchLastRound
    <2> QED BY <1>2, <2>3, <2>5 DEF ConnectionDies, DialersAreOfRound, ListStaysFilled,
                                    StaticNeverAsks,
                                    LeakOnlyBeforeFirstFetch
  <1> QED BY <1>1, <1>2

\* updateDiscovery replaces the list by one that is not empty, and not under a
\* lock that has leaked.
LEMMA UpdaterStep ==
    ASSUME IInv, Updater \/ TopologyChanges
    PROVE  IInv'
  <1> USE DiscoveryAssumption
      DEF IInv, externalVars, syncVars, RunsOnValidSettings, DialersAreOfRound, ListStaysFilled,
          StaticNeverAsks,
          ConnsMatchLastRound, LeakOnlyBeforeFirstFetch
  <1>1. CASE SyncPeers \/ TopologyChanges
    BY <1>1 DEF SyncPeers, TopologyChanges, UpdateDiscovery, TypeOK
  <1>2. CASE FetchPeers
    BY <1>2 DEF FetchPeers, Usable, HasEndpoint, TypeOK
  <1>3. CASE FetchFails
    <2>1. faults' \in 0..MaxFaults
      BY <1>3, FaultType DEF FetchFails, TypeOK
    <2> QED BY <1>3, <2>1 DEF FetchFails, TypeOK
  <1>4. CASE InstallPeers
    BY <1>4 DEF InstallPeers, TypeOK
  <1> QED BY <1>1, <1>2, <1>3, <1>4 DEF Updater

\* syncConnectionsTask starts no round while dials are under way, and prunes
\* before it dials.
LEMMA SyncStep ==
    ASSUME IInv, SyncTask
    PROVE  IInv'
  <1> USE DEF IInv, externalVars, discoveryVars, syncVars, RunsOnValidSettings
  <1>1. CASE SkipRound
    BY <1>1 DEF SkipRound, TypeOK, DialersAreOfRound, ListStaysFilled, StaticNeverAsks,
                ConnsMatchLastRound,
                LeakOnlyBeforeFirstFetch
  <1>2. CASE StartRound
    BY <1>2 DEF StartRound, TypeOK, DialersAreOfRound, ListStaysFilled, StaticNeverAsks,
                ConnsMatchLastRound,
                LeakOnlyBeforeFirstFetch
  <1>3. CASE Prune
    <2>1. /\ sendConns' \in [Nodes -> ConnState] /\ recvConns' \in [Nodes -> ConnState]
          /\ dial' \in [Nodes -> {"send", "recv", "done"}]
      BY <1>3 DEF Prune, Kept, TypeOK, ConnState
    <2>2. TypeOK'
      BY <1>3, <2>1 DEF Prune, TypeOK
    <2>3. ConnsMatchLastRound'
      BY <1>3 DEF Prune, Kept, ConnsMatchLastRound
    <2>4. DialersAreOfRound'
      BY <1>3 DEF Prune, DialersAreOfRound
    <2>5. ListStaysFilled' /\ StaticNeverAsks' /\ LeakOnlyBeforeFirstFetch'
      BY <1>3 DEF Prune, ListStaysFilled, StaticNeverAsks, LeakOnlyBeforeFirstFetch
    <2> QED BY <1>3, <2>2, <2>3, <2>4, <2>5 DEF Prune
  <1>4. CASE EndRound
    BY <1>4 DEF EndRound, TypeOK, DialersAreOfRound, ListStaysFilled, StaticNeverAsks,
                ConnsMatchLastRound,
                LeakOnlyBeforeFirstFetch
  <1> QED BY <1>1, <1>2, <1>3, <1>4 DEF SyncTask

\* A dialing goroutine opens connections to a peer of the round only.
LEMMA DialStep ==
    ASSUME IInv, NEW n \in Nodes, Dialer(n)
    PROVE  IInv'
  <1> USE DEF IInv, externalVars, discoveryVars, RunsOnValidSettings
  <1>0. n \in peers /\ sync = "dialing"
    BY DEF Dialer, DialSend, DialRecv, DialersAreOfRound
  <1>1. /\ dial' \in [Nodes -> {"send", "recv", "done"}]
        /\ \A m \in Nodes : m # n => dial'[m] = dial[m]
    BY DEF Dialer, DialSend, DialRecv, TypeOK
  <1>2. faults' \in 0..MaxFaults
    BY FaultType DEF Dialer, DialSend, DialRecv, TypeOK
  <1>3. /\ sendConns' \in [Nodes -> ConnState] /\ recvConns' \in [Nodes -> ConnState]
        /\ \A m \in Nodes : m # n => sendConns'[m] = sendConns[m] /\ recvConns'[m] = recvConns[m]
    BY DEF Dialer, DialSend, DialRecv, TypeOK, ConnState
  <1>4. UNCHANGED <<externalVars, discoveryVars, sync, peers>>
    BY DEF Dialer, DialSend, DialRecv
  <1>5. TypeOK'
    BY <1>1, <1>2, <1>3, <1>4 DEF TypeOK
  <1>6. DialersAreOfRound'
    BY <1>0, <1>1, <1>4 DEF DialersAreOfRound
  <1>7. ConnsMatchLastRound'
    BY <1>0, <1>3, <1>4 DEF ConnsMatchLastRound
  <1> QED BY <1>4, <1>5, <1>6, <1>7 DEF ListStaysFilled, StaticNeverAsks, LeakOnlyBeforeFirstFetch

\* Every step keeps the invariant.
LEMMA NextIInv == IInv /\ [Next]_vars => IInv'
  <1> SUFFICES ASSUME IInv, [Next]_vars PROVE IInv'
    OBVIOUS
  <1>1. CASE UNCHANGED vars
    BY <1>1 DEF vars, externalVars, discoveryVars, syncVars, IInv, TypeOK,
                RunsOnValidSettings, DialersAreOfRound, ListStaysFilled, StaticNeverAsks,
                ConnsMatchLastRound, LeakOnlyBeforeFirstFetch
  <1> QED BY <1>1, OutsideStep, UpdaterStep, SyncStep, DialStep DEF Next

\* The invariant holds throughout.
LEMMA InvariantHolds == Spec => []IInv
  BY InitIInv, NextIInv, PTL DEF Spec

\* Every reachable state of discovery and of the connection tables is well-typed.
THEOREM ConnectionTypes == Spec => []TypeOK
  BY InvariantHolds, PTL DEF IInv

\* syncConnectionsTask holds no connection to a node outside its last round, even
\* if the list changes and connections die while its goroutines dial.
THEOREM ConnectedToPeersOnly == Spec => []ConnsMatchLastRound
  BY InvariantHolds, PTL DEF IInv

\* The continue that leaves discoveryMu locked can only be taken with HTTP discovery
\* and before a list was ever installed: a failed or empty fetch later on does no harm.
THEOREM LeakIsAtStartOnly == Spec => []LeakOnlyBeforeFirstFetch
  BY InvariantHolds, PTL DEF IInv

\* What buildConfig makes of any file and any flags, once it runs, has what Validate
\* asks for, but for the host of the discovery endpoint and the API's certificate.
THEOREM SettingsAreValid == Spec => []RunsOnValidSettings
  BY InvariantHolds, PTL DEF IInv

\* StaticListIsKept: neither syncPeers nor evaluateLeadership gets to updateDiscovery
\* when discovery is static, whatever else is configured, so that the list of
\* discovery.yml stays.
THEOREM StaticStaysStatic == Spec => StaticListIsKept
  <1>1. IInv /\ [Next]_vars =>
          [config.kind = "static" => UNCHANGED discovery]_vars
    <2> SUFFICES ASSUME IInv, Next, config.kind = "static" PROVE UNCHANGED discovery
      BY DEF Next
    <2>1. updating = "idle"
      BY DEF IInv, StaticNeverAsks
    <2> USE DEF externalVars, discoveryVars, syncVars
    <2>2. CASE EndpointChanges \/ TopologyChanges \/ \E n \in Nodes : ConnectionDies(n)
      BY <2>2 DEF EndpointChanges, TopologyChanges, UpdateDiscovery, ConnectionDies
    <2>3. CASE Updater
      BY <2>1, <2>3 DEF Updater, SyncPeers, UpdateDiscovery, FetchPeers, FetchFails, InstallPeers
    <2>4. CASE SyncTask
      BY <2>4 DEF SyncTask, SkipRound, StartRound, Prune, EndRound
    <2>5. CASE \E n \in Nodes : Dialer(n)
      BY <2>5 DEF Dialer, DialSend, DialRecv
    <2> QED BY <2>2, <2>3, <2>4, <2>5 DEF Next
  <1> QED BY <1>1, InvariantHolds, PTL DEF Spec, StaticListIsKept

=============================================================================
