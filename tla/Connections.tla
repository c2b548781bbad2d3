----------------------------- MODULE Connections ------------------------------
(***************************************************************************)
(* How the cluster agent finds the Cue nodes and keeps a send and a receive *)
(* connection to each: syncPeers and updateDiscovery                       *)
(* (internal/cluster/discovery.go), syncConnectionsTask                    *)
(* (internal/cluster/tasks.go), dialSendConnection and dialRecvConnection  *)
(* (internal/cluster/quic.go). It starts with the configuration and the    *)
(* first list of peers that main has made (Config).                        *)
(*                                                                         *)
(* The discovery endpoint and the nodes are external: the list of peers    *)
(* may change or be empty, a fetch or a dial may fail, a connection may    *)
(* die. A definition named after another with a suffix is a wrong variant  *)
(* of it, which Next does not use.                                         *)
(***************************************************************************)
EXTENDS Config

CONSTANTS
    Nodes,
    ConfigFiles,     \* configuration files the proxy may be started with
    FlagSets,        \* command lines it may be started with
    MaxChanges,      \* bound: changes of the list at the endpoint
    MaxFaults        \* bound: failed fetches and dials, dead connections

ASSUME DiscoveryAssumption ==
    /\ \A c \in ConfigFiles : c \in Config
    /\ \A f \in FlagSets : f \in Flags
    /\ MaxChanges \in Nat
    /\ MaxFaults \in Nat

VARIABLES
    config,          \* the configuration RunProxy was called with
    endpoint,        \* external: the peers the HTTP endpoint lists
    changes,         \* changes of endpoint so far
    faults,          \* faults so far
    discovery,       \* a.discovery
    discoveryMu,     \* "free", or "leaked" by syncConnectionsTask
    updating,        \* updateDiscovery: "idle", "fetching" or "fetched"
    fetched,         \* the peers updateDiscovery got
    sync,            \* syncConnectionsTask: "waiting", "pruning" or "dialing"
    peers,           \* the peers of the current round of syncConnectionsTask
    dial,            \* per node: what its dialing goroutine does next
    sendConns,       \* per node: "none", "open" or "dead"
    recvConns        \* per node: "none", "open" or "dead"

externalVars == <<config, endpoint, changes>>
discoveryVars == <<discovery, discoveryMu, updating, fetched>>
syncVars == <<sync, peers, dial>>
vars == <<externalVars, faults, discoveryVars, syncVars, sendConns, recvConns>>

ConnState == {"none", "open", "dead"}

\* discovery.yml has any nodes.
Init ==
    /\ config \in BuildConfig(ConfigFiles, FlagSets)
    /\ \E list \in SUBSET Nodes :
          /\ Starts(config, list)
          /\ discovery = InitialDiscovery(config, list)
    /\ endpoint = Nodes
    /\ changes = 0
    /\ faults = 0
    /\ discoveryMu = "free"
    /\ updating = "idle"
    /\ fetched = {}
    /\ sync = "waiting"
    /\ peers = {}
    /\ dial = [n \in Nodes |-> "done"]
    /\ sendConns = [n \in Nodes |-> "none"]
    /\ recvConns = [n \in Nodes |-> "none"]

Fault == faults < MaxFaults /\ faults' = faults + 1

-----------------------------------------------------------------------------
(* The outside (external)                                                  *)

EndpointChanges ==
    /\ config.host
    /\ changes < MaxChanges
    /\ changes' = changes + 1
    /\ endpoint' \in SUBSET Nodes
    /\ UNCHANGED <<config, faults, discoveryVars, syncVars, sendConns, recvConns>>

ConnectionDies(n) ==
    /\ Fault
    /\ \/ /\ sendConns[n] = "open"
          /\ sendConns' = [sendConns EXCEPT ![n] = "dead"]
          /\ UNCHANGED recvConns
       \/ /\ recvConns[n] = "open"
          /\ recvConns' = [recvConns EXCEPT ![n] = "dead"]
          /\ UNCHANGED sendConns
    /\ UNCHANGED <<externalVars, discoveryVars, syncVars>>

-----------------------------------------------------------------------------
(* updateDiscovery: the discovering flag lets one call in at a time        *)

UpdateDiscovery ==
    /\ updating = "idle"
    /\ updating' = "fetching"
    /\ UNCHANGED <<externalVars, faults, discovery, discoveryMu, fetched, syncVars,
                   sendConns, recvConns>>

\* syncPeers calls it at once and on its ticker, and returns if discovery is static.
SyncPeers == config.kind = "http" /\ UpdateDiscovery

\* evaluateLeadership calls it when it confirms a leader whose heartbeat brings other
\* voters, "only if discovery is not static". The voters are external here: they may
\* differ at any time, or never.
TopologyChanges_AnyKind == UpdateDiscovery
TopologyChanges == config.kind = "http" /\ UpdateDiscovery

\* An empty list is not used.
Usable_Any(list) == TRUE
Usable(list) == list # {}

HasEndpoint == config.host

FetchPeers ==
    /\ updating = "fetching"
    /\ HasEndpoint
    /\ IF Usable(endpoint)
       THEN fetched' = endpoint /\ updating' = "fetched"
       ELSE updating' = "idle" /\ UNCHANGED fetched
    /\ UNCHANGED <<externalVars, faults, discovery, discoveryMu, syncVars, sendConns,
                   recvConns>>

FetchFails ==
    /\ updating = "fetching"
    /\ \/ HasEndpoint /\ Fault
       \/ ~HasEndpoint /\ UNCHANGED faults
    /\ updating' = "idle"
    /\ UNCHANGED <<externalVars, discovery, discoveryMu, fetched, syncVars, sendConns,
                   recvConns>>

InstallPeers ==
    /\ updating = "fetched"
    /\ discoveryMu = "free"
    /\ discovery' = fetched
    /\ updating' = "idle"
    /\ UNCHANGED <<externalVars, faults, discoveryMu, fetched, syncVars, sendConns,
                   recvConns>>

-----------------------------------------------------------------------------
(* syncConnectionsTask                                                     *)

\* "no discovery peers available, skipping connection sync": the continue leaves
\* discoveryMu locked.
SkipRound ==
    /\ sync = "waiting"
    /\ discoveryMu = "free"
    /\ discovery = {}
    /\ discoveryMu' = "leaked"
    /\ UNCHANGED <<externalVars, faults, discovery, updating, fetched, syncVars,
                   sendConns, recvConns>>

StartRound ==
    /\ sync = "waiting"
    /\ discoveryMu = "free"
    /\ discovery # {}
    /\ peers' = discovery
    /\ sync' = "pruning"
    /\ UNCHANGED <<externalVars, faults, discoveryVars, dial, sendConns, recvConns>>

\* Step 1: close and forget the nodes that are not wanted any more. Then a
\* goroutine is started for each peer.
Kept_All(conns) == conns
Kept_Closed(conns) == [n \in Nodes |-> IF n \in peers THEN conns[n] ELSE "closed"]
Kept(conns) == [n \in Nodes |-> IF n \in peers THEN conns[n] ELSE "none"]

Prune ==
    /\ sync = "pruning"
    /\ sendConns' = Kept(sendConns)
    /\ recvConns' = Kept(recvConns)
    /\ dial' = [n \in Nodes |-> IF n \in peers THEN "send" ELSE "done"]
    /\ sync' = "dialing"
    /\ UNCHANGED <<externalVars, faults, discoveryVars, peers>>

\* Step 2: no connection, or one whose context has ended.
NeedsDial_MissingOnly(state) == state = "none"
NeedsDial(state) == state # "open"

DialSend(n) ==
    /\ dial[n] = "send"
    /\ dial' = [dial EXCEPT ![n] = "recv"]
    /\ \/ /\ NeedsDial(sendConns[n])
          /\ sendConns' = [sendConns EXCEPT ![n] = "open"]
          /\ UNCHANGED faults
       \/ ~NeedsDial(sendConns[n]) /\ UNCHANGED <<sendConns, faults>>
       \/ NeedsDial(sendConns[n]) /\ Fault /\ UNCHANGED sendConns
    /\ UNCHANGED <<externalVars, discoveryVars, sync, peers, recvConns>>

DialRecv(n) ==
    /\ dial[n] = "recv"
    /\ dial' = [dial EXCEPT ![n] = "done"]
    /\ \/ /\ NeedsDial(recvConns[n])
          /\ recvConns' = [recvConns EXCEPT ![n] = "open"]
          /\ UNCHANGED faults
       \/ ~NeedsDial(recvConns[n]) /\ UNCHANGED <<recvConns, faults>>
       \/ NeedsDial(recvConns[n]) /\ Fault /\ UNCHANGED recvConns
    /\ UNCHANGED <<externalVars, discoveryVars, sync, peers, sendConns>>

\* wg.Wait returns.
EndRound ==
    /\ sync = "dialing"
    /\ \A n \in Nodes : dial[n] = "done"
    /\ sync' = "waiting"
    /\ UNCHANGED <<externalVars, faults, discoveryVars, peers, dial, sendConns,
                   recvConns>>

-----------------------------------------------------------------------------

Updater == SyncPeers \/ FetchPeers \/ FetchFails \/ InstallPeers
SyncTask == SkipRound \/ StartRound \/ Prune \/ EndRound
Dialer(n) == DialSend(n) \/ DialRecv(n)

Next ==
    \/ EndpointChanges
    \/ TopologyChanges
    \/ Updater
    \/ SyncTask
    \/ \E n \in Nodes : Dialer(n) \/ ConnectionDies(n)

\* The tickers tick, the goroutines run, and a fetch or a dial comes to an end.
Fairness ==
    /\ WF_vars(Updater)
    /\ WF_vars(SyncTask)
    /\ \A n \in Nodes : WF_vars(Dialer(n))

Spec == Init /\ [][Next]_vars /\ Fairness

-----------------------------------------------------------------------------
(* Properties                                                              *)

TypeOK ==
    /\ config \in Config
    /\ endpoint \subseteq Nodes
    /\ changes \in 0..MaxChanges
    /\ faults \in 0..MaxFaults
    /\ discovery \subseteq Nodes
    /\ discoveryMu \in {"free", "leaked"}
    /\ updating \in {"idle", "fetching", "fetched"}
    /\ fetched \subseteq Nodes
    /\ sync \in {"waiting", "pruning", "dialing"}
    /\ peers \subseteq Nodes
    /\ dial \in [Nodes -> {"send", "recv", "done"}]
    /\ sendConns \in [Nodes -> ConnState]
    /\ recvConns \in [Nodes -> ConnState]

\* Between rounds the agent holds connections only to peers of its last round:
\* a node that was dropped from the list while dials were under way is closed.
ConnsMatchLastRound ==
    sync # "pruning" =>
        \A n \in Nodes \ peers : sendConns[n] = "none" /\ recvConns[n] = "none"

\* Every running proxy has ports, a limit, a kind and certificates for the cluster
\* that Validate accepts, although flags come after Validate and the defaults are
\* never put to it. Not so the host of HTTP discovery (-discovery-kind http alone) and
\* the certificate of the API (-api-key alone, with a file that has none).
RunsOnValidSettings ==
    /\ config.apiPort >= 1 /\ config.quicPort >= 1 /\ config.maxInflights >= 1
    /\ config.kind \in Kinds
    /\ config.kind = "static" => config.yml
    /\ config.clusterCert /\ config.clusterKey

\* The list of peers is never emptied again, whatever the endpoint answers, and that of
\* discovery.yml is not empty: the lock can only leak with HTTP discovery, before the
\* first successful fetch.
LeakOnlyBeforeFirstFetch ==
    discoveryMu = "leaked" => config.kind = "http" /\ discovery = {} /\ peers = {}

\* A proxy with static discovery keeps the peers of discovery.yml through every change of
\* the topology, also when a host for HTTP discovery is configured, as after the default
\* of -discovery-kind has overruled a file that says http.
StaticListIsKept == [][config.kind = "static" => UNCHANGED discovery]_vars

\* When the list no longer changes and faults have ceased, both connections to
\* every peer on it are open and stay open, unless the lock was lost at the start.
PeersGetConnected ==
    <>[](\/ discoveryMu = "leaked"
         \/ \A n \in discovery : sendConns[n] = "open" /\ recvConns[n] = "open")

=============================================================================
