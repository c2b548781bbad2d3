-------------------------------- MODULE Config --------------------------------
(***************************************************************************)
(* The configuration of the proxy: config.go (DefaultConfig, LoadConfig,   *)
(* Validate, ParseDiscoveryKind), and what main makes of it                *)
(* (buildConfig and the initial discovery in cmd/proxy/main.go).           *)
(*                                                                         *)
(* A path or a host is reduced to whether one is given. Addresses,         *)
(* timeouts and what is only logged are left out. A definition named after *)
(* another with a suffix is a wrong variant of it, which nothing uses.     *)
(***************************************************************************)
EXTENDS Naturals

Kinds == {"static", "http"}

\* "other" is any name that is not a kind.
KindNames == Kinds \union {"other"}

Config == [apiPort: Nat, quicPort: Nat, maxInflights: Nat, kind: KindNames,
           yml: BOOLEAN, host: BOOLEAN, tls: BOOLEAN, apiCert: BOOLEAN, apiKey: BOOLEAN,
           clusterCert: BOOLEAN, clusterKey: BOOLEAN]

\* The command line. A number that is 0 or a kind that is "" is not given; the flags
\* -discovery-kind and -discovery-yml have defaults.
Flags == [apiPort: Nat, quicPort: Nat, kind: KindNames \union {""}, yml: BOOLEAN, host: BOOLEAN,
          apiCert: BOOLEAN, apiKey: BOOLEAN, clusterCert: BOOLEAN, clusterKey: BOOLEAN]

NoFlags == [apiPort |-> 0, quicPort |-> 0, kind |-> "static", yml |-> TRUE,
            host |-> FALSE, apiCert |-> FALSE, apiKey |-> FALSE, clusterCert |-> FALSE,
            clusterKey |-> FALSE]

DefaultConfig == [apiPort |-> 8080, quicPort |-> 8323, maxInflights |-> 10,
                  kind |-> "static", yml |-> TRUE, host |-> FALSE, tls |-> FALSE,
                  apiCert |-> TRUE, apiKey |-> TRUE, clusterCert |-> TRUE,
                  clusterKey |-> TRUE]

\* What LoadConfig has for the keys that a file does not set: in these fields, the same.
setDefaults == DefaultConfig

\* ParseDiscoveryKind gives static for a name it does not know, with an error.
ParseDiscoveryKind(name) == IF name = "http" THEN "http" ELSE "static"

validateDiscoveryConfig(c) ==
    /\ c.kind \in Kinds
    /\ c.kind = "static" => c.yml
    /\ c.kind = "http" => c.host

Validate(c) ==
    /\ c.apiPort >= 1
    /\ c.quicPort >= 1
    /\ c.maxInflights >= 1
    /\ ParseDiscoveryKind(c.kind) = "static" => c.yml
    /\ c.tls => c.apiCert /\ c.apiKey
    /\ c.clusterCert
    /\ c.clusterKey
    /\ validateDiscoveryConfig(c)

\* What buildConfig starts from: the file, if LoadConfig accepts it, or the defaults.
LoadConfig(files) == {DefaultConfig} \union {file \in files : Validate(file)}

Given_AlsoZero(flag, value) == flag
Given(flag, value) == IF flag > 0 THEN flag ELSE value

\* The flags come on top. Nothing is validated after that.
Overridden(c, f) ==
    [apiPort |-> Given(f.apiPort, c.apiPort),
     quicPort |-> Given(f.quicPort, c.quicPort),
     maxInflights |-> c.maxInflights,
     kind |-> IF f.kind # "" THEN f.kind ELSE c.kind,
     yml |-> c.yml \/ f.yml,
     host |-> c.host \/ f.host,
     tls |-> c.tls \/ f.apiCert \/ f.apiKey,
     apiCert |-> c.apiCert \/ f.apiCert,
     apiKey |-> c.apiKey \/ f.apiKey,
     clusterCert |-> c.clusterCert \/ f.clusterCert,
     clusterKey |-> c.clusterKey \/ f.clusterKey]

BuildConfig(files, flagSets) ==
    {Overridden(c, f) : c \in LoadConfig(files), f \in flagSets}

\* LoadDiscoveryFile: the nodes of discovery.yml, which must not be none.
LoadDiscoveryFile_Any(list) == TRUE
LoadDiscoveryFile(list) == list # {}

\* main and RunProxy get as far as to start the agent: the discovery file could be
\* loaded where it is needed, and the kind is known.
Starts(c, list) ==
    /\ ParseDiscoveryKind(c.kind) = "static" => c.yml /\ LoadDiscoveryFile(list)
    /\ c.kind \in Kinds

\* "HTTP discovery: start empty, syncPeers will populate".
InitialDiscovery(c, list) == IF ParseDiscoveryKind(c.kind) = "static" THEN list ELSE {}

=============================================================================
