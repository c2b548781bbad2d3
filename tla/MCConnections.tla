----------------------------- MODULE MCConnections ----------------------------
(***************************************************************************)
(* A cluster of two nodes, and proxies that were started without a file,   *)
(* with a file for HTTP discovery, with files that Validate refuses, and   *)
(* with flags that choose the kind, the host, a port or the API's          *)
(* certificate.                                                            *)
(***************************************************************************)
EXTENDS Connections

CONSTANTS n1, n2

MCNodes == {n1, n2}

HttpFile == [setDefaults EXCEPT !.kind = "http", !.host = TRUE, !.yml = FALSE]
MCConfigFiles ==
    {HttpFile, [HttpFile EXCEPT !.host = FALSE],
     [setDefaults EXCEPT !.maxInflights = 0], [setDefaults EXCEPT !.apiPort = 0],
     [setDefaults EXCEPT !.clusterKey = FALSE], [setDefaults EXCEPT !.kind = "other"]}

MCFlagSets ==
    {NoFlags, [NoFlags EXCEPT !.kind = "", !.yml = FALSE],
     [NoFlags EXCEPT !.kind = "http"], [NoFlags EXCEPT !.kind = "http", !.host = TRUE],
     [NoFlags EXCEPT !.kind = "other"],
     [NoFlags EXCEPT !.apiPort = 9090, !.apiKey = TRUE]}

=============================================================================
