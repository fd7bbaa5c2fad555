------------------------ MODULE MCConnectionManager ------------------------
(* Instances of ConnectionManager for TLC.                                 *)
EXTENDS ConnectionManager

\* Nodes are numbered and every node is started with the same vector of peers,
\* in ascending order, as main in compete.cc builds it.
MCPeers == [n \in Node |-> [i \in Node |-> i]]
=============================================================================
