--------------------------- MODULE MCPeerServers ---------------------------
(* Instances of PeerServers for TLC; the .cfg files give the constants. *)
EXTENDS PeerServers
=============================================================================
