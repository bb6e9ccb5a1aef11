---------------------------- MODULE MCPeerRequests ----------------------------
(* PeerRequests with two callers and one interface.                         *)
EXTENDS PeerRequests, TLC

Symmetry == Permutations(Caller) \cup Permutations(Request)
=============================================================================
