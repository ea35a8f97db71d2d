------------------------------ MODULE MCPeers ------------------------------
(* An instance of Peers for TLC. *)
EXTENDS Peers

CONSTANTS p1, p2, a1, a2

MCAddr == [p \in Peer |-> IF p = p1 THEN a1 ELSE a2]
=============================================================================
