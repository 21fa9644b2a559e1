--------------------------- MODULE MCOZRoutingPeer ---------------------------
(* Small instances of OZRoutingPeer for TLC.                               *)
EXTENDS OZRoutingPeer, TLC

CONSTANTS p1, p2, r1, other, g, m

(* The routing peers behave alike.                                         *)
PeerSymmetry == Permutations(Peers)

=============================================================================
