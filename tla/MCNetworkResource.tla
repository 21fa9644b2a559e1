-------------------------- MODULE MCNetworkResource --------------------------
(* A small instance of NetworkResource for TLC.                            *)
EXTENDS NetworkResource

CONSTANTS ip1, ip2, z1, z2, z3

=============================================================================
