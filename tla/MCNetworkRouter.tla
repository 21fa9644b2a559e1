--------------------------- MODULE MCNetworkRouter ---------------------------
(* A small instance of NetworkRouter for TLC.                              *)
EXTENDS NetworkRouter

=============================================================================
