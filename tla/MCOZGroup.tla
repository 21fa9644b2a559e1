----------------------------- MODULE MCOZGroup ------------------------------
(* Two OZGroups of the same name for TLC.                                  *)
EXTENDS OZGroup

CONSTANTS g1, g2

=============================================================================
