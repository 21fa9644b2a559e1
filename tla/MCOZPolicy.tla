----------------------------- MODULE MCOZPolicy -----------------------------
(* Small instances of OZPolicy for TLC: one resource that needs both       *)
(* protocols and one that needs UDP only.                                  *)
EXTENDS OZPolicy

CONSTANTS web, dns

MCExposes == [r \in Resources |-> IF r = web THEN {"tcp", "udp"} ELSE {"udp"}]

=============================================================================
