----------------------------- MODULE MCGateway -----------------------------
(* One HTTPRoute and one TCPRoute to the same Service.                     *)
EXTENDS Gateway

MCSetups == {"good", "invalidClass", "foreignClass", "invalidGateway"}
=============================================================================
