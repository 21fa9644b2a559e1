---------------------------- MODULE MCPodWebhook ----------------------------
(* One OZSetupKey and two Secrets; a Pod that names the OZSetupKey, one    *)
(* that two profiles select, and one without annotations.                  *)
EXTENDS PodWebhook

MCKey == [p \in Pods |-> IF p = "legacy" THEN "k" ELSE None]
MCSelects == [q \in Profiles |-> IF q = 1 THEN {"web"} ELSE {"web", "bare"}]
MCSetupKeyRef == [q \in Profiles |-> IF q = 1 THEN "a" ELSE "b"]
=============================================================================
