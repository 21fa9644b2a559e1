------------------------------- MODULE Handle -------------------------------
(***************************************************************************)
(* What a v1alpha1 controller promises about the id it keeps in an         *)
(* object's status: a handle to something in the management service.       *)
(* SetupKey (the key) and NetworkRouter (the network) are shown to         *)
(* implement this specification; NetworkResource, which builds on the      *)
(* network id of a NetworkRouter, takes it as its environment.             *)
(***************************************************************************)
EXTENDS Naturals

CONSTANTS
    Ids,     \* ids of the service, in the order they are handed out
    None     \* no id

VARIABLES
    there,   \* "unused", "live" or "dead": what an id names in the service
    id,      \* the id in the status
    phase    \* "live", "deleting" or "gone": the Kubernetes object

hvars == <<there, id, phase>>

HandleInit == /\ there = [n \in Ids |-> "unused"]
              /\ id = None
              /\ phase = "live"

(* Something is created or lost in the service, whoever asked for it.      *)
Appear(n) == /\ there[n] = "unused"
             /\ there' = [there EXCEPT ![n] = "live"]
             /\ UNCHANGED <<id, phase>>

Disappear(n) == /\ there[n] = "live"
                /\ there' = [there EXCEPT ![n] = "dead"]
                /\ UNCHANGED <<id, phase>>

(* Only an id the service has handed out is published, only while the      *)
(* object exists, and always a newer one: an id that was replaced does not *)
(* come back, so a reader that follows the id forward never follows it     *)
(* into something it has already left.                                     *)
Publish(n) == /\ there[n] # "unused"
              /\ phase # "gone"
              /\ id # None => id < n
              /\ id' = n
              /\ UNCHANGED <<there, phase>>

Close == /\ phase = "live"
         /\ phase' = "deleting"
         /\ UNCHANGED <<there, id>>

(* The object vanishes with its id.  One that names something is never     *)
(* dropped before a user has asked for the deletion.                       *)
Withdraw == /\ phase = "deleting" \/ (phase = "live" /\ id = None)
            /\ phase' = "gone"
            /\ id' = None
            /\ UNCHANGED there

HandleNext == \/ \E n \in Ids : Appear(n) \/ Disappear(n) \/ Publish(n)
              \/ Close \/ Withdraw

HandleSpec == HandleInit /\ [][HandleNext]_hvars
=============================================================================
