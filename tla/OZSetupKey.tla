----------------------------- MODULE OZSetupKey -----------------------------
(***************************************************************************)
(* The OZSetupKey controller (ozsetupkey_controller.go): it validates the  *)
(* Secret an OZSetupKey refers to and writes the verdict into the status.  *)
(* Nothing is requeued after a success; what brings an OZSetupKey back     *)
(* when its Secret changes is ReferencedSecrets, a map in the operator's   *)
(* memory from a Secret to one OZSetupKey, consulted by the Secret watch.  *)
(* All OZSetupKeys and Secrets of the model are in one namespace.          *)
(***************************************************************************)
EXTENDS Naturals

CONSTANTS
    Keys,        \* OZSetupKeys
    Secrets,     \* names of Secrets
    None,        \* an empty secretKeyRef / no entry / no running pass
    MaxFaults,   \* bound: failed calls and restarts of the operator
    MaxEvents    \* bound: changes of Secrets and of references

ASSUME NoneAssumption == None \notin Keys \cup Secrets
ASSUME BoundsAssumption == MaxFaults \in Nat /\ MaxEvents \in Nat

VARIABLES
    ref,      \* spec.secretKeyRef of every OZSetupKey
    cref,     \* the informer's copy of it
    synced,   \* OZSetupKeys whose informer copy is current
    stat,     \* the reason of the Ready condition
    secret,   \* what every Secret holds
    scache,   \* the informer's copy of it
    notify,   \* Secrets whose change the watch handler has still to map
    ReferencedSecrets,
    queue,    \* the work queue
    pc, cur,  \* the running pass and its OZSetupKey
    target,   \* the Secret it validates
    verdict,  \* what it is about to write
    fresh,    \* the API still has the resourceVersion the pass read
    faults, events

vars == <<ref, cref, synced, stat, secret, scache, notify, ReferencedSecrets,
          queue, pc, cur, target, verdict, fresh, faults, events>>
objects == <<ref, cref, stat>>
secrets == <<secret, scache, notify>>

-----------------------------------------------------------------------------
(* A Secret is absent, lacks the key, holds something that is not a UUID,  *)
(* or holds a UUID.                                                        *)
Contents == {"absent", "nokey", "bad", "good"}
Reasons == {"none", "InvalidConfig", "SecretNotExists", "SecretKeyNotExists",
            "InvalidSetupKey", "True"}

Verdict(c) == CASE c = "absent" -> "SecretNotExists"
                [] c = "nokey" -> "SecretKeyNotExists"
                [] c = "bad" -> "InvalidSetupKey"
                [] c = "good" -> "True"

TypeOK ==
    /\ ref \in [Keys -> Secrets \cup {None}]
    /\ cref \in [Keys -> Secrets \cup {None}]
    /\ synced \subseteq Keys
    /\ stat \in [Keys -> Reasons]
    /\ secret \in [Secrets -> Contents]
    /\ scache \in [Secrets -> Contents]
    /\ notify \subseteq Secrets
    /\ ReferencedSecrets \in [Secrets -> Keys \cup {None}]
    /\ queue \subseteq Keys
    /\ pc \in {"idle", "read", "set"}
    /\ cur \in Keys \cup {None}
    /\ target \in Secrets \cup {None}
    /\ verdict \in Reasons
    /\ fresh \in BOOLEAN
    /\ faults \in 0..MaxFaults
    /\ events \in 0..MaxEvents

Init ==
    /\ ref \in [Keys -> Secrets]
    /\ cref = ref
    /\ synced = Keys
    /\ stat = [k \in Keys |-> "none"]
    /\ secret = [s \in Secrets |-> "absent"]
    /\ scache = secret
    /\ notify = {}
    /\ ReferencedSecrets = [s \in Secrets |-> None]
    /\ queue = Keys
    /\ pc = "idle"
    /\ cur = None
    /\ target = None
    /\ verdict = "none"
    /\ fresh = FALSE
    /\ faults = 0
    /\ events = 0

-----------------------------------------------------------------------------
(* The reconcile pass.                                                     *)

EndPass == /\ pc' = "idle"
           /\ cur' = None
           /\ target' = None
           /\ verdict' = "none"
           /\ fresh' = FALSE

(* Mutant: an OZSetupKey that has an entry does not get another one.       *)
RememberOnce(k, s) ==
    ReferencedSecrets' =
      IF \E t \in Secrets : ReferencedSecrets[t] = k
        THEN ReferencedSecrets ELSE [ReferencedSecrets EXCEPT ![s] = k]

(* "Handle updated secret name": the entry of k moves to its new Secret,   *)
(* over whatever entry that Secret had.                                    *)
Remember(k, s) ==
    ReferencedSecrets' =
      [t \in Secrets |-> IF t = s THEN k
                         ELSE IF ReferencedSecrets[t] = k THEN None
                         ELSE ReferencedSecrets[t]]

(* Reads the OZSetupKey and records its reference before the Secret is     *)
(* read.  An empty reference is reported without touching the map.         *)
Start(k) ==
    /\ pc = "idle"
    /\ k \in queue
    /\ queue' = queue \ {k}
    /\ cur' = k
    /\ fresh' = (k \in synced)
    /\ target' = cref[k]
    /\ \/ /\ cref[k] = None
          /\ pc' = "set"
          /\ verdict' = "InvalidConfig"
          /\ UNCHANGED ReferencedSecrets
       \/ /\ cref[k] # None
          /\ Remember(k, cref[k])
          /\ pc' = "read"
          /\ UNCHANGED verdict
    /\ UNCHANGED <<objects, synced, secrets, faults, events>>

(* Mutant: the verdict is not computed for a Secret that cannot be found.  *)
ReadSecretEmpty ==
    /\ pc = "read"
    /\ verdict' = IF scache[target] = "absent" THEN "" ELSE Verdict(scache[target])
    /\ pc' = "set"
    /\ UNCHANGED <<objects, synced, secrets, ReferencedSecrets, queue, cur,
                   target, fresh, faults, events>>

ReadSecret ==
    /\ pc = "read"
    /\ verdict' = Verdict(scache[target])
    /\ pc' = "set"
    /\ UNCHANGED <<objects, synced, secrets, ReferencedSecrets, queue, cur,
                   target, fresh, faults, events>>

(* setStatus: Status().Update, an error on conflict.  The probe time makes *)
(* the write a change unless it repeats the status within the second.      *)
SetStatus ==
    /\ pc = "set"
    /\ \/ /\ fresh
          /\ stat' = [stat EXCEPT ![cur] = verdict]
          /\ \/ synced' = synced \ {cur}
             \/ stat[cur] = verdict /\ UNCHANGED synced
          /\ UNCHANGED queue
       \/ /\ ~fresh
          /\ queue' = queue \cup {cur}
          /\ UNCHANGED <<stat, synced>>
    /\ EndPass
    /\ UNCHANGED <<ref, cref, secrets, ReferencedSecrets, faults, events>>

(* Reading the Secret or writing the status fails: rate-limited requeue.   *)
Abort ==
    /\ pc # "idle"
    /\ faults < MaxFaults
    /\ faults' = faults + 1
    /\ queue' = queue \cup {cur}
    /\ EndPass
    /\ UNCHANGED <<objects, synced, secrets, ReferencedSecrets, events>>

(* A restart loses the map; the new informers list and enqueue everything. *)
Restart ==
    /\ faults < MaxFaults
    /\ faults' = faults + 1
    /\ ReferencedSecrets' = [s \in Secrets |-> None]
    /\ cref' = ref
    /\ synced' = Keys
    /\ scache' = secret
    /\ notify' = Secrets
    /\ queue' = Keys
    /\ EndPass
    /\ UNCHANGED <<ref, stat, secret, events>>

-----------------------------------------------------------------------------
(* The watches: the cache is updated first, the handler runs later.        *)

CacheSync(k) ==
    /\ k \notin synced
    /\ cref' = [cref EXCEPT ![k] = ref[k]]
    /\ synced' = synced \cup {k}
    /\ queue' = queue \cup {k}
    /\ UNCHANGED <<ref, stat, secrets, ReferencedSecrets, pc, cur, target,
                   verdict, fresh, faults, events>>

SecretSync(s) ==
    /\ scache[s] # secret[s]
    /\ scache' = [scache EXCEPT ![s] = secret[s]]
    /\ notify' = notify \cup {s}
    /\ UNCHANGED <<objects, synced, secret, ReferencedSecrets, queue, pc, cur,
                   target, verdict, fresh, faults, events>>

(* EnqueueRequestsFromMapFunc: the OZSetupKey of the map, if any.          *)
MapSecret(s) ==
    /\ s \in notify
    /\ notify' = notify \ {s}
    /\ queue' = queue \cup ({ReferencedSecrets[s]} \ {None})
    /\ UNCHANGED <<objects, synced, secret, scache, ReferencedSecrets, pc, cur,
                   target, verdict, fresh, faults, events>>

Event == /\ events < MaxEvents
         /\ events' = events + 1
         /\ UNCHANGED <<cref, stat, scache, notify, ReferencedSecrets, queue,
                        pc, cur, target, verdict, faults>>

UserWritesSecret(s, c) ==
    /\ Event
    /\ secret[s] # c
    /\ secret' = [secret EXCEPT ![s] = c]
    /\ UNCHANGED <<ref, synced, fresh>>

UserChangesRef(k, s) ==
    /\ Event
    /\ ref[k] # s
    /\ ref' = [ref EXCEPT ![k] = s]
    /\ synced' = synced \ {k}
    /\ fresh' = (fresh /\ k # cur)
    /\ UNCHANGED secret

-----------------------------------------------------------------------------
Next == \/ \E k \in Keys : Start(k) \/ CacheSync(k)
        \/ ReadSecret \/ SetStatus \/ Abort \/ Restart
        \/ \E s \in Secrets : SecretSync(s) \/ MapSecret(s)
        \/ \E s \in Secrets, c \in Contents : UserWritesSecret(s, c)
        \/ \E k \in Keys, s \in Secrets \cup {None} : UserChangesRef(k, s)

Spec == Init /\ [][Next]_vars

-----------------------------------------------------------------------------
(* Properties.                                                             *)

Correct(k) == IF ref[k] = None THEN "InvalidConfig" ELSE Verdict(secret[ref[k]])

(* A pass, an event or a request that will still look at k.                *)
Pending(k) ==
    \/ k \in queue \cup {cur}
    \/ k \notin synced
    \/ /\ ref[k] # None
       /\ \/ scache[ref[k]] # secret[ref[k]]
          \/ ref[k] \in notify

(* "Trigger reconciliation when a referenced secret changes": an           *)
(* OZSetupKey that is the only one to refer to its Secret, and whose       *)
(* status no longer describes it, is always on its way to another pass,    *)
(* however the change falls between the map update, the read and the       *)
(* status write, and whatever restarts or fails.  With a second OZSetupKey *)
(* of the same Secret it is false: the map has one entry per Secret.       *)
NoLostWakeup == \A k \in Keys : stat[k] # Correct(k) => Pending(k)
=============================================================================
