------------------------------ MODULE OZPolicy ------------------------------
(***************************************************************************)
(* The OZPolicy controller (ozpolicy_controller.go): from one OZPolicy     *)
(* object and the OZResources its status lists, it keeps at most one       *)
(* upstream policy per protocol.                                           *)
(*                                                                         *)
(* The ids of the upstream policies are collected in memory during a pass  *)
(* and saved by one status update at its end, which the API rejects when   *)
(* the object changed since the pass's copy; on an error nothing is saved. *)
(* The object is created with the openzro.io/cleanup finalizer (by the     *)
(* Helm chart or by the OZResource controller).                            *)
(***************************************************************************)
EXTENDS Naturals, FiniteSets

CONSTANTS
    Ids,            \* ids of upstream policies, a set of naturals
    Resources,      \* OZResources that may refer to the policy
    Exposes,        \* Exposes[r]: the protocols for which r has ports
    None,           \* no policy id in the status
    BareNotFound,   \* the service answers exactly "not found" for a missing
                    \* policy, rather than a sentence that ends with it
    MaxLapses,      \* bound: aborted passes; no pass starts from a stale copy
                    \* after as many lapses
    MaxEvents       \* bound: changes by users, resources, administrators

Protocols == {"tcp", "udp"}

ASSUME IdsAssumption == Ids \subseteq Nat /\ None \notin Ids
ASSUME ExposesAssumption == Exposes \in [Resources -> SUBSET Protocols]
ASSUME BareAssumption == BareNotFound \in BOOLEAN
ASSUME BoundsAssumption == MaxLapses \in Nat /\ MaxEvents \in Nat

VARIABLES
    api,      \* the OZPolicy in the Kubernetes API
    cache,    \* the controller's informer copy
    synced,   \* the informer copy has the API's resourceVersion
    res,      \* what the resources look like to the controller
    up,       \* upstream policies: "unused", "live" or "gone"
    rule,     \* destinations (and with them the ports) of an upstream policy
    pc,       \* next call of the running pass; "idle" between passes
    loc,      \* the pass's copy of the object, its status included
    fresh,    \* the API still has the resourceVersion the pass read
    todo,     \* protocols the pass has still to handle
    dests,    \* resources the pass maps to ports and destinations
    requeue,  \* the pass's requeue flag
    due,      \* the work queue holds a request, or a timer will add one
    lapses,   \* passes that ended without saving what they collected
    events

vars == <<api, cache, synced, res, up, rule, pc, loc, fresh, todo, dests,
          requeue, due, lapses, events>>
pass == <<loc, todo, dests, requeue>>
k8s == <<api, cache, synced, res>>
upstream == <<up, rule>>

-----------------------------------------------------------------------------
(* allowed: the protocols spec.protocols and spec.sourceGroups leave room  *)
(* for; managed: status.managedServiceList; ids: status.tcpPolicyID and    *)
(* status.udpPolicyID; ready: the condition.                               *)
Objects == [phase : {"live", "deleting", "gone"}, allowed : SUBSET Protocols,
            managed : SUBSET Resources, ids : [Protocols -> Ids \cup {None}],
            ready : BOOLEAN]

NoIds == [p \in Protocols |-> None]
Absent == [phase |-> "gone", allowed |-> {}, managed |-> {}, ids |-> NoIds,
           ready |-> FALSE]
Created == [phase |-> "live", allowed |-> Protocols, managed |-> {},
            ids |-> NoIds, ready |-> FALSE]

TypeOK ==
    /\ api \in Objects
    /\ cache \in Objects
    /\ loc \in Objects
    /\ synced \in BOOLEAN
    /\ fresh \in BOOLEAN
    /\ res \in [Resources -> {"none", "new", "named"}]
    /\ up \in [Ids -> {"unused", "live", "gone"}]
    /\ rule \in [Ids -> [proto : Protocols, dests : SUBSET Resources]]
    /\ pc \in {"idle", "resources", "sync", "save", "delete", "delFin"}
    /\ todo \subseteq Protocols
    /\ dests \subseteq Resources
    /\ requeue \in BOOLEAN
    /\ due \in BOOLEAN
    /\ lapses \in Nat
    /\ events \in 0..MaxEvents

Init ==
    /\ api = Created
    /\ cache = Absent
    /\ synced = FALSE
    /\ res = [r \in Resources |-> "none"]
    /\ up = [i \in Ids |-> "unused"]
    /\ rule = [i \in Ids |-> [proto |-> "tcp", dests |-> {}]]
    /\ pc = "idle"
    /\ loc = Absent
    /\ fresh = FALSE
    /\ todo = {}
    /\ dests = {}
    /\ requeue = FALSE
    /\ due = FALSE
    /\ lapses = 0
    /\ events = 0

-----------------------------------------------------------------------------
(* The reconcile pass.                                                     *)

(* Every return is followed by another pass: at once for requeue, with     *)
(* backoff for an error, after 15 minutes otherwise (the deferred function *)
(* sets defaultRequeueAfter).                                              *)
EndPass ==
    /\ pc' = "idle"
    /\ loc' = Absent
    /\ todo' = {}
    /\ dests' = {}
    /\ requeue' = FALSE
    /\ due' = TRUE

(* Reads the object from the cache.  The request of an object that is gone *)
(* is kept too: it returns RequeueAfter.                                   *)
Start ==
    /\ pc = "idle"
    /\ due
    /\ lapses < MaxLapses \/ synced \/ cache.phase = "gone"
    /\ fresh' = synced
    /\ \/ /\ cache.phase = "gone"
          /\ UNCHANGED <<pc, pass, due>>
       \/ /\ cache.phase # "gone"
          /\ pc' = IF cache.phase = "live" THEN "resources" ELSE "delete"
          /\ loc' = cache
          /\ todo' = Protocols
          /\ due' = FALSE
          /\ UNCHANGED <<dests, requeue>>
    /\ UNCHANGED <<k8s, upstream, lapses, events>>

(* getResources drops resources that are gone or being deleted from the    *)
(* managed list; mapResources takes those whose status names the policy.   *)
(* The groups of spec.sourceGroups are resolved before any policy is sent. *)
GetResources ==
    /\ pc = "resources"
    /\ LET found == {r \in loc.managed : res[r] # "none"}
       IN  /\ loc' = [loc EXCEPT !.managed = found]
           /\ dests' = {r \in found : res[r] = "named"}
    /\ pc' = "sync"
    /\ UNCHANGED <<todo, requeue, due, fresh, k8s, upstream, lapses, events>>

(* A policy is wanted for an allowed protocol that some mapped resource    *)
(* has ports for; its destinations are the groups of all mapped resources. *)
Wanted(p, allowed, D) == p \in allowed /\ \E r \in D : p \in Exposes[r]

Handled(p) ==
    /\ todo' = todo \ {p}
    /\ pc' = IF todo = {p} THEN "save" ELSE "sync"
    /\ UNCHANGED <<dests, due, fresh, k8s, lapses, events>>

(* syncPolicy ranges over a Go map: the protocols come in any order.       *)
SyncSkip(p) ==
    /\ pc = "sync" /\ p \in todo
    /\ ~Wanted(p, loc.allowed, dests) /\ loc.ids[p] = None
    /\ Handled(p)
    /\ UNCHANGED <<loc, requeue, upstream>>

(* Mutant: the id is forgotten without deleting the policy.                *)
SyncForget(p) ==
    /\ pc = "sync" /\ p \in todo
    /\ ~Wanted(p, loc.allowed, dests) /\ loc.ids[p] # None
    /\ loc' = [loc EXCEPT !.ids[p] = None]
    /\ Handled(p)
    /\ UNCHANGED <<requeue, upstream>>

(* Mutant: the cleared id is left as a zero value.                         *)
SyncDeleteEmpty(p) ==
    /\ pc = "sync" /\ p \in todo
    /\ ~Wanted(p, loc.allowed, dests) /\ loc.ids[p] # None
    /\ up' = [up EXCEPT ![loc.ids[p]] = "gone"]
    /\ loc' = [loc EXCEPT !.ids[p] = 0]
    /\ Handled(p)
    /\ UNCHANGED <<requeue, rule>>

SyncDelete(p) ==
    /\ pc = "sync" /\ p \in todo
    /\ ~Wanted(p, loc.allowed, dests) /\ loc.ids[p] # None
    /\ up' = [up EXCEPT ![loc.ids[p]] = "gone"]
    /\ loc' = [loc EXCEPT !.ids[p] = None]
    /\ Handled(p)
    /\ UNCHANGED <<requeue, rule>>

(* Mutant: the switch that stores the id always takes the TCP branch.      *)
SyncCreateTCP(p) ==
    /\ pc = "sync" /\ p \in todo
    /\ Wanted(p, loc.allowed, dests) /\ loc.ids[p] = None
    /\ \E i \in Ids :
         /\ up[i] = "unused"
         /\ \A j \in Ids : up[j] = "unused" => i <= j
         /\ up' = [up EXCEPT ![i] = "live"]
         /\ rule' = [rule EXCEPT ![i] = [proto |-> p, dests |-> dests]]
         /\ loc' = [loc EXCEPT !.ids["tcp"] = i]
    /\ Handled(p)
    /\ UNCHANGED requeue

(* createPolicy: the service hands out a new id.                           *)
SyncCreate(p) ==
    /\ pc = "sync" /\ p \in todo
    /\ Wanted(p, loc.allowed, dests) /\ loc.ids[p] = None
    /\ \E i \in Ids :
         /\ up[i] = "unused"
         /\ \A j \in Ids : up[j] = "unused" => i <= j
         /\ up' = [up EXCEPT ![i] = "live"]
         /\ rule' = [rule EXCEPT ![i] = [proto |-> p, dests |-> dests]]
         /\ loc' = [loc EXCEPT !.ids[p] = i]
    /\ Handled(p)
    /\ UNCHANGED requeue

(* Mutant: a policy that is gone keeps its id.                             *)
SyncUpdateKeepId(p) ==
    /\ pc = "sync" /\ p \in todo
    /\ Wanted(p, loc.allowed, dests) /\ loc.ids[p] # None
    /\ rule' = [rule EXCEPT ![loc.ids[p]].dests = dests]
    /\ requeue' = (up[loc.ids[p]] # "live")
    /\ Handled(p)
    /\ UNCHANGED <<loc, up>>

(* updatePolicy: a policy that is gone is forgotten and the pass requeues; *)
(* the flag is overwritten by the protocol that is updated last.           *)
SyncUpdate(p) ==
    /\ pc = "sync" /\ p \in todo
    /\ Wanted(p, loc.allowed, dests) /\ loc.ids[p] # None
    /\ \/ /\ up[loc.ids[p]] = "live"
          /\ rule' = [rule EXCEPT ![loc.ids[p]].dests = dests]
          /\ requeue' = FALSE
          /\ UNCHANGED loc
       \/ /\ up[loc.ids[p]] # "live"
          /\ loc' = [loc EXCEPT !.ids[p] = None]
          /\ requeue' = TRUE
          /\ UNCHANGED rule
    /\ Handled(p)
    /\ UNCHANGED up

(* Status().Update of ids, managed list and condition.  Conditions carry   *)
(* the current time, so the status always differs from the one read.  A    *)
(* conflict is an error: the ids collected by the pass are lost.           *)
SaveStatus ==
    /\ pc = "save"
    /\ \/ /\ fresh
          /\ api' = [api EXCEPT !.ids = loc.ids, !.managed = loc.managed,
                                !.ready = ~requeue]
          /\ synced' = FALSE
          /\ UNCHANGED lapses
       \/ /\ ~fresh
          /\ lapses' = lapses + 1
          /\ UNCHANGED <<api, synced>>
    /\ EndPass
    /\ UNCHANGED <<cache, res, upstream, fresh, events>>

(* handleDelete, the TCP policy before the UDP one.  The error of a        *)
(* missing policy is tested with the arguments of strings.Contains         *)
(* swapped: only a bare "not found" passes, anything longer ends the pass. *)
Missing(id) == id # None /\ up[id] # "live"

DeletePolicy(p) ==
    /\ pc = "delete"
    /\ p \in todo
    /\ p = "udp" => "tcp" \notin todo
    /\ IF Missing(loc.ids[p]) /\ ~BareNotFound
         THEN /\ EndPass
              /\ UNCHANGED up
         ELSE /\ up' = [i \in Ids |-> IF i = loc.ids[p] THEN "gone" ELSE up[i]]
              /\ todo' = todo \ {p}
              /\ pc' = IF todo = {p} THEN "delFin" ELSE "delete"
              /\ loc' = [loc EXCEPT !.ids[p] = None]
              /\ UNCHANGED <<dests, requeue, due>>
    /\ UNCHANGED <<rule, k8s, fresh, lapses, events>>

(* Update without the finalizer; a conflict is an error.  A pass that      *)
(* removed the object asks for no other one.                               *)
DropFinalizer ==
    /\ pc = "delFin"
    /\ api' = IF fresh THEN Absent ELSE api
    /\ synced' = (synced /\ ~fresh)
    /\ pc' = "idle"
    /\ loc' = Absent
    /\ todo' = {}
    /\ dests' = {}
    /\ requeue' = FALSE
    /\ due' = (due \/ ~fresh)
    /\ UNCHANGED <<cache, res, upstream, fresh, lapses, events>>

(* The next call fails or the operator crashes: nothing is saved.          *)
Abort ==
    /\ pc # "idle"
    /\ lapses < MaxLapses
    /\ lapses' = lapses + 1
    /\ EndPass
    /\ UNCHANGED <<k8s, upstream, fresh, events>>

-----------------------------------------------------------------------------
(* The environment.                                                        *)

CacheSync ==
    /\ ~synced
    /\ cache' = api
    /\ synced' = TRUE
    /\ due' = TRUE
    /\ UNCHANGED <<api, res, upstream, pc, pass, fresh, lapses, events>>

(* Somebody else writes the object.                                        *)
Written == synced' = FALSE /\ fresh' = FALSE

Event == /\ events < MaxEvents
         /\ events' = events + 1
         /\ UNCHANGED <<cache, pc, pass, due, lapses>>

UserUpdate(allowed) ==
    /\ api.phase = "live"
    /\ allowed # api.allowed
    /\ api' = [api EXCEPT !.allowed = allowed]
    /\ Written
    /\ Event
    /\ UNCHANGED <<res, upstream>>

UserDelete ==
    /\ api.phase = "live"
    /\ api' = [api EXCEPT !.phase = "deleting"]
    /\ Written
    /\ Event
    /\ UNCHANGED <<res, upstream>>

(* The OZResource controller adds a resource to the managed list, and only *)
(* later saves the policy's name in the resource's own status.             *)
Register(r) ==
    /\ api.phase = "live"
    /\ res[r] = "none"
    /\ res' = [res EXCEPT ![r] = "new"]
    /\ api' = [api EXCEPT !.managed = @ \cup {r}]
    /\ Written
    /\ Event
    /\ UNCHANGED upstream

NameInStatus(r) ==
    /\ res[r] = "new"
    /\ res' = [res EXCEPT ![r] = "named"]
    /\ UNCHANGED <<api, cache, synced, upstream, pc, pass, due, fresh, lapses, events>>

ResourceGone(r) ==
    /\ res[r] # "none"
    /\ res' = [res EXCEPT ![r] = "none"]
    /\ Event
    /\ UNCHANGED <<api, synced, fresh, upstream>>

(* An administrator deletes a policy in the management service.            *)
AdminDelete(i) ==
    /\ up[i] = "live"
    /\ up' = [up EXCEPT ![i] = "gone"]
    /\ Event
    /\ UNCHANGED <<api, synced, fresh, res, rule>>

-----------------------------------------------------------------------------
Step == \/ Start \/ GetResources \/ SaveStatus \/ DropFinalizer
        \/ \E p \in Protocols : \/ SyncSkip(p) \/ SyncDelete(p)
                                \/ SyncCreate(p) \/ SyncUpdate(p)
                                \/ DeletePolicy(p)

Environment == \/ UserDelete
               \/ \E a \in SUBSET Protocols : UserUpdate(a)
               \/ \E r \in Resources : Register(r) \/ ResourceGone(r)
               \/ \E i \in Ids : AdminDelete(i)

Next == \/ Step
        \/ Abort
        \/ CacheSync
        \/ \E r \in Resources : NameInStatus(r)
        \/ Environment

Spec == Init /\ [][Next]_vars

(* The worker runs, the watch delivers, and the OZResource controller      *)
(* finishes the pass that registered a resource.                           *)
Fairness == /\ WF_vars(Step)
            /\ WF_vars(CacheSync)
            /\ WF_vars(\E r \in Resources : NameInStatus(r))

FairSpec == Spec /\ Fairness

-----------------------------------------------------------------------------
(* Properties.                                                             *)

Tracked(o) == {o.ids[p] : p \in Protocols} \ {None}

(* Live upstream policies, granting access, that neither the status nor    *)
(* the running pass knows.                                                 *)
Orphans == {i \in Ids : up[i] = "live" /\ i \notin Tracked(api) \cup Tracked(loc)}

(* A pass that cannot save its status (a failed call, a crash, a write by  *)
(* the OZResource controller in between, a stale copy) leaves at most one  *)
(* policy per protocol behind; nothing else does, deletion included.       *)
LeaksAccounted == Cardinality(Orphans) <= 2 * lapses

(* The ids of the two protocols are never confused: whatever the order of  *)
(* the protocols and the interruptions, the policy a status names for a    *)
(* protocol is one that was created for it.                                *)
IdsMatchProtocol ==
    \A p \in Protocols : /\ api.ids[p] # None => rule[api.ids[p]].proto = p
                         /\ loc.ids[p] # None => rule[loc.ids[p]].proto = p

(* An unfinished registration or a removed resource does not stay wrong:   *)
(* in the end the policies installed are exactly the ones the object and   *)
(* its resources call for, with their destinations, or the object is gone. *)
(* What keeps a deleted object for good is a policy that was deleted       *)
(* before, by an administrator or by a deletion pass that was cut off.     *)
MappedNow == {r \in api.managed : res[r] = "named"}
Settled ==
    \/ api.phase = "gone"
    \/ /\ api.phase = "deleting" /\ ~BareNotFound
       /\ \E p \in Protocols : Missing(api.ids[p])
    \/ /\ api.phase = "live"
       /\ \A p \in Protocols :
            IF Wanted(p, api.allowed, MappedNow)
              THEN /\ api.ids[p] # None
                   /\ up[api.ids[p]] = "live"
                   /\ rule[api.ids[p]].dests = MappedNow
              ELSE api.ids[p] = None
EventuallySettled == <>[]Settled
=============================================================================
