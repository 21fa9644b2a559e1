------------------------------- MODULE OZGroup -------------------------------
(***************************************************************************)
(* The OZGroup controller (ozgroup_controller.go) and the OZGroup deletion *)
(* webhook (ozgroup_webhook.go).  The OZGroups of the model all carry the  *)
(* same spec.name, in different namespaces: they share one upstream group, *)
(* found by its name.  Groups of other names do not interact with them.    *)
(*                                                                         *)
(* Each OZGroup is owned by one OZResource or OZRoutingPeer, whose own     *)
(* finalizer it carries next to openzro.io/group-cleanup.                  *)
(*                                                                         *)
(* Every return of Reconcile asks for another pass (backoff, Requeue or    *)
(* 15 minutes), so a request never leaves the work queue: there is no      *)
(* variable for it.                                                        *)
(***************************************************************************)
EXTENDS Naturals

CONSTANTS
    Groups,      \* OZGroups with one and the same spec.name
    Ids,         \* ids of upstream groups of that name, naturals
    None,        \* no status.groupID / no running pass
    OwnerKind,   \* the kind in the owner reference of the OZGroups
    MaxLapses,   \* bound: aborted passes
    MaxEvents    \* bound: deletions, links and administrator actions

ASSUME IdsAssumption == Ids \subseteq Nat
ASSUME NoneAssumption == None \notin Ids \cup Groups
ASSUME BoundsAssumption == MaxLapses \in Nat /\ MaxEvents \in Nat

VARIABLES
    api,      \* the OZGroups in the Kubernetes API
    cache,    \* the informer copies
    synced,   \* OZGroups whose informer copy has the API's resourceVersion
    owned,    \* OZGroups whose owner exists and is not being deleted
    late,     \* OZGroups that have been deleting for more than a minute
    up,       \* upstream groups: "unused", "live" or "gone"
    linked,   \* upstream groups some upstream resource or policy refers to
    byAdmin,  \* upstream groups an administrator created
    pc,       \* next call of the running pass; "idle" between passes
    cur,      \* the OZGroup of the running pass
    loc,      \* the pass's copy of it
    fresh,    \* the API still has the resourceVersion the pass read
    lapses, events

vars == <<api, cache, synced, owned, late, up, linked, byAdmin, pc, cur, loc,
          fresh, lapses, events>>
k8s == <<api, cache, synced, owned, late>>
upstream == <<up, linked, byAdmin>>

-----------------------------------------------------------------------------
Finalizers == {"group", "owner"}
Objects == [phase : {"none", "live", "deleting", "gone"},
            fins : SUBSET Finalizers, gid : Ids \cup {None}]
Absent == [phase |-> "none", fins |-> {}, gid |-> None]
Created == [phase |-> "live", fins |-> Finalizers, gid |-> None]

(* Kubernetes removes a deleted object with its last finalizer.            *)
Reap(o) == IF o.phase = "deleting" /\ o.fins = {}
             THEN [o EXCEPT !.phase = "gone"] ELSE o

Live == {i \in Ids : up[i] = "live"}

TypeOK ==
    /\ api \in [Groups -> Objects]
    /\ cache \in [Groups -> Objects]
    /\ loc \in Objects
    /\ synced \subseteq Groups
    /\ owned \subseteq Groups
    /\ late \subseteq Groups
    /\ up \in [Ids -> {"unused", "live", "gone"}]
    /\ linked \subseteq Ids
    /\ byAdmin \subseteq Ids
    /\ pc \in {"idle", "list", "create", "save", "delUp", "check", "drop"}
    /\ cur \in Groups \cup {None}
    /\ fresh \in BOOLEAN
    /\ lapses \in 0..MaxLapses
    /\ events \in 0..MaxEvents

Init ==
    /\ api = [g \in Groups |-> Absent]
    /\ cache = api
    /\ synced = Groups
    /\ owned = {}
    /\ late = {}
    /\ up = [i \in Ids |-> "unused"]
    /\ linked = {}
    /\ byAdmin = {}
    /\ pc = "idle"
    /\ cur = None
    /\ loc = Absent
    /\ fresh = FALSE
    /\ lapses = 0
    /\ events = 0

-----------------------------------------------------------------------------
(* The reconcile pass.                                                     *)

EndPass == pc' = "idle" /\ cur' = None /\ loc' = Absent /\ fresh' = FALSE

Goto(label) == pc' = label /\ UNCHANGED <<cur, loc, fresh>>

(* Writes the running pass's object, if nobody wrote it in between.        *)
WriteCurrent(o) ==
    IF fresh THEN /\ api' = [api EXCEPT ![cur] = Reap(o)]
                  /\ synced' = synced \ {cur}
             ELSE UNCHANGED <<api, synced>>

Start(g) ==
    /\ pc = "idle"
    /\ cache[g].phase \in {"live", "deleting"}
    /\ cur' = g
    /\ loc' = cache[g]
    /\ fresh' = (g \in synced)
    /\ pc' = CASE cache[g].phase = "live" -> "list"
               [] cache[g].phase = "deleting" /\ cache[g].gid # None -> "delUp"
               [] OTHER -> "drop"
    /\ UNCHANGED <<k8s, upstream, lapses, events>>

(* Mutant: an OZGroup without id creates a group without looking.          *)
ListGroupsBlind ==
    /\ pc = "list"
    /\ \/ /\ loc.gid = None
          /\ Goto("create")
       \/ /\ loc.gid # None
          /\ Goto("save")
    /\ UNCHANGED <<k8s, upstream, lapses, events>>

(* Mutant: a group that is gone keeps its id in the status.                *)
ListGroupsKeepId ==
    /\ pc = "list"
    /\ \/ /\ Live = {} /\ loc.gid = None
          /\ Goto("create")
       \/ /\ Live = {} /\ loc.gid # None
          /\ Goto("save")
       \/ \E i \in Live :
          /\ loc' = [loc EXCEPT !.gid = i]
          /\ pc' = "save"
          /\ UNCHANGED <<cur, fresh>>
    /\ UNCHANGED <<k8s, upstream, lapses, events>>

(* Groups.List, and which group of the name (the last one listed) it uses. *)
ListGroups ==
    /\ pc = "list"
    /\ \/ /\ Live = {} /\ loc.gid = None
          /\ Goto("create")
       \/ /\ Live = {} /\ loc.gid # None
          /\ loc' = [loc EXCEPT !.gid = None]
          /\ pc' = "save"
          /\ UNCHANGED <<cur, fresh>>
       \/ \E i \in Live :
          /\ loc' = [loc EXCEPT !.gid = i]
          /\ pc' = "save"
          /\ UNCHANGED <<cur, fresh>>
    /\ UNCHANGED <<k8s, upstream, lapses, events>>

(* The service hands out the next id.                                      *)
NewId(i) == up[i] = "unused" /\ \A j \in Ids : up[j] = "unused" => i <= j

CreateGroup ==
    /\ pc = "create"
    /\ \E i \in Ids : /\ NewId(i)
                      /\ up' = [up EXCEPT ![i] = "live"]
                      /\ loc' = [loc EXCEPT !.gid = i]
    /\ pc' = "save"
    /\ UNCHANGED <<k8s, linked, byAdmin, cur, fresh, lapses, events>>

(* Mutant: a cleared id is saved as a zero value.                          *)
SaveStatusEmpty ==
    /\ pc = "save"
    /\ WriteCurrent([api[cur] EXCEPT !.gid = IF loc.gid = None THEN 0 ELSE loc.gid])
    /\ EndPass
    /\ UNCHANGED <<cache, owned, late, upstream, lapses, events>>

(* Status().Update; a conflict is an error.                                *)
SaveStatus ==
    /\ pc = "save"
    /\ WriteCurrent([api[cur] EXCEPT !.gid = loc.gid])
    /\ EndPass
    /\ UNCHANGED <<cache, owned, late, upstream, lapses, events>>

(* Mutant: a linked group is waited for without a time limit.              *)
DeleteGroupPatient ==
    /\ pc = "delUp"
    /\ \/ /\ up[loc.gid] = "live" /\ loc.gid \in linked
          /\ Goto("check")
          /\ UNCHANGED up
       \/ /\ up[loc.gid] = "live" /\ loc.gid \notin linked
          /\ up' = [up EXCEPT ![loc.gid] = "gone"]
          /\ Goto("drop")
       \/ /\ up[loc.gid] # "live"
          /\ Goto("drop")
          /\ UNCHANGED up
    /\ UNCHANGED <<k8s, linked, byAdmin, lapses, events>>

(* Groups.Delete.  A group that is linked upstream cannot be deleted: for  *)
(* a minute the controller looks for another owner or retries, then it     *)
(* gives up on the upstream group.                                         *)
DeleteGroup ==
    /\ pc = "delUp"
    /\ \/ /\ up[loc.gid] = "live" /\ loc.gid \in linked
          /\ Goto(IF cur \in late THEN "drop" ELSE "check")
          /\ UNCHANGED up
       \/ /\ up[loc.gid] = "live" /\ loc.gid \notin linked
          /\ up' = [up EXCEPT ![loc.gid] = "gone"]
          /\ Goto("drop")
       \/ /\ up[loc.gid] # "live"
          /\ Goto("drop")
          /\ UNCHANGED up
    /\ UNCHANGED <<k8s, linked, byAdmin, lapses, events>>

(* Lists the cached OZGroups for another one with the same group, deleting *)
(* ones included.                                                          *)
CheckOthers ==
    /\ pc = "check"
    /\ IF \E g \in Groups \ {cur} : /\ cache[g].phase \in {"live", "deleting"}
                                    /\ cache[g].gid = loc.gid
         THEN Goto("drop")
         ELSE EndPass
    /\ UNCHANGED <<k8s, upstream, lapses, events>>

(* Update without the group-cleanup finalizer.                             *)
DropFinalizer ==
    /\ pc = "drop"
    /\ WriteCurrent([api[cur] EXCEPT !.fins = @ \ {"group"}])
    /\ EndPass
    /\ UNCHANGED <<cache, owned, late, upstream, lapses, events>>

(* The next call fails, or the operator crashes.                           *)
Abort ==
    /\ pc # "idle"
    /\ lapses < MaxLapses
    /\ lapses' = lapses + 1
    /\ EndPass
    /\ UNCHANGED <<k8s, upstream, events>>

-----------------------------------------------------------------------------
(* The environment.                                                        *)

CacheSync(g) ==
    /\ g \notin synced
    /\ cache' = [cache EXCEPT ![g] = api[g]]
    /\ synced' = synced \cup {g}
    /\ UNCHANGED <<api, owned, late, upstream, pc, cur, loc, fresh, lapses, events>>

(* Somebody else writes OZGroup g.                                         *)
Write(g, o) ==
    /\ api' = [api EXCEPT ![g] = Reap(o)]
    /\ synced' = synced \ {g}
    /\ fresh' = (fresh /\ g # cur)
    /\ UNCHANGED <<cache, upstream, pc, cur, loc, lapses>>

Event == events < MaxEvents /\ events' = events + 1

(* The owner's controller creates the OZGroup (handleGroups, handleGroup). *)
OwnerCreates(g) ==
    /\ api[g].phase = "none"
    /\ Write(g, Created)
    /\ owned' = owned \cup {g}
    /\ UNCHANGED <<late, events>>

(* The owner is deleted: its controller removes its finalizer from the     *)
(* OZGroup, and Kubernetes deletes the OZGroup with its owner.             *)
OwnerReleases(g) ==
    /\ g \in owned
    /\ api[g].phase \in {"live", "deleting"}
    /\ Write(g, [api[g] EXCEPT !.fins = @ \ {"owner"}])
    /\ owned' = owned \ {g}
    /\ UNCHANGED <<late, events>>

(* ValidateDelete compares the owner's kind with the Kind of an empty      *)
(* OZResource or OZRoutingPeer literal, whose TypeMeta is not filled in.   *)
LiteralKind == ""
DeletionDenied(g) == OwnerKind = LiteralKind /\ g \in owned

Delete(g) ==
    /\ api[g].phase = "live"
    /\ ~DeletionDenied(g)
    /\ Write(g, [api[g] EXCEPT !.phase = "deleting"])
    /\ UNCHANGED <<owned, late>>

UserDelete(g) == Delete(g) /\ Event

Collect(g) ==
    /\ g \notin owned
    /\ Delete(g)
    /\ UNCHANGED events

(* A minute has passed since the deletion; only deletions of a linked      *)
(* group look at the clock.                                                *)
Minute(g) ==
    /\ cache[g].phase = "deleting"
    /\ cache[g].gid \in linked
    /\ g \notin late
    /\ late' = late \cup {g}
    /\ UNCHANGED <<api, cache, synced, owned, upstream, pc, cur, loc, fresh, lapses, events>>

(* Upstream resources and policies start or stop to refer to a group.      *)
Link(i) ==
    /\ Event
    /\ up[i] = "live"
    /\ linked' = IF i \in linked THEN linked \ {i} ELSE linked \cup {i}
    /\ UNCHANGED <<k8s, up, byAdmin, pc, cur, loc, fresh, lapses>>

AdminDelete(i) ==
    /\ Event
    /\ up[i] = "live" /\ i \notin linked
    /\ up' = [up EXCEPT ![i] = "gone"]
    /\ UNCHANGED <<k8s, linked, byAdmin, pc, cur, loc, fresh, lapses>>

AdminCreate(i) ==
    /\ Event
    /\ NewId(i)
    /\ up' = [up EXCEPT ![i] = "live"]
    /\ byAdmin' = byAdmin \cup {i}
    /\ UNCHANGED <<k8s, linked, pc, cur, loc, fresh, lapses>>

Done ==
    /\ \A g \in Groups : cache[g].phase = "gone"
    /\ pc = "idle"
    /\ UNCHANGED vars

-----------------------------------------------------------------------------
Work == \/ ListGroups \/ CreateGroup \/ SaveStatus
        \/ DeleteGroup \/ CheckOthers \/ DropFinalizer

Environment ==
    \/ \E g \in Groups : \/ CacheSync(g) \/ OwnerCreates(g) \/ OwnerReleases(g)
                         \/ UserDelete(g) \/ Collect(g) \/ Minute(g)
    \/ \E i \in Ids : Link(i) \/ AdminDelete(i) \/ AdminCreate(i)

Next == (\E g \in Groups : Start(g)) \/ Work \/ Abort \/ Environment \/ Done

Spec == Init /\ [][Next]_vars

(* A pass that began is carried through; the work queue gives every        *)
(* OZGroup its turn between passes (strong fairness: "idle" recurs); the   *)
(* watch delivers; garbage collection and time go on.                      *)
Fairness ==
    /\ WF_vars(Work)
    /\ \A g \in Groups : /\ SF_vars(Start(g))
                         /\ WF_vars(CacheSync(g))
                         /\ WF_vars(Collect(g))
                         /\ WF_vars(Minute(g))

FairSpec == Spec /\ Fairness

-----------------------------------------------------------------------------
(* Properties.                                                             *)

(* "ensure no group duplication": however passes are cut off after         *)
(* Groups.Create and whatever the caches show, the operator never has two  *)
(* groups of the same name upstream, for all OZGroups of that name.        *)
NoDuplicate == \A i, j \in Live \ byAdmin : i = j

(* Every OZGroup that lives ends up bound to a group that exists, even     *)
(* when another OZGroup's deletion or an administrator took it away.       *)
Bound(g) == api[g].phase = "live" => api[g].gid # None /\ up[api[g].gid] = "live"
EventuallyBound == <>[](\A g \in Groups : Bound(g))

(* Deletion ends: an OZGroup whose owner let go of it disappears, though   *)
(* its upstream group may stay linked for ever.                            *)
DeletionCompletes ==
    \A g \in Groups : (api[g].phase = "deleting" /\ g \notin owned)
                        ~> api[g].phase = "gone"

(* "OZResource owner exists ... should deny deletion": an OZGroup is not   *)
(* deleted while its owner exists and is not being deleted.                *)
OwnedGroupKept == \A g \in owned : api[g].phase = "live"
=============================================================================
