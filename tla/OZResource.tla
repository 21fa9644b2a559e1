----------------------------- MODULE OZResource -----------------------------
(***************************************************************************)
(* The OZResource controller (ozresource_controller.go) for one OZResource *)
(* name.  A pass brings the OZGroups, the network resource upstream and    *)
(* the OZPolicies of the spec in line, working on a copy of the object;    *)
(* the status of that copy is saved once, at the end, by a deferred        *)
(* Status().Update that an error skips and a conflict rejects.             *)
(*                                                                         *)
(* Every object is read from an informer that may lag, the OZGroups and    *)
(* the OZPolicies too: a write that rests on an outdated copy is rejected, *)
(* and what the copy does not show is passed over.  A copy that looks like *)
(* the API's counts as current.                                            *)
(*                                                                         *)
(* Service.tla extends this module with the controller that writes the     *)
(* spec.  The OZGroup and OZPolicy controllers have modules of their own;  *)
(* here they bind a group and let a deleted policy go.  Every resource of  *)
(* this object has the same name upstream, where names are unique.         *)
(***************************************************************************)
EXTENDS Slices, FiniteSets, Functions

CONSTANTS
    Groups,      \* names of groups; an OZGroup's id is its name here
    Shared,      \* groups whose OZGroup another OZResource owns as well
    Policies,    \* policy names; each may have a generated OZPolicy
    Ids,         \* ids of network resources, in the order they are handed out
    None,        \* no id
    Setups,      \* AllowAutomaticPolicyCreation, and the policies users wrote
    MaxEvents    \* bound: failed calls, passes cut off, saves doomed by a conflict,
                 \* and changes by users and administrators

ASSUME SharedAssumption == Shared \subseteq Groups
ASSUME IdsAssumption == Ids \subseteq Nat /\ None \notin Ids
ASSUME SetupsAssumption == Setups \subseteq [auto : BOOLEAN, written : SUBSET Policies]
ASSUME BoundsAssumption == MaxEvents \in Nat

VARIABLES
    ozr, rcache,  \* the OZResource in the API and the informer's copy
    grp,          \* the OZGroups: state, and this object as owner and finalizer
    gcache,       \* the informer's copies of the OZGroups
    pol, gen,     \* the OZPolicies by plain name and the generated ones
    pcache,       \* the informer's copies of the first
    ncache,       \* and of the second
    up,           \* network resources in the management service
    pc, loc,      \* the running pass and its copy of the object
    gids,         \* the group ids the pass has obtained
    todo,         \* the policies it has still to handle
    fresh,        \* its resourceVersion is still the API's
    due, lapses, events,
    broken,       \* a pass has ended in an error about one of its policies
    ungrouped,    \* a pass has gone on without any group id
    overlooked,   \* policies whose entry the last pass on them did not see
    autoPolicy    \* AllowAutomaticPolicyCreation, a flag of the operator

kube == <<ozr, rcache>>
copies == <<gcache, pcache, ncache>>
others == <<grp, pol, gen, copies>>
pass == <<pc, loc, gids, todo, fresh>>
ovars == <<kube, others, up, pass, due, autoPolicy>>
history == <<broken, ungrouped, overlooked>>

-----------------------------------------------------------------------------
(* src: there are source groups to generate a policy from.                 *)
Specs == [pols : SUBSET Policies, ports : Seq(Nat), src : BOOLEAN,
          groups : SUBSET Groups]

(* rfin: the controller's own finalizer (whoever created the object gave   *)
(* it one as well); sid, spols, sports, map: the status, map being the     *)
(* policies with a generated name; ready: the condition.                   *)
Objects == [phase : {"live", "deleting", "gone"}, rfin : BOOLEAN, spec : Specs,
            sid : Ids \cup {None}, spols : SUBSET Policies, sports : Seq(Nat),
            map : SUBSET Policies, ready : {"none", "false", "dup", "true"}]
New(spec) == [phase |-> "live", rfin |-> FALSE, spec |-> spec, sid |-> None,
              spols |-> {}, sports |-> <<>>, map |-> {}, ready |-> "none"]
Gone == [New([pols |-> {}, ports |-> <<>>, src |-> FALSE, groups |-> {}]) EXCEPT !.phase = "gone"]

RTypeOK ==
    /\ {ozr, rcache, loc} \subseteq Objects
    /\ {grp, gcache} \subseteq [Groups -> [st : {"absent", "unbound", "bound"},
                                           own : BOOLEAN, fin : BOOLEAN]]
    /\ {pol, gen, pcache, ncache} \subseteq
            [Policies -> [st : {"absent", "live", "deleting"}, managed : BOOLEAN]]
    /\ up \in [Ids -> [st : {"unused", "live", "removed", "deleted"},
                       groups : SUBSET Groups]]
    /\ pc \in {"idle", "fin", "groups", "ensure", "resource", "policy", "register",
               "unpolicy", "save", "delPol", "delGrp", "delFin"}
    /\ gids \subseteq Groups
    /\ todo \subseteq Policies
    /\ fresh \in BOOLEAN
    /\ {due, broken, ungrouped, autoPolicy} \subseteq BOOLEAN
    /\ overlooked \subseteq Policies
    /\ lapses \in 0..MaxEvents
    /\ events \in 0..MaxEvents

NoPolicy == [st |-> "absent", managed |-> FALSE]

RInit ==
    /\ ozr = Gone
    /\ rcache = Gone
    /\ grp = [g \in Groups |-> [st |-> IF g \in Shared THEN "bound" ELSE "absent",
                                own |-> FALSE, fin |-> g \in Shared]]
    /\ \E s \in Setups :
         /\ autoPolicy = s.auto
         /\ pol = [p \in Policies |-> IF p \in s.written
                                       THEN [NoPolicy EXCEPT !.st = "live"] ELSE NoPolicy]
    /\ gen = [p \in Policies |-> NoPolicy]
    /\ gcache = grp /\ pcache = pol /\ ncache = gen
    /\ up = [i \in Ids |-> [st |-> "unused", groups |-> {}]]
    /\ pc = "idle"
    /\ loc = Gone
    /\ gids = {}
    /\ todo = {}
    /\ fresh = FALSE
    /\ due = FALSE
    /\ lapses = 0
    /\ events = 0
    /\ broken = FALSE
    /\ ungrouped = FALSE
    /\ overlooked = {}

(* The bound leaves room for a failure or a change.                        *)
Eventful == lapses + events < MaxEvents

-----------------------------------------------------------------------------
(* The reconcile pass.                                                     *)

(* Every outcome is requeued, an error with backoff, a success and even a  *)
(* missing object after the default period: an object that is due once     *)
(* stays due.                                                              *)
EndPass == /\ pc' = "idle"
           /\ loc' = Gone
           /\ gids' = {}
           /\ todo' = {}
           /\ fresh' = FALSE
           /\ due' = TRUE

Goto(label) == pc' = label /\ UNCHANGED <<loc, gids, todo, fresh, due>>

(* A pass that finds no object only asks to come back.  A copy that is not *)
(* the API's cannot be saved: a lapse.                                     *)
Start ==
    /\ pc = "idle"
    /\ due
    /\ rcache.phase # "gone"
    /\ Eventful \/ rcache = ozr
    /\ lapses' = IF rcache = ozr THEN lapses ELSE lapses + 1
    /\ loc' = rcache
    /\ fresh' = (rcache = ozr)
    /\ pc' = CASE rcache.phase = "deleting" -> "delPol"
               [] rcache.phase = "live" /\ ~rcache.rfin -> "fin"
               [] OTHER -> "groups"
    /\ todo' = IF rcache.phase = "deleting" THEN rcache.spols ELSE {}
    /\ UNCHANGED <<gids, due, kube, others, up, events, history>>

(* AddFinalizer and Update: an error on conflict.                          *)
AddFinalizer ==
    /\ pc = "fin"
    /\ \/ /\ fresh
          /\ ozr' = [ozr EXCEPT !.rfin = TRUE]
          /\ loc' = [loc EXCEPT !.rfin = TRUE]
          /\ pc' = "groups"
          /\ UNCHANGED <<gids, todo, fresh, due>>
       \/ ~fresh /\ EndPass /\ UNCHANGED ozr
    /\ UNCHANGED <<rcache, others, up, lapses, events, history>>

(* This object no longer holds the OZGroups gs: one with other owners      *)
(* loses the owner reference, one without only the finalizer.              *)
Release(gs) ==
    grp' = [g \in Groups |->
              CASE g \in gs /\ g \in Shared -> [grp[g] EXCEPT !.own = FALSE]
                [] g \in gs /\ g \notin Shared -> [grp[g] EXCEPT !.fin = FALSE]
                [] OTHER -> grp[g]]

Outdated == {g \in Groups : gcache[g] # grp[g]}

(* The OZGroups outside gs that list this object as an owner, and those of *)
(* them that a write is rejected for; one that is gone is not an error.    *)
Held(gs) == {g \in Groups \ gs : gcache[g].own}
Contested(gs) == {g \in Held(gs) \cap Outdated : grp[g].st # "absent"}

(* handleGroups, the OZGroups that left the spec.  When the List or an     *)
(* Update fails, "return nil, nil, err" tells the caller to go on, without *)
(* any group id, and the next assignment of err hides the failure.         *)
ReleaseGroups ==
    /\ pc = "groups"
    /\ LET ours == Held(loc.spec.groups) \ Outdated
           contested == Contested(loc.spec.groups) # {}
       IN \/ /\ ~contested
             /\ Release(ours)
             /\ Goto("ensure")
             /\ UNCHANGED <<lapses, ungrouped>>
          \/ /\ contested \/ Eventful
             /\ lapses' = IF contested THEN lapses ELSE lapses + 1
             /\ \E gs \in SUBSET ours : Release(gs)
             /\ Goto("resource")
             /\ ungrouped' = TRUE
    /\ UNCHANGED <<kube, pol, gen, copies, up, events, broken, overlooked>>

(* The OZGroups gs exist and this object is one of their owners.           *)
Ensure(gs) ==
    grp' = [g \in Groups |->
              CASE g \in gs /\ grp[g].st = "absent"
                        -> [st |-> "unbound", own |-> TRUE, fin |-> TRUE]
                [] g \in gs /\ grp[g].st # "absent"
                        -> [grp[g] EXCEPT !.own = TRUE]
                [] OTHER -> grp[g]]

(* The OZGroups of the spec that are created or written, and those of them *)
(* that the API has otherwise: a conflict, or a name that exists.          *)
Wanted == {g \in loc.spec.groups : ~gcache[g].own}
Rejected == Wanted \cap Outdated

(* Mutant: the pass goes on with the groups that are bound so far.         *)
EnsureSomeGroups ==
    /\ pc = "ensure"
    /\ Rejected = {}
    /\ Ensure(Wanted)
    /\ gids' = {g \in loc.spec.groups : gcache[g].st = "bound"}
    /\ pc' = "resource"
    /\ UNCHANGED <<loc, todo, fresh, due, kube, pol, gen, copies, up, lapses, events,
                   history>>

(* handleGroups, the OZGroups of the spec: missing ones are created, the   *)
(* others get this object as an owner.  Unless all are bound the pass      *)
(* saves a false condition and comes back in 5 seconds; a rejected write   *)
(* and a failing call end it among them.                                   *)
EnsureGroups ==
    /\ pc = "ensure"
    /\ \/ /\ Rejected = {}
          /\ Ensure(Wanted)
          /\ \A g \in loc.spec.groups : gcache[g].st = "bound"
          /\ gids' = loc.spec.groups
          /\ pc' = "resource"
          /\ UNCHANGED <<loc, todo, fresh, due, lapses>>
       \/ /\ Rejected = {}
          /\ Ensure(Wanted)
          /\ \E g \in loc.spec.groups : gcache[g].st # "bound"
          /\ loc' = [loc EXCEPT !.ready = "false"]
          /\ pc' = "save"
          /\ UNCHANGED <<gids, todo, fresh, due, lapses>>
       \/ /\ Rejected # {} \/ Eventful
          /\ lapses' = IF Rejected # {} THEN lapses ELSE lapses + 1
          /\ \E gs \in SUBSET (Wanted \ Rejected) : Ensure(gs)
          /\ EndPass
    /\ UNCHANGED <<kube, pol, gen, copies, up, events, history>>

Live == {i \in Ids : up[i].st = "live"}

(* handleopenZroResource and handleGroupUpdate.  A resource that is gone   *)
(* is forgotten, a missing one is created, and either way the pass saves   *)
(* and comes back; a name already taken is reported as DuplicateName.      *)
(* Otherwise the groups are updated and the policies follow.               *)
SyncResource ==
    /\ pc = "resource"
    /\ \/ /\ loc.sid # None /\ loc.sid \notin Live
          /\ loc' = [loc EXCEPT !.sid = None]
          /\ pc' = "save"
          /\ UNCHANGED <<up, todo>>
       \/ /\ loc.sid = None /\ Live = {}
          /\ \E i \in Ids :
               /\ up[i].st = "unused"
               /\ \A j \in Ids : up[j].st = "unused" => i <= j
               /\ up' = [up EXCEPT ![i] = [st |-> "live", groups |-> gids]]
               /\ loc' = [loc EXCEPT !.sid = i]
          /\ pc' = "save"
          /\ UNCHANGED todo
       \/ /\ loc.sid = None /\ Live # {}
          /\ loc' = [loc EXCEPT !.ready = "dup"]
          /\ pc' = "save"
          /\ UNCHANGED <<up, todo>>
       \/ /\ loc.sid \in Live
          /\ up' = [up EXCEPT ![loc.sid].groups = gids]
          /\ todo' = loc.spec.pols
          /\ pc' = "policy"
          /\ UNCHANGED loc
    /\ UNCHANGED <<gids, fresh, due, kube, others, lapses, events, history>>

(* The OZPolicy that a policy name stands for, as the API and as the       *)
(* informer has it: the generated one once the status maps it.             *)
Stored(p) == IF p \in loc.map THEN gen[p] ELSE pol[p]
Copy(p) == IF p \in loc.map THEN ncache[p] ELSE pcache[p]
Found(p) == Copy(p).st # "absent"

(* The policies are handled in the order of the list.                      *)
Policy == CHOOSE p \in todo : TRUE

(* An error about a policy ends the pass, and nothing is saved.            *)
PolicyError == EndPass /\ broken' = TRUE /\ UNCHANGED <<pol, gen, overlooked>>

(* The policy lists this object; the copy of the object takes over the     *)
(* ports.                                                                  *)
Listed(p) ==
    /\ loc' = IF Equivalent(loc.spec.ports, loc.sports) THEN loc
              ELSE [loc EXCEPT !.sports = loc.spec.ports]
    /\ todo' = todo \ {p}
    /\ pc' = "policy"
    /\ UNCHANGED <<gids, fresh, due, broken>>

(* The Status().Update that makes it do so.                                *)
Register(p) ==
    /\ IF p \in loc.map THEN gen' = [gen EXCEPT ![p].managed = TRUE] /\ UNCHANGED pol
                         ELSE pol' = [pol EXCEPT ![p].managed = TRUE] /\ UNCHANGED gen
    /\ overlooked' = overlooked \ {p}
    /\ Listed(p)

(* handlePolicyAddUpdate.  A policy that lists this object, with ports     *)
(* that are in line, need not be written.  Without autoPolicy one that is  *)
(* missing is left out; with it handlePolicyCreate generates one, over the *)
(* OZPolicy of that name if there is one and the informer has it, unless   *)
(* there are no source groups.                                             *)
HandlePolicy ==
    /\ pc = "policy"
    /\ todo # {}
    /\ LET p == Policy IN
         \/ Found(p) /\ Copy(p) = Stored(p) /\ Register(p)
         \/ /\ Found(p) /\ Copy(p) # Stored(p)
            /\ \/ PolicyError
               \/ /\ Copy(p).managed /\ Equivalent(loc.spec.ports, loc.sports)
                  /\ Listed(p)
                  /\ UNCHANGED <<pol, gen, overlooked>>
         \/ /\ ~Found(p) /\ ~autoPolicy
            /\ todo' = todo \ {p}
            /\ UNCHANGED <<pol, gen, pc, loc, gids, fresh, due, broken, overlooked>>
         \/ /\ ~Found(p) /\ autoPolicy /\ loc.spec.src
            /\ gen[p].st = "absent" \/ ncache[p] = gen[p]
            /\ gen' = [gen EXCEPT ![p].st = IF @ = "absent" THEN "live" ELSE @]
            /\ loc' = [loc EXCEPT !.map = @ \cup {p}]
            /\ pc' = "register"
            /\ UNCHANGED <<pol, gids, todo, fresh, due, broken, overlooked>>
         \/ /\ ~Found(p) /\ autoPolicy
            /\ ~loc.spec.src \/ (gen[p].st # "absent" /\ ncache[p] # gen[p])
            /\ PolicyError
    /\ UNCHANGED <<kube, grp, copies, up, lapses, events, ungrouped>>

(* The write of the generated policy's status; if it is gone by now, an    *)
(* error, and the mapping is not saved.                                    *)
RegisterPolicy ==
    /\ pc = "register"
    /\ \/ Stored(Policy).st # "absent" /\ Register(Policy)
       \/ Stored(Policy).st = "absent" /\ PolicyError
    /\ UNCHANGED <<kube, grp, copies, up, lapses, events, ungrouped>>

PoliciesDone ==
    /\ pc = "policy"
    /\ todo = {}
    /\ todo' = loc.spols \ loc.spec.pols
    /\ pc' = "unpolicy"
    /\ UNCHANGED <<loc, gids, fresh, due, kube, others, up, lapses, events, history>>

(* Mutant: a policy that left the spec is only forgotten.                  *)
ForgetPolicy ==
    /\ pc = "unpolicy"
    /\ todo # {}
    /\ todo' = todo \ {Policy}
    /\ UNCHANGED <<pc, loc, gids, fresh, due, kube, others, up, lapses, events, history>>

(* The plain policy p is to lose its entry of this object: Unlist when the *)
(* informer shows the entry and is up to date, Overlook when it shows      *)
(* none, and otherwise the API rejects the write.                          *)
Unlist(p) == /\ pcache[p].managed /\ pcache[p] = pol[p]
             /\ pol' = [pol EXCEPT ![p].managed = FALSE]
             /\ overlooked' = overlooked \ {p}
Overlook(p) == /\ ~pcache[p].managed
               /\ overlooked' = IF pol[p].managed THEN overlooked \cup {p} ELSE overlooked
               /\ UNCHANGED pol
Conflict(p) == pcache[p].managed /\ pcache[p] # pol[p]

(* handlePolicyDelete: a generated OZPolicy is deleted and unmapped, in    *)
(* another one this object is taken off the list.  One that does not exist *)
(* is left alone, its mapping too; one that is gone after all is an error. *)
HandlePolicyDelete ==
    /\ pc = "unpolicy"
    /\ todo # {}
    /\ LET p == Policy IN
         \/ /\ p \in loc.map /\ Found(p) /\ Stored(p).st # "absent"
            /\ gen' = [gen EXCEPT ![p].st = "deleting"]
            /\ loc' = [loc EXCEPT !.map = @ \ {p}]
            /\ todo' = todo \ {p}
            /\ UNCHANGED <<pol, pc, gids, fresh, due, broken, overlooked>>
         \/ /\ p \notin loc.map
            /\ Unlist(p) \/ Overlook(p)
            /\ todo' = todo \ {p}
            /\ UNCHANGED <<gen, loc, pc, gids, fresh, due, broken>>
         \/ /\ p \in loc.map /\ ~Found(p)
            /\ todo' = todo \ {p}
            /\ UNCHANGED <<pol, gen, loc, pc, gids, fresh, due, broken, overlooked>>
         \/ /\ IF p \in loc.map THEN Found(p) /\ Stored(p).st = "absent" ELSE Conflict(p)
            /\ PolicyError
    /\ UNCHANGED <<kube, grp, copies, up, lapses, events, ungrouped>>

FinishPolicies ==
    /\ pc = "unpolicy"
    /\ todo = {}
    /\ loc' = [loc EXCEPT !.spols = loc.spec.pols, !.ready = "true"]
    /\ pc' = "save"
    /\ UNCHANGED <<gids, todo, fresh, due, kube, others, up, lapses, events, history>>

(* Mutant: the id of the network resource is not part of the status.       *)
SaveWithoutId ==
    /\ pc = "save"
    /\ ozr' = IF fresh THEN [loc EXCEPT !.sid = ozr.sid] ELSE ozr
    /\ EndPass
    /\ UNCHANGED <<rcache, others, up, lapses, events, history>>

(* The deferred Status().Update.                                           *)
SaveStatus ==
    /\ pc = "save"
    /\ ozr' = IF fresh THEN loc ELSE ozr
    /\ EndPass
    /\ UNCHANGED <<rcache, others, up, lapses, events, history>>

(* reconcileDelete, one policy of the status after the other.  They are    *)
(* looked up by plain name only.                                           *)
ReleasePolicy ==
    /\ pc = "delPol"
    /\ todo # {}
    /\ LET p == Policy IN
         \/ /\ Unlist(p) \/ Overlook(p)
            /\ todo' = todo \ {p}
            /\ UNCHANGED <<pc, loc, gids, fresh, due>>
         \/ Conflict(p) /\ EndPass /\ UNCHANGED <<pol, overlooked>>
    /\ UNCHANGED <<kube, grp, gen, copies, up, lapses, events, broken, ungrouped>>

DeleteResource ==
    /\ pc = "delPol"
    /\ todo = {}
    /\ up' = IF loc.sid \in Live THEN [up EXCEPT ![loc.sid].st = "deleted"] ELSE up
    /\ Goto("delGrp")
    /\ UNCHANGED <<kube, others, lapses, events, history>>

(* A rejected write ends the pass among the OZGroups.                      *)
ReleaseAllGroups ==
    /\ pc = "delGrp"
    /\ \/ Contested({}) = {} /\ Release(Held({}) \ Outdated) /\ Goto("delFin")
       \/ /\ Contested({}) # {}
          /\ \E gs \in SUBSET (Held({}) \ Outdated) : Release(gs)
          /\ EndPass
    /\ UNCHANGED <<kube, pol, gen, copies, up, lapses, events, history>>

(* Both finalizers go in one Update; owner references to this object then  *)
(* mean nothing, in the informer's copies either.                          *)
RemoveFinalizers ==
    /\ pc = "delFin"
    /\ \/ /\ fresh
          /\ ozr' = Gone
          /\ grp' = [g \in Groups |-> [grp[g] EXCEPT !.own = FALSE]]
          /\ gcache' = [g \in Groups |-> [gcache[g] EXCEPT !.own = FALSE]]
       \/ ~fresh /\ UNCHANGED <<ozr, grp, gcache>>
    /\ EndPass
    /\ UNCHANGED <<rcache, pol, gen, pcache, ncache, up, lapses, events, history>>

(* A call fails, or the operator stops: nothing is saved.                  *)
Abort ==
    /\ pc # "idle"
    /\ Eventful
    /\ lapses' = lapses + 1
    /\ EndPass
    /\ UNCHANGED <<kube, others, up, events, history>>

-----------------------------------------------------------------------------
(* The watches and the other controllers.                                  *)

CacheSync ==
    /\ rcache # ozr
    /\ rcache' = ozr
    /\ due' = TRUE
    /\ UNCHANGED <<ozr, others, up, pass, lapses, events, history>>

(* The watch of the OZGroups enqueues their owners.                        *)
GroupSync ==
    /\ Outdated # {}
    /\ gcache' = grp
    /\ due' = (due \/ \E g \in Outdated : gcache[g].own \/ grp[g].own)
    /\ UNCHANGED <<kube, grp, pol, gen, pcache, ncache, up, pass, lapses, events, history>>

(* The watch of the OZPolicies enqueues the object that is named in the    *)
(* generated-by annotation.                                                *)
PolicySync ==
    /\ <<pcache, ncache>> # <<pol, gen>>
    /\ pcache' = pol
    /\ ncache' = gen
    /\ due' = (due \/ ncache # gen)
    /\ UNCHANGED <<kube, grp, pol, gen, gcache, up, pass, lapses, events, history>>

(* OZGroup binds a group.                                                  *)
BindGroup(g) ==
    /\ grp[g].st = "unbound"
    /\ grp' = [grp EXCEPT ![g].st = "bound"]
    /\ UNCHANGED <<kube, pol, gen, copies, up, pass, due, lapses, events, history>>

(* Kubernetes and OZGroup remove an OZGroup whose owners are gone.         *)
CollectGroup(g) ==
    /\ grp[g].st # "absent" /\ ~grp[g].own /\ ~grp[g].fin /\ g \notin Shared
    /\ grp' = [grp EXCEPT ![g].st = "absent"]
    /\ UNCHANGED <<kube, pol, gen, copies, up, pass, due, lapses, events, history>>

(* OZPolicy lets a deleted policy go.                                      *)
PolicyGone(p) ==
    /\ gen[p].st = "deleting"
    /\ gen' = [gen EXCEPT ![p] = NoPolicy]
    /\ UNCHANGED <<kube, grp, pol, copies, up, pass, due, lapses, events, history>>

(* An administrator removes a network resource in the management service.  *)
AdminRemoves ==
    /\ Eventful
    /\ events' = events + 1
    /\ \E i \in Live : up' = [up EXCEPT ![i].st = "removed"]
    /\ UNCHANGED <<kube, others, pass, due, lapses, history>>

RStep == \/ Start \/ AddFinalizer \/ ReleaseGroups \/ EnsureGroups \/ SyncResource
         \/ PoliciesDone \/ FinishPolicies \/ SaveStatus
         \/ HandlePolicy \/ RegisterPolicy \/ HandlePolicyDelete
         \/ ReleasePolicy \/ DeleteResource \/ ReleaseAllGroups
         \/ RemoveFinalizers

OtherSync == GroupSync \/ PolicySync

OtherControllers == \/ \E g \in Groups : BindGroup(g) \/ CollectGroup(g)
                    \/ \E p \in Policies : PolicyGone(p)

-----------------------------------------------------------------------------
(* Properties.                                                             *)

(* A network resource that exists although the status does not name it and *)
(* the running pass is not about to save it.  It is never found again: the *)
(* name is taken, so every later pass ends in DuplicateName.               *)
Orphans == {i \in Live : i # ozr.sid /\ ~(pc = "save" /\ fresh /\ i = loc.sid)}
=============================================================================
