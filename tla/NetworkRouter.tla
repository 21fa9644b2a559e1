---------------------------- MODULE NetworkRouter ----------------------------
(***************************************************************************)
(* The v1alpha1 NetworkRouter controller (networkrouter_controller.go)     *)
(* composed with the Group controller.  For one NetworkRouter, from its    *)
(* creation to its removal, it keeps a network and a routing peer in the   *)
(* management service and applies a Group, a SetupKey and a Deployment.    *)
(*                                                                         *)
(* A pass that finds the Group, the SetupKey or the Deployment not ready   *)
(* returns without a requeue and without an error: it depends on the       *)
(* watches of the owned objects.  The finalizer is only added in memory    *)
(* and reaches the API in the patch that records the network.              *)
(*                                                                         *)
(* The SetupKey and the Deployment stand for what the informers show of    *)
(* them.                                                                   *)
(***************************************************************************)
EXTENDS Group

CONSTANTS
    Nets,      \* ids of networks, in the order they are handed out
    Routers    \* ids of routing peers, in the order they are handed out

ASSUME NetsAssumption == Nets \subseteq Nat /\ Routers \subseteq Nat
ASSUME GroupNamesAssumption == Names = Nets

VARIABLES
    api, cache,  \* the NetworkRouter in the API and the informer's copy
    net,         \* state of every network in the management service
    rtr,         \* every routing peer there: its state, network and peer group
    key, dep,    \* the owned SetupKey and Deployment as the informer has them
    pc, loc,     \* the running pass and the NetworkRouter as it read it
    cur,         \* what the pass has obtained: network, group, routing peer
    due          \* the work queue holds the NetworkRouter

rvars == <<api, cache, net, rtr, key, dep, pc, loc, cur, due>>
vars == <<gvars, rvars, lapses, events>>

-----------------------------------------------------------------------------
(* ready: the Ready condition, which is set and never taken back.          *)
Objects == [phase : {"live", "deleting", "gone"}, fin : BOOLEAN,
            nid : Nets \cup {None}, rid : Routers \cup {None}, ready : BOOLEAN]
Absent == [phase |-> "gone", fin |-> FALSE, nid |-> None, rid |-> None,
           ready |-> FALSE]
Created == [phase |-> "live", fin |-> FALSE, nid |-> None, rid |-> None,
            ready |-> FALSE]
Unused == [st |-> "unused", net |-> None, grp |-> None]
Nothing == [net |-> None, gid |-> None, rid |-> None]

TypeOK ==
    /\ GTypeOK
    /\ {api, cache, loc} \subseteq Objects
    /\ net \in [Nets -> UpStates]
    /\ rtr \in [Routers -> [st : UpStates, net : Nets \cup {None},
                            grp : Groups \cup {None}]]
    /\ key \in {"absent", "pending", "ready"}
    /\ dep \in {"absent", "rolling", "ready"}
    /\ pc \in {"idle", "zone", "network", "createNet", "patchNet", "group",
               "getGroup", "key", "router", "createRtr", "patchRtr",
               "deployment", "patchReady", "delRtr", "delNet",
               "delFin"}
    /\ cur \in [net : Nets \cup {None}, gid : Groups \cup {None},
                rid : Routers \cup {None}]
    /\ due \in BOOLEAN
    /\ lapses \in 0..MaxLapses
    /\ events \in 0..MaxEvents

Init ==
    /\ GInit
    /\ api = Created
    /\ cache = Absent
    /\ net = [n \in Nets |-> "unused"]
    /\ rtr = [r \in Routers |-> Unused]
    /\ key = "absent"
    /\ dep = "absent"
    /\ pc = "idle"
    /\ loc = Absent
    /\ cur = Nothing
    /\ due = FALSE
    /\ lapses = 0
    /\ events = 0

-----------------------------------------------------------------------------
(* The reconcile pass.                                                     *)

EndPass(requeue) == /\ pc' = "idle"
                    /\ loc' = Absent
                    /\ cur' = Nothing
                    /\ due' = (due \/ requeue)

Goto(label) == pc' = label /\ UNCHANGED <<loc, cur, due>>

(* Reads the informer's copy.  Ids older than the API's, or a copy of an   *)
(* object that is gone, are a lapse.                                       *)
Start ==
    /\ pc = "idle"
    /\ due
    /\ LET old == \/ cache.nid # api.nid \/ cache.rid # api.rid
                  \/ cache.phase = "live" /\ api.phase = "gone" IN
         /\ lapses < MaxLapses \/ ~old
         /\ lapses' = IF old THEN lapses + 1 ELSE lapses
    /\ due' = FALSE
    /\ \/ cache.phase = "gone" /\ UNCHANGED <<pc, loc>>
       \/ cache.phase = "live" /\ pc' = "zone" /\ loc' = cache
       \/ cache.phase = "deleting" /\ pc' = "delRtr" /\ loc' = cache
    /\ UNCHANGED <<gvars, api, cache, net, rtr, key, dep, cur, events>>

(* The DNS zone must exist; that it does not is an error (Abort).  The     *)
(* finalizer is added in memory.                                           *)
GetZone ==
    /\ pc = "zone"
    /\ Goto(IF loc.nid = None THEN "createNet" ELSE "network")
    /\ UNCHANGED <<gvars, api, cache, net, rtr, key, dep, lapses, events>>

(* Networks.Update; a network that is not found is created again.          *)
UpdateNetwork ==
    /\ pc = "network"
    /\ \/ /\ net[loc.nid] = "live"
          /\ pc' = "patchNet"
          /\ cur' = [cur EXCEPT !.net = loc.nid]
       \/ net[loc.nid] # "live" /\ pc' = "createNet" /\ UNCHANGED cur
    /\ UNCHANGED <<gvars, api, cache, net, rtr, key, dep, loc, due, lapses, events>>

(* Mutant: the id in the answer is dropped.                                *)
CreateNetworkNoId ==
    /\ pc = "createNet"
    /\ \E n \in Nets :
         /\ net[n] = "unused"
         /\ \A m \in Nets : net[m] = "unused" => n <= m
         /\ net' = [net EXCEPT ![n] = "live"]
         /\ cur' = [cur EXCEPT !.net = 0]
    /\ pc' = "patchNet"
    /\ UNCHANGED <<gvars, api, cache, rtr, key, dep, loc, due, lapses, events>>

CreateNetwork ==
    /\ pc = "createNet"
    /\ \E n \in Nets :
         /\ net[n] = "unused"
         /\ \A m \in Nets : net[m] = "unused" => n <= m
         /\ net' = [net EXCEPT ![n] = "live"]
         /\ cur' = [cur EXCEPT !.net = n]
    /\ pc' = "patchNet"
    /\ UNCHANGED <<gvars, api, cache, rtr, key, dep, loc, due, lapses, events>>

(* Mutant: the status is patched and the finalizer is not.                 *)
PatchStatusOnly ==
    /\ pc = "patchNet"
    /\ \/ /\ api.phase # "gone"
          /\ api' = [api EXCEPT !.nid = IF cur.net = loc.nid THEN @ ELSE cur.net]
          /\ Goto("group")
       \/ api.phase = "gone" /\ EndPass(TRUE) /\ UNCHANGED api
    /\ UNCHANGED <<gvars, cache, net, rtr, key, dep, lapses, events>>

(* Patch of the finalizer and status.networkID, both only if they differ   *)
(* from the copy read; it fails when the object is gone.  Patch writes     *)
(* metadata and status in two calls, one step here: a pass cut off between *)
(* them leaves the id unsaved, as one cut off before both does.            *)
PatchNetwork ==
    /\ pc = "patchNet"
    /\ LET same == loc.fin /\ cur.net = loc.nid IN
         \/ same /\ Goto("group") /\ UNCHANGED api
         \/ /\ ~same /\ api.phase # "gone"
            /\ api' = [api EXCEPT !.fin = TRUE,
                                  !.nid = IF cur.net = loc.nid THEN @ ELSE cur.net]
            /\ Goto("group")
         \/ ~same /\ api.phase = "gone" /\ EndPass(TRUE) /\ UNCHANGED api
    /\ UNCHANGED <<gvars, cache, net, rtr, key, dep, lapses, events>>

(* Applies the owned Group, named after the network.  One that is being    *)
(* deleted stays so.                                                       *)
ApplyGroup ==
    /\ pc = "group"
    /\ grp' = IF grp.phase = "gone"
                THEN [phase |-> "live", fin |-> FALSE, gid |-> None, name |-> cur.net]
                ELSE [grp EXCEPT !.name = cur.net]
    /\ Goto("getGroup")
    /\ UNCHANGED <<gcache, gup, gname, gpc, gloc, gnew, gdue, api, cache, net,
                   rtr, key, dep, lapses, events>>

(* Not in the cache yet is an error; without an id the pass just returns.  *)
GetGroup ==
    /\ pc = "getGroup"
    /\ \/ gcache.phase = "gone" /\ EndPass(TRUE)
       \/ gcache.phase # "gone" /\ gcache.gid = None /\ EndPass(FALSE)
       \/ /\ gcache.phase # "gone" /\ gcache.gid # None
          /\ pc' = "key"
          /\ cur' = [cur EXCEPT !.gid = gcache.gid]
          /\ UNCHANGED <<loc, due>>
    /\ UNCHANGED <<gvars, api, cache, net, rtr, key, dep, lapses, events>>

(* Applies the owned SetupKey and reads it back: not in the cache yet is   *)
(* an error; without an id the pass just returns.                          *)
EnsureKey ==
    /\ pc = "key"
    /\ \/ key = "absent" /\ key' = "pending" /\ \E b \in BOOLEAN : EndPass(b)
       \/ key = "pending" /\ EndPass(FALSE) /\ UNCHANGED key
       \/ /\ key = "ready"
          /\ Goto(IF loc.rid = None THEN "createRtr" ELSE "router")
          /\ UNCHANGED key
    /\ UNCHANGED <<gvars, api, cache, net, rtr, dep, lapses, events>>

(* Routers(network).Update; not found there: it is created.                *)
UpdateRouter ==
    /\ pc = "router"
    /\ \/ /\ rtr[loc.rid].st = "live" /\ rtr[loc.rid].net = cur.net
          /\ rtr' = [rtr EXCEPT ![loc.rid].grp = cur.gid]
          /\ pc' = "patchRtr"
          /\ cur' = [cur EXCEPT !.rid = loc.rid]
       \/ /\ rtr[loc.rid].st # "live" \/ rtr[loc.rid].net # cur.net
          /\ pc' = "createRtr"
          /\ UNCHANGED <<rtr, cur>>
    /\ UNCHANGED <<gvars, api, cache, net, key, dep, loc, due, lapses, events>>

(* Routers(network).Create fails when the network is gone.                 *)
CreateRouter ==
    /\ pc = "createRtr"
    /\ \/ net[cur.net] # "live" /\ EndPass(TRUE) /\ UNCHANGED rtr
       \/ /\ net[cur.net] = "live"
          /\ \E r \in Routers :
               /\ rtr[r].st = "unused"
               /\ \A q \in Routers : rtr[q].st = "unused" => r <= q
               /\ rtr' = [rtr EXCEPT ![r] = [st |-> "live", net |-> cur.net,
                                             grp |-> cur.gid]]
               /\ cur' = [cur EXCEPT !.rid = r]
          /\ pc' = "patchRtr"
          /\ UNCHANGED <<loc, due>>
    /\ UNCHANGED <<gvars, api, cache, net, key, dep, lapses, events>>

(* Patch of status.routingPeerID and observedGeneration.                   *)
PatchRouter ==
    /\ pc = "patchRtr"
    /\ \/ /\ api.phase # "gone"
          /\ api' = [api EXCEPT !.rid = IF cur.rid = loc.rid THEN @ ELSE cur.rid]
          /\ Goto("deployment")
       \/ api.phase = "gone" /\ EndPass(TRUE) /\ UNCHANGED api
    /\ UNCHANGED <<gvars, cache, net, rtr, key, dep, lapses, events>>

(* Applies the Deployment and reads it back.  ReadyReplicas is compared    *)
(* with Replicas, so a Deployment whose status is still empty counts as    *)
(* ready: "rolling" may go either way.                                     *)
EnsureDeployment ==
    /\ pc = "deployment"
    /\ \/ /\ dep = "absent" /\ dep' = "rolling"
          /\ EndPass(TRUE) \/ Goto("patchReady")
       \/ dep = "rolling" /\ EndPass(FALSE) /\ UNCHANGED dep
       \/ dep \in {"rolling", "ready"} /\ Goto("patchReady") /\ UNCHANGED dep
    /\ UNCHANGED <<gvars, api, cache, net, rtr, key, lapses, events>>

(* MarkTrue(Ready), Patch, and a requeue after 15 minutes.                 *)
PatchReady ==
    /\ pc = "patchReady"
    /\ api' = IF api.phase = "gone" THEN api ELSE [api EXCEPT !.ready = TRUE]
    /\ EndPass(TRUE)
    /\ UNCHANGED <<gvars, cache, net, rtr, key, dep, lapses, events>>

(* reconcileDelete.  Not found is no error.                                *)
DeleteRouter ==
    /\ pc = "delRtr"
    /\ rtr' = IF /\ loc.rid # None
                 /\ rtr[loc.rid].st = "live" /\ rtr[loc.rid].net = loc.nid
                THEN [rtr EXCEPT ![loc.rid].st = "deleted"] ELSE rtr
    /\ Goto("delNet")
    /\ UNCHANGED <<gvars, api, cache, net, key, dep, lapses, events>>

(* The management service deletes a network with its routing peers.        *)
LoseNetwork(n, how) ==
    /\ net' = [net EXCEPT ![n] = how]
    /\ rtr' = [r \in Routers |-> IF rtr[r].st = "live" /\ rtr[r].net = n
                                   THEN [rtr[r] EXCEPT !.st = how] ELSE rtr[r]]

(* Mutant: the network goes only when a routing peer was recorded.         *)
DeleteServedNetwork ==
    /\ pc = "delNet"
    /\ IF loc.nid # None /\ loc.rid # None /\ net[loc.nid] = "live"
         THEN LoseNetwork(loc.nid, "deleted") ELSE UNCHANGED <<net, rtr>>
    /\ Goto("delFin")
    /\ UNCHANGED <<gvars, api, cache, key, dep, lapses, events>>

DeleteNetwork ==
    /\ pc = "delNet"
    /\ IF loc.nid # None /\ net[loc.nid] = "live"
         THEN LoseNetwork(loc.nid, "deleted") ELSE UNCHANGED <<net, rtr>>
    /\ Goto("delFin")
    /\ UNCHANGED <<gvars, api, cache, key, dep, lapses, events>>

RemoveFinalizer ==
    /\ pc = "delFin"
    /\ api' = Absent
    /\ EndPass(api.phase = "gone")
    /\ UNCHANGED <<gvars, cache, net, rtr, key, dep, lapses, events>>

Abort ==
    /\ pc # "idle"
    /\ lapses < MaxLapses
    /\ lapses' = lapses + 1
    /\ EndPass(TRUE)
    /\ UNCHANGED <<gvars, api, cache, net, rtr, key, dep, events>>

-----------------------------------------------------------------------------
(* The watches.                                                            *)

CacheSync ==
    /\ cache # api
    /\ cache' = api
    /\ due' = TRUE
    /\ UNCHANGED <<gvars, api, net, rtr, key, dep, pc, loc, cur, lapses, events>>

(* Mutant: the NetworkRouter does not watch its Group.                     *)
GroupSyncUnwatched ==
    /\ gcache # grp
    /\ gcache' = grp
    /\ gdue' = TRUE
    /\ UNCHANGED <<grp, gup, gname, gpc, gloc, gnew, rvars, lapses, events>>

(* One informer of Groups serves both controllers: For and Owns.           *)
GroupSync ==
    /\ gcache # grp
    /\ gcache' = grp
    /\ gdue' = TRUE
    /\ due' = TRUE
    /\ UNCHANGED <<grp, gup, gname, gpc, gloc, gnew, api, cache, net, rtr, key,
                   dep, pc, loc, cur, lapses, events>>

(* The SetupKey gets its id (SetupKey.tla).                                *)
KeySync ==
    /\ key = "pending"
    /\ key' = "ready"
    /\ due' = TRUE
    /\ UNCHANGED <<gvars, api, cache, net, rtr, dep, pc, loc, cur, lapses, events>>

DeploymentSync ==
    /\ dep = "rolling"
    /\ dep' = "ready"
    /\ due' = TRUE
    /\ UNCHANGED <<gvars, api, cache, net, rtr, key, pc, loc, cur, lapses, events>>

-----------------------------------------------------------------------------
(* Users, administrators, Kubernetes.                                      *)

(* A router without the finalizer is gone at once; when a pass is working  *)
(* on it, that counts as a lapse.                                          *)
UserDelete ==
    /\ api.phase = "live"
    /\ \/ /\ api.fin
          /\ api' = [api EXCEPT !.phase = "deleting"]
          /\ UNCHANGED lapses
       \/ /\ ~api.fin
          /\ lapses < MaxLapses \/ pc = "idle"
          /\ lapses' = IF pc = "idle" THEN lapses ELSE lapses + 1
          /\ api' = Absent
    /\ UNCHANGED <<gvars, cache, net, rtr, key, dep, pc, loc, cur, due, events>>

(* The Group is deleted: by a user, or by Kubernetes when its owner is     *)
(* gone.                                                                   *)
DeleteGroup ==
    /\ grp.phase = "live"
    /\ \/ api.phase = "gone" /\ UNCHANGED events
       \/ api.phase # "gone" /\ events < MaxEvents /\ events' = events + 1
    /\ grp' = IF grp.fin THEN [grp EXCEPT !.phase = "deleting"] ELSE GAbsent
    /\ UNCHANGED <<gcache, gup, gname, gpc, gloc, gnew, gdue, rvars, lapses>>

AdminRemovesNetwork(n) ==
    /\ net[n] = "live"
    /\ events < MaxEvents
    /\ events' = events + 1
    /\ LoseNetwork(n, "removed")
    /\ UNCHANGED <<gvars, api, cache, key, dep, pc, loc, cur, due, lapses>>

AdminRemovesRouter(r) ==
    /\ rtr[r].st = "live"
    /\ events < MaxEvents
    /\ events' = events + 1
    /\ rtr' = [rtr EXCEPT ![r].st = "removed"]
    /\ UNCHANGED <<gvars, api, cache, net, key, dep, pc, loc, cur, due, lapses>>

(* A new operator lists and enqueues everything.                           *)
Restart ==
    /\ lapses < MaxLapses
    /\ lapses' = lapses + 1
    /\ pc' = "idle" /\ loc' = Absent /\ cur' = Nothing /\ due' = TRUE
    /\ gpc' = "idle" /\ gloc' = GAbsent /\ gnew' = None /\ gdue' = TRUE
    /\ cache' = api
    /\ gcache' = grp
    /\ UNCHANGED <<grp, gup, gname, api, net, rtr, key, dep, events>>

Done ==
    /\ api.phase = "gone" /\ cache = api /\ pc = "idle" /\ ~due
    /\ grp.phase = "gone" /\ gcache = grp /\ gpc = "idle" /\ ~gdue
    /\ UNCHANGED vars

-----------------------------------------------------------------------------
Step == \/ Start \/ GetZone \/ UpdateNetwork \/ CreateNetwork \/ PatchNetwork
        \/ ApplyGroup \/ GetGroup \/ EnsureKey \/ UpdateRouter \/ CreateRouter
        \/ PatchRouter \/ EnsureDeployment \/ PatchReady \/ DeleteRouter \/ DeleteNetwork \/ RemoveFinalizer

GroupStep == GStep /\ UNCHANGED rvars

Environment ==
    \/ CacheSync \/ GroupSync \/ KeySync \/ DeploymentSync
    \/ UserDelete \/ DeleteGroup
    \/ \E n \in Nets : AdminRemovesNetwork(n)
    \/ \E r \in Routers : AdminRemovesRouter(r)
    \/ \E g \in Groups : AdminRemovesGroup(g) /\ UNCHANGED rvars

Next == \/ Step \/ Abort
        \/ GroupStep
        \/ GAbort /\ UNCHANGED rvars
        \/ Environment \/ Restart \/ Done

Spec == Init /\ [][Next]_vars

(* Both workers carry on, the watches deliver, Kubernetes collects what    *)
(* has lost its owner, keys get their ids and Deployments roll out.        *)
Fairness == /\ WF_vars(Step)
            /\ WF_vars(GroupStep)
            /\ WF_vars(CacheSync)
            /\ WF_vars(GroupSync)
            /\ WF_vars(KeySync)
            /\ WF_vars(DeploymentSync)
            /\ WF_vars(api.phase = "gone" /\ DeleteGroup)

FairSpec == Spec /\ Fairness

-----------------------------------------------------------------------------
(* Properties.                                                             *)

(* A network that exists although the status does not name it and the      *)
(* running pass is not about to record it.                                 *)
NetworkOrphans == {n \in Nets : /\ net[n] = "live"
                                /\ n # api.nid
                                /\ ~(pc = "patchNet" /\ n = cur.net)}

(* The finalizer is saved only with the network's id, after the network is *)
(* created: still, each pass cut off, each pass that started from an old   *)
(* status and a deletion that beats the first patch leaves at most one     *)
(* network behind, and nothing else does, teardown included.               *)
NetworksAccounted == Cardinality(NetworkOrphans) <= lapses

(* The same for the groups of the Group controller, across the user's      *)
(* deletion of the Group under a live router and the router's next Apply.  *)
GroupsAccounted == Cardinality(GroupOrphans) <= lapses

(* The passes that return without a requeue are always picked up by a      *)
(* watch: in the end the router is gone with its Group, or its network and *)
(* routing peer exist, belong together and use the group the Group has by  *)
(* now.  A group that an administrator removes is not made again.          *)
Settled ==
    \/ api.phase = "gone" /\ grp.phase = "gone"
    \/ /\ api.phase = "live" /\ api.ready
       /\ net[api.nid] = "live"
       /\ rtr[api.rid] = [st |-> "live", net |-> api.nid, grp |-> grp.gid]
       /\ gup[grp.gid] \in {"live", "removed"}
       /\ gup[grp.gid] = "live" => gname[grp.gid] = api.nid
EventuallySettled == <>[]Settled

(* The NetworkRouter implements Handle with the network id of its status.  *)
Published == INSTANCE Handle WITH
    Ids <- Nets, id <- api.nid, phase <- api.phase,
    there <- [n \in Nets |-> CASE net[n] = "unused" -> "unused"
                               [] net[n] = "live" -> "live"
                               [] OTHER -> "dead"]
NetworkIsHandle == Published!HandleSpec
=============================================================================
