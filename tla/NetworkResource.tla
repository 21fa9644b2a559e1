--------------------------- MODULE NetworkResource ---------------------------
(***************************************************************************)
(* The v1alpha1 NetworkResource controller (networkresource_controller.go) *)
(* for one NetworkResource from its creation to its removal: it keeps a    *)
(* resource in the network of the NetworkRouter it refers to, and a DNS    *)
(* record in that router's zone, both with the ClusterIP of a Service.     *)
(*                                                                         *)
(* The NetworkRouter is any behaviour of Handle, which NetworkRouter.tla   *)
(* implements; its network may vanish, be replaced, and be replaced while  *)
(* it still exists.  Nothing is requeued after a success or for a missing  *)
(* dependency: the watches of routers and Services bring the object back.  *)
(***************************************************************************)
EXTENDS Naturals, FiniteSets

CONSTANTS
    Nets,        \* ids of networks, in the order they are handed out
    Resources,   \* ids of network resources, likewise
    Records,     \* ids of DNS records, likewise
    Zones,       \* DNS zones a NetworkRouter can refer to
    Unknown,     \* those of them that the management service does not have
    IPs,         \* ClusterIPs of the Service
    None,        \* no id, no usable Service
    MaxLapses,   \* bound: passes cut off or started from an outdated copy
    MaxEvents    \* bound: changes of the Service, the router and by administrators

ASSUME IdsAssumption == Nets \cup Resources \cup Records \subseteq Nat
ASSUME NoneAssumption == None \notin IPs \cup Zones \cup Nets \cup Resources \cup Records
ASSUME ChoicesAssumption == Unknown \subseteq Zones /\ Zones # Unknown /\ IPs # {}
ASSUME BoundsAssumption == MaxLapses \in Nat /\ MaxEvents \in Nat

VARIABLES
    net,          \* every network in the management service
    rnid, rphase, \* the NetworkRouter: its network id and its phase
    served, zone, \* whether it has a routing peer, and the zone it refers to
    rcache,       \* the informer's copy of it
    left,         \* networks the router has replaced
    svc, scache,  \* the Service's ClusterIP and the informer's copy
    api, cache,   \* the NetworkResource in the API and the informer's copy
    res, rec,     \* network resources and DNS records in the management service
    pc, loc,      \* the running pass and the NetworkResource as it read it
    cur,          \* what the pass has obtained: ip, network, zone, resource, record
    due, lapses, events

rtvars == <<net, rnid, rphase, served, zone, rcache, left>>
svcvars == <<svc, scache>>
ownvars == <<api, cache, res, rec, pc, loc, cur, due>>
vars == <<rtvars, svcvars, ownvars, lapses, events>>

Router == INSTANCE Handle WITH Ids <- Nets, there <- net, id <- rnid,
                               phase <- rphase

-----------------------------------------------------------------------------
Objects == [phase : {"live", "deleting", "gone"}, fin : BOOLEAN,
            nid : Nets \cup {None}, res : Resources \cup {None},
            zid : Zones \cup {None}, rec : Records \cup {None},
            ready : {"unknown", "false", "true"}]
Absent == [phase |-> "gone", fin |-> FALSE, nid |-> None, res |-> None,
           zid |-> None, rec |-> None, ready |-> "unknown"]
Created == [phase |-> "live", fin |-> FALSE, nid |-> None, res |-> None,
            zid |-> None, rec |-> None, ready |-> "unknown"]
Nothing == [ip |-> None, net |-> None, zone |-> None, res |-> None, rec |-> None]
UpStates == {"unused", "live", "removed", "deleted", "lost"}
RouterNow == [found |-> rphase # "gone", nid |-> rnid, served |-> served, zone |-> zone]

TypeOK ==
    /\ net \in [Nets -> {"unused", "live", "dead"}]
    /\ rnid \in Nets \cup {None}
    /\ rphase \in {"live", "deleting", "gone"}
    /\ served \in BOOLEAN
    /\ zone \in Zones
    /\ rcache \in [found : BOOLEAN, nid : Nets \cup {None}, served : BOOLEAN,
                   zone : Zones]
    /\ left \subseteq Nets
    /\ {svc, scache} \subseteq IPs \cup {None}
    /\ {api, cache, loc} \subseteq Objects
    /\ res \in [Resources -> [st : UpStates, net : Nets \cup {None},
                              ip : IPs \cup {None}]]
    /\ rec \in [Records -> [st : UpStates, zone : Zones \cup {None},
                            ip : IPs \cup {None}]]
    /\ pc \in {"idle", "depend", "markFalse", "update", "create", "patchRes",
               "zone", "dropRec", "updateRec", "createRec", "patchReady", "delRes",
               "delRec", "delFin"}
    /\ cur \in [ip : IPs \cup {None}, net : Nets \cup {None},
                zone : Zones \cup {None}, res : Resources \cup {None},
                rec : Records \cup {None}]
    /\ due \in BOOLEAN
    /\ lapses \in 0..MaxLapses
    /\ events \in 0..MaxEvents

Init ==
    /\ Router!HandleInit
    /\ served = FALSE
    /\ zone = CHOOSE z \in Zones \ Unknown : TRUE
    /\ rcache = RouterNow
    /\ left = {}
    /\ svc \in {None, CHOOSE ip \in IPs : TRUE}
    /\ scache = svc
    /\ api = Created
    /\ cache = Absent
    /\ res = [r \in Resources |-> [st |-> "unused", net |-> None, ip |-> None]]
    /\ rec = [r \in Records |-> [st |-> "unused", zone |-> None, ip |-> None]]
    /\ pc = "idle"
    /\ loc = Absent
    /\ cur = Nothing
    /\ due = FALSE
    /\ lapses = 0
    /\ events = 0

-----------------------------------------------------------------------------
(* The reconcile pass.                                                     *)

EndPass(requeue) == /\ pc' = "idle"
                    /\ loc' = Absent
                    /\ cur' = Nothing
                    /\ due' = (due \/ requeue)

Goto(label) == pc' = label /\ UNCHANGED <<loc, cur, due>>

Outdated == \/ cache.res # api.res \/ cache.rec # api.rec
            \/ cache.phase = "live" /\ api.phase = "gone"

Start ==
    /\ pc = "idle"
    /\ due
    /\ lapses < MaxLapses \/ ~Outdated
    /\ lapses' = IF Outdated THEN lapses + 1 ELSE lapses
    /\ due' = FALSE
    /\ \/ cache.phase = "gone" /\ UNCHANGED <<pc, loc>>
       \/ cache.phase = "live" /\ pc' = "depend" /\ loc' = cache
       \/ cache.phase = "deleting" /\ pc' = "delRes" /\ loc' = cache
    /\ UNCHANGED <<rtvars, svcvars, api, cache, res, rec, cur, events>>

(* The Service must exist, be of type ClusterIP and have an address; the   *)
(* router must exist and have a network and a routing peer.  The groups    *)
(* are resolved (failing is Abort) and the finalizer is added in memory.   *)
GetDependencies ==
    /\ pc = "depend"
    /\ LET ok == /\ scache # None
                 /\ rcache.found /\ rcache.nid # None /\ rcache.served IN
         \/ ~ok /\ Goto("markFalse")
         \/ /\ ok
            /\ pc' = IF loc.res = None THEN "create" ELSE "update"
            /\ cur' = [cur EXCEPT !.ip = scache, !.net = rcache.nid,
                                  !.zone = rcache.zone]
            /\ UNCHANGED <<loc, due>>
    /\ UNCHANGED <<rtvars, svcvars, api, cache, res, rec, lapses, events>>

(* MarkFalse(Ready, Dependency); Patch if the condition changed.           *)
MarkFalse ==
    /\ pc = "markFalse"
    /\ \/ loc.ready = "false" /\ EndPass(FALSE) /\ UNCHANGED api
       \/ /\ loc.ready # "false" /\ api.phase # "gone"
          /\ api' = [api EXCEPT !.ready = "false"]
          /\ EndPass(FALSE)
       \/ /\ loc.ready # "false" /\ api.phase = "gone"
          /\ EndPass(TRUE)
          /\ UNCHANGED api
    /\ UNCHANGED <<rtvars, svcvars, cache, res, rec, lapses, events>>

(* Resources(network of the router).Update; not found there: created.      *)
UpdateResource ==
    /\ pc = "update"
    /\ \/ /\ res[loc.res].st = "live" /\ res[loc.res].net = cur.net
          /\ res' = [res EXCEPT ![loc.res].ip = cur.ip]
          /\ cur' = [cur EXCEPT !.res = loc.res]
          /\ pc' = "patchRes"
       \/ /\ res[loc.res].st # "live" \/ res[loc.res].net # cur.net
          /\ pc' = "create"
          /\ UNCHANGED <<res, cur>>
    /\ UNCHANGED <<rtvars, svcvars, api, cache, rec, loc, due, lapses, events>>

(* Mutant: the id in the answer is dropped.                                *)
CreateResourceNoId ==
    /\ pc = "create"
    /\ \/ net[cur.net] # "live" /\ EndPass(TRUE) /\ UNCHANGED res
       \/ /\ net[cur.net] = "live"
          /\ \E r \in Resources :
               /\ res[r].st = "unused"
               /\ res' = [res EXCEPT ![r] = [st |-> "live", net |-> cur.net,
                                             ip |-> cur.ip]]
               /\ cur' = [cur EXCEPT !.res = 0]
          /\ pc' = "patchRes"
          /\ UNCHANGED <<loc, due>>
    /\ UNCHANGED <<rtvars, svcvars, api, cache, rec, lapses, events>>

CreateResource ==
    /\ pc = "create"
    /\ \/ net[cur.net] # "live" /\ EndPass(TRUE) /\ UNCHANGED res
       \/ /\ net[cur.net] = "live"
          /\ \E r \in Resources :
               /\ res[r].st = "unused"
               /\ \A q \in Resources : res[q].st = "unused" => r <= q
               /\ res' = [res EXCEPT ![r] = [st |-> "live", net |-> cur.net,
                                             ip |-> cur.ip]]
               /\ cur' = [cur EXCEPT !.res = r]
          /\ pc' = "patchRes"
          /\ UNCHANGED <<loc, due>>
    /\ UNCHANGED <<rtvars, svcvars, api, cache, rec, lapses, events>>

(* Patch of the finalizer and the ids, as far as they differ from the copy *)
(* read.  Patch writes metadata and status in two calls, one step here: a  *)
(* pass cut off between them leaves the id unsaved, as one cut off before  *)
(* both does.                                                              *)
PatchResource ==
    /\ pc = "patchRes"
    /\ LET same == loc.fin /\ cur.net = loc.nid /\ cur.res = loc.res IN
         \/ same /\ Goto("zone") /\ UNCHANGED api
         \/ /\ ~same /\ api.phase # "gone"
            /\ api' = [api EXCEPT !.fin = TRUE,
                                  !.nid = IF cur.net = loc.nid THEN @ ELSE cur.net,
                                  !.res = IF cur.res = loc.res THEN @ ELSE cur.res]
            /\ Goto("zone")
         \/ ~same /\ api.phase = "gone" /\ EndPass(TRUE) /\ UNCHANGED api
    /\ UNCHANGED <<rtvars, svcvars, cache, res, rec, lapses, events>>

(* DeleteRecord(zone, record); not found is no error.                      *)
DropRecord(z, r) ==
    rec' = IF r # None /\ rec[r].st = "live" /\ rec[r].zone = z
             THEN [rec EXCEPT ![r].st = "deleted"] ELSE rec

(* GetDNSZoneByName; a zone that is not there is an error.                 *)
GetZone ==
    /\ pc = "zone"
    /\ \/ cur.zone \in Unknown /\ EndPass(TRUE)
       \/ cur.zone \notin Unknown /\ loc.zid = cur.zone /\ Goto("updateRec")
       \/ cur.zone \notin Unknown /\ loc.zid = None /\ Goto("createRec")
       \/ cur.zone \notin Unknown /\ loc.zid \notin {None, cur.zone} /\ Goto("dropRec")
    /\ UNCHANGED <<rtvars, svcvars, api, cache, res, rec, lapses, events>>

(* The record of another zone is deleted first.                            *)
DeleteOldRecord ==
    /\ pc = "dropRec"
    /\ DropRecord(loc.zid, loc.rec)
    /\ Goto("createRec")
    /\ UNCHANGED <<rtvars, svcvars, api, cache, res, lapses, events>>

(* UpdateRecord(zone of the status, record); not found: created.           *)
UpdateRecord ==
    /\ pc = "updateRec"
    /\ \/ /\ rec[loc.rec].st = "live" /\ rec[loc.rec].zone = loc.zid
          /\ rec' = [rec EXCEPT ![loc.rec].ip = cur.ip]
          /\ cur' = [cur EXCEPT !.rec = loc.rec]
          /\ pc' = "patchReady"
       \/ /\ rec[loc.rec].st # "live" \/ rec[loc.rec].zone # loc.zid
          /\ pc' = "createRec"
          /\ UNCHANGED <<rec, cur>>
    /\ UNCHANGED <<rtvars, svcvars, api, cache, res, loc, due, lapses, events>>

CreateRecord ==
    /\ pc = "createRec"
    /\ \E r \in Records :
         /\ rec[r].st = "unused"
         /\ \A q \in Records : rec[q].st = "unused" => r <= q
         /\ rec' = [rec EXCEPT ![r] = [st |-> "live", zone |-> cur.zone,
                                       ip |-> cur.ip]]
         /\ cur' = [cur EXCEPT !.rec = r]
    /\ pc' = "patchReady"
    /\ UNCHANGED <<rtvars, svcvars, api, cache, res, loc, due, lapses, events>>

(* Patch of the record's zone and id, Ready and observedGeneration.        *)
PatchReady ==
    /\ pc = "patchReady"
    /\ \/ /\ api.phase # "gone"
          /\ api' = [api EXCEPT !.zid = IF cur.zone = loc.zid THEN @ ELSE cur.zone,
                                !.rec = IF cur.rec = loc.rec THEN @ ELSE cur.rec,
                                !.ready = IF loc.ready = "true" THEN @ ELSE "true"]
          /\ EndPass(FALSE)
       \/ api.phase = "gone" /\ EndPass(TRUE) /\ UNCHANGED api
    /\ UNCHANGED <<rtvars, svcvars, cache, res, rec, lapses, events>>

(* Mutant: the resource is looked up in the router's present network.      *)
DeleteResourceOfRouter ==
    /\ pc = "delRes"
    /\ res' = IF /\ loc.res # None
                 /\ res[loc.res].st = "live" /\ res[loc.res].net = rcache.nid
                THEN [res EXCEPT ![loc.res].st = "deleted"] ELSE res
    /\ Goto("delRec")
    /\ UNCHANGED <<rtvars, svcvars, api, cache, rec, lapses, events>>

(* reconcileDelete, with the network of the status.                        *)
DeleteResource ==
    /\ pc = "delRes"
    /\ res' = IF /\ loc.res # None
                 /\ res[loc.res].st = "live" /\ res[loc.res].net = loc.nid
                THEN [res EXCEPT ![loc.res].st = "deleted"] ELSE res
    /\ Goto("delRec")
    /\ UNCHANGED <<rtvars, svcvars, api, cache, rec, lapses, events>>

DeleteRecord ==
    /\ pc = "delRec"
    /\ DropRecord(loc.zid, loc.rec)
    /\ Goto("delFin")
    /\ UNCHANGED <<rtvars, svcvars, api, cache, res, lapses, events>>

RemoveFinalizer ==
    /\ pc = "delFin"
    /\ api' = Absent
    /\ EndPass(api.phase = "gone")
    /\ UNCHANGED <<rtvars, svcvars, cache, res, rec, lapses, events>>

Abort ==
    /\ pc # "idle"
    /\ lapses < MaxLapses
    /\ lapses' = lapses + 1
    /\ EndPass(TRUE)
    /\ UNCHANGED <<rtvars, svcvars, api, cache, res, rec, events>>

-----------------------------------------------------------------------------
(* The watches.  Routers and Services are mapped to the NetworkResources   *)
(* the cache has for them.                                                 *)

CacheSync ==
    /\ cache # api
    /\ cache' = api
    /\ due' = TRUE
    /\ UNCHANGED <<rtvars, svcvars, api, res, rec, pc, loc, cur, lapses, events>>

RouterSync ==
    /\ rcache # RouterNow
    /\ rcache' = RouterNow
    /\ due' = (due \/ cache.phase # "gone")
    /\ UNCHANGED <<net, rnid, rphase, served, zone, left, svcvars, api, cache, res,
                   rec, pc, loc, cur, lapses, events>>

(* Mutant: a Service that cannot be used is not passed on.                 *)
ServiceSyncUsable ==
    /\ scache # svc
    /\ scache' = svc
    /\ due' = (due \/ (cache.phase # "gone" /\ svc # None))
    /\ UNCHANGED <<rtvars, svc, api, cache, res, rec, pc, loc, cur, lapses, events>>

ServiceSync ==
    /\ scache # svc
    /\ scache' = svc
    /\ due' = (due \/ cache.phase # "gone")
    /\ UNCHANGED <<rtvars, svc, api, cache, res, rec, pc, loc, cur, lapses, events>>

-----------------------------------------------------------------------------
Event == events < MaxEvents /\ events' = events + 1

(* The NetworkRouter, as Handle allows, with the resources of a network    *)
(* that goes.  Every network after the first is an event, and so is a      *)
(* user's deletion of the router.                                          *)
RouterChange ==
    /\ \/ \E n \in Nets : /\ Router!Appear(n)
                          /\ \A m \in Nets : net[m] = "unused" => n <= m
                          /\ \/ (\A m \in Nets : net[m] = "unused") /\ UNCHANGED events
                             \/ (\E m \in Nets : net[m] # "unused") /\ Event
                          /\ UNCHANGED <<served, left, res>>
       \/ \E n \in Nets :
            /\ Router!Disappear(n)
            /\ res' = [r \in Resources |->
                         IF res[r].st = "live" /\ res[r].net = n
                           THEN [res[r] EXCEPT !.st = "lost"] ELSE res[r]]
            /\ UNCHANGED <<served, left, events>>
       \/ \E n \in Nets :
            /\ Router!Publish(n)
            /\ left' = left \cup ({rnid} \ {None})
            /\ UNCHANGED <<served, res, events>>
       \/ Router!Close /\ Event /\ UNCHANGED <<served, left, res>>
       \/ Router!Withdraw /\ served' = FALSE /\ UNCHANGED <<left, res, events>>
       \/ /\ rnid # None /\ ~served /\ served' = TRUE
          /\ UNCHANGED <<net, rnid, rphase, left, res, events>>
    /\ UNCHANGED <<zone, rcache, svcvars, api, cache, rec, pc, loc, cur, due, lapses>>

(* As in NetworkRouter: gone at once without the finalizer.                *)
UserDelete ==
    /\ api.phase = "live"
    /\ \/ /\ api.fin
          /\ api' = [api EXCEPT !.phase = "deleting"]
          /\ UNCHANGED lapses
       \/ /\ ~api.fin
          /\ lapses < MaxLapses \/ pc = "idle"
          /\ lapses' = IF pc = "idle" THEN lapses ELSE lapses + 1
          /\ api' = Absent
    /\ UNCHANGED <<rtvars, svcvars, cache, res, rec, pc, loc, cur, due, events>>

UserChangesService(ip) ==
    /\ Event
    /\ svc # ip
    /\ svc' = ip
    /\ UNCHANGED <<rtvars, scache, ownvars, lapses>>

UserChangesZone(z) ==
    /\ Event
    /\ zone # z /\ rphase # "gone"
    /\ zone' = z
    /\ UNCHANGED <<net, rnid, rphase, served, rcache, left, svcvars, ownvars, lapses>>

AdminRemovesRecord(r) ==
    /\ Event
    /\ rec[r].st = "live"
    /\ rec' = [rec EXCEPT ![r].st = "removed"]
    /\ UNCHANGED <<rtvars, svcvars, api, cache, res, pc, loc, cur, due, lapses>>

-----------------------------------------------------------------------------
Step == \/ Start \/ GetDependencies \/ MarkFalse \/ UpdateResource
        \/ CreateResource \/ PatchResource \/ GetZone \/ DeleteOldRecord
        \/ UpdateRecord \/ CreateRecord \/ PatchReady \/ DeleteResource
        \/ DeleteRecord \/ RemoveFinalizer

Next == \/ Step \/ Abort
        \/ CacheSync \/ RouterSync \/ ServiceSync
        \/ RouterChange \/ UserDelete
        \/ \E ip \in IPs \cup {None} : UserChangesService(ip)
        \/ \E z \in Zones : UserChangesZone(z)
        \/ \E r \in Records : AdminRemovesRecord(r)

Spec == Init /\ [][Next]_vars

(* The worker carries on and the watches deliver; nothing is assumed of    *)
(* the router, users and administrators.                                   *)
Fairness == /\ WF_vars(Step)
            /\ WF_vars(CacheSync)
            /\ WF_vars(RouterSync)
            /\ WF_vars(ServiceSync)

FairSpec == Spec /\ Fairness

-----------------------------------------------------------------------------
(* Properties.                                                             *)

(* What exists in the service although the status does not name it and the *)
(* running pass is not about to record it.  A resource in a network that   *)
(* the router itself has left behind is the router's leak.                 *)
ResourceOrphans ==
    {r \in Resources : /\ res[r].st = "live" /\ r # api.res
                       /\ res[r].net \notin left
                       /\ ~(pc = "patchRes" /\ r = cur.res)}
RecordOrphans ==
    {r \in Records : /\ rec[r].st = "live" /\ r # api.rec
                     /\ ~(pc = "patchReady" /\ r = cur.rec)}

(* The resource is created before the finalizer is saved, the record of an *)
(* old zone is deleted before the new one is recorded: each pass cut off   *)
(* or started from an outdated copy, and a deletion that beats the first   *)
(* patch, leave at most one resource and two records behind; nothing else  *)
(* does.  The second record is due to Patch, which writes only what        *)
(* differs from the copy read: a record made in the zone that an outdated  *)
(* copy names is saved without it, beside the zone of the record it        *)
(* replaces, and is never found again.                                     *)
LeaksAccounted == /\ Cardinality(ResourceOrphans) <= lapses
                  /\ Cardinality(RecordOrphans) <= 2 * lapses

(* Whatever the order in which the Service, the router and the zone        *)
(* change, the watches suffice: in the end Ready is false when a           *)
(* dependency is missing, and otherwise the resource is in the router's    *)
(* network and the record in its zone, both with the Service's address.    *)
(* Three things are left: a record that an administrator removes is not    *)
(* noticed; with a zone that does not exist the passes fail after the      *)
(* resource is up to date; and as long as the router names a network that  *)
(* no longer exists they fail before that, and nothing is said of the      *)
(* resource and the record.                                                *)
Usable == svc # None /\ rphase # "gone" /\ rnid # None /\ served
RecordSettled ==
    \/ zone \in Unknown
    \/ /\ api.ready = "true"
       /\ api.zid = zone
       /\ \/ rec[api.rec] = [st |-> "live", zone |-> zone, ip |-> svc]
          \/ rec[api.rec].st = "removed"
Settled ==
    \/ api.phase = "gone"
    \/ /\ api.phase = "live" /\ ~Usable
       /\ api.ready = "false"
    \/ /\ api.phase = "live" /\ Usable /\ net[rnid] = "live"
       /\ api.nid = rnid
       /\ res[api.res] = [st |-> "live", net |-> rnid, ip |-> svc]
       /\ RecordSettled
    \/ api.phase = "live" /\ Usable /\ net[rnid] = "dead"
EventuallySettled == <>[]Settled
=============================================================================
