---------------------------- MODULE OZRoutingPeer ----------------------------
(***************************************************************************)
(* The OZRoutingPeer controller (ozroutingpeer_controller.go).  The        *)
(* routing peers of the model belong to one cluster-wide network: they     *)
(* share its name, the upstream group of that name and the account.        *)
(*                                                                         *)
(* A pass collects ids in memory.  Its deferred function saves them with   *)
(* one status update, also when the pass failed, and overwrites the error  *)
(* with the result of that update; only a crash, or a conflict with        *)
(* another writer of the object, loses them.  Every return asks for        *)
(* another pass, so a request never leaves the work queue and there is no  *)
(* variable for it.  Objects are created with the cleanup finalizer, as    *)
(* the Service controller does.                                            *)
(*                                                                         *)
(* Every Kubernetes object is read from an informer, which lags behind the *)
(* API independently for every kind, and is written at the API, which      *)
(* answers a write that goes by an outdated copy with an error.            *)
(***************************************************************************)
EXTENDS Naturals, FiniteSets

CONSTANTS
    Peers,       \* OZRoutingPeers of the network
    Nets,        \* ids of upstream networks of its name, naturals
    Keys,        \* ids of upstream setup keys, naturals
    Resources,   \* OZResources that Services may create in the network
    Foreign,     \* OZResources of other networks
    Group,       \* id of the upstream group of the network's name
    Manual,      \* groups an administrator may put on the exempt list
    None,        \* no id / no Secret / no running pass
    MaxFaults,   \* bound: passes cut off, calls that answer with an error and
                 \* stale Secret reads; no pass starts from a stale copy after
    MaxEvents    \* bound: actions of users, administrators and Services

ASSUME IdsAssumption == Nets \subseteq Nat /\ Keys \subseteq Nat
ASSUME NoneAssumption == None \notin Nets \cup Keys \cup Peers
ASSUME ForeignAssumption == Foreign \cap Resources = {}
ASSUME GroupAssumption == Group \notin Manual
ASSUME BoundsAssumption ==
    MaxFaults \in Nat /\ MaxEvents \in Nat

VARIABLES
    api,      \* the OZRoutingPeers in the Kubernetes API
    cache,    \* the informer copies
    synced,   \* those whose informer copy has the API's resourceVersion
    group,    \* the OZGroup of every routing peer
    secret,   \* the Secret of every routing peer: the key it holds
    scache,   \* the informer copy of it
    dep,      \* routing peers that have a Deployment
    gcache,   \* the informer copies of the OZGroups
    dcache,   \* routing peers whose Deployment the informer shows
    res,      \* OZResources of the cluster
    rcache,   \* the informer copies of them
    net,      \* upstream networks
    router,   \* the router of every upstream network
    key,      \* upstream setup keys
    exempt,   \* AdmissionExemptGroups in the account's settings
    pc, cur,  \* the running pass and its routing peer
    loc,      \* the pass's copy of it, status included
    fresh,    \* the API still has the resourceVersion the pass read
    acct,     \* the exempt list the pass has read
    gloc,     \* the pass's copy of the OZGroup, in handleDelete
    todo,     \* OZResources that handleDelete has yet to delete
    lapses,   \* passes that ended without saving what they collected
    missed,   \* routing peers whose latest deletion pass from a current copy
              \* was not shown a Deployment or an OZGroup that exists
    fails, events

vars == <<api, cache, synced, group, secret, scache, dep, gcache, dcache,
          res, rcache, net, router, key, exempt, pc, cur, loc, fresh, acct,
          gloc, todo, lapses, missed, fails, events>>
objects == <<api, cache, synced>>
owned == <<group, secret, scache, dep, gcache, dcache>>
cluster == <<res, rcache>>
upstream == <<net, router, key, exempt>>
pass == <<pc, cur, loc, fresh, acct, gloc, todo>>
bounds == <<lapses, missed, fails, events>>

-----------------------------------------------------------------------------
(* exempt: spec.exemptFromAdmission; net, key, router: the ids in the      *)
(* status (of the router only that there is one); ready: the condition.    *)
Objects == [phase : {"live", "deleting", "gone"}, exempt : BOOLEAN,
            net : Nets \cup {None}, key : Keys \cup {None},
            router : BOOLEAN, ready : BOOLEAN]
Created == [phase |-> "live", exempt |-> TRUE, net |-> None, key |-> None,
            router |-> FALSE, ready |-> FALSE]
Absent == [Created EXCEPT !.phase = "gone"]

(* The OZGroup: whether its controller has bound it to the upstream group, *)
(* and the routing peer's finalizer on it.                                 *)
GroupObjects == [state : {"none", "new", "bound"}, fin : BOOLEAN]
NoGroup == [state |-> "none", fin |-> FALSE]

(* An OZResource and the network it names; a foreign one names no id.      *)
ResStates == [state : {"none", "live", "deleting"}, net : Nets \cup {None}]
AllResources == Resources \cup Foreign

Pcs == {"idle", "network", "createNet", "group", "key", "create", "secret",
        "revoked", "checkSecret", "lostKey", "router", "exempt", "setExempt",
        "deployment", "save", "delDeployment", "delKey", "listResources",
        "delResources", "delNetwork", "release", "unexempt", "setUnexempt",
        "dropFin"}

TypeOK ==
    /\ api \in [Peers -> Objects]
    /\ cache \in [Peers -> Objects]
    /\ loc \in Objects
    /\ synced \subseteq Peers
    /\ group \in [Peers -> GroupObjects]
    /\ secret \in [Peers -> Keys \cup {None}]
    /\ scache \in [Peers -> Keys \cup {None}]
    /\ dep \subseteq Peers
    /\ gcache \in [Peers -> GroupObjects]
    /\ dcache \subseteq Peers
    /\ res \in [AllResources -> ResStates]
    /\ rcache \in [AllResources -> ResStates]
    /\ net \in [Nets -> {"unused", "live", "gone"}]
    /\ router \in [Nets -> {"none", "ok", "changed"}]
    /\ key \in [Keys -> {"unused", "valid", "revoked", "gone"}]
    /\ exempt \subseteq Manual \cup {Group}
    /\ acct \subseteq Manual \cup {Group}
    /\ pc \in Pcs
    /\ cur \in Peers \cup {None}
    /\ fresh \in BOOLEAN
    /\ gloc \in GroupObjects
    /\ todo \subseteq AllResources
    /\ lapses \in Nat
    /\ missed \subseteq Peers
    /\ fails \in 0..MaxFaults
    /\ events \in 0..MaxEvents

Init ==
    /\ api = [p \in Peers |-> Created]
    /\ cache = [p \in Peers |-> Created]
    /\ synced = Peers
    /\ group = [p \in Peers |-> NoGroup]
    /\ secret = [p \in Peers |-> None]
    /\ scache = [p \in Peers |-> None]
    /\ dep = {}
    /\ gcache = [p \in Peers |-> NoGroup]
    /\ dcache = {}
    /\ res = [r \in AllResources |->
                [state |-> IF r \in Foreign THEN "live" ELSE "none", net |-> None]]
    /\ rcache = res
    /\ net = [n \in Nets |-> "unused"]
    /\ router = [n \in Nets |-> "none"]
    /\ key = [k \in Keys |-> "unused"]
    /\ exempt = {}
    /\ pc = "idle" /\ cur = None /\ loc = Absent /\ fresh = FALSE /\ acct = {}
    /\ gloc = NoGroup /\ todo = {}
    /\ lapses = 0 /\ missed = {} /\ fails = 0 /\ events = 0

-----------------------------------------------------------------------------
(* The reconcile pass of a live object.                                    *)

EndPass == /\ pc' = "idle" /\ cur' = None /\ loc' = Absent
           /\ fresh' = FALSE /\ acct' = {} /\ gloc' = NoGroup /\ todo' = {}

Goto(label) == pc' = label /\ UNCHANGED <<cur, loc, fresh, acct, gloc, todo>>

(* The pass goes on with a changed copy.                                   *)
With(o, label) == /\ loc' = o
                  /\ pc' = label
                  /\ UNCHANGED <<cur, fresh, acct, gloc, todo>>

(* The steps whose errors leave the condition as it was.                   *)
Silent == {"exempt", "setExempt", "delDeployment", "delKey", "listResources",
           "delResources", "delNetwork", "release", "unexempt", "setUnexempt"}

(* The pass gives up with an error; the deferred function still saves.     *)
(* Some errors around the Secret set the condition, some leave it.         *)
Failed == \E r \in {FALSE, loc.ready} :
    /\ pc \in Silent => r = loc.ready
    /\ pc \in Silent \cup {"secret"} \/ ~r
    /\ With([loc EXCEPT !.ready = r], "save")

(* One more fault may happen.                                              *)
Faulty == lapses + fails < MaxFaults

Start(p) ==
    /\ pc = "idle"
    /\ cache[p].phase # "gone"
    /\ Faulty \/ p \in synced
    /\ cur' = p
    /\ loc' = cache[p]
    /\ fresh' = (p \in synced)
    /\ pc' = CASE cache[p].phase = "deleting" -> "delDeployment"
               [] cache[p].phase = "live" /\ cache[p].net = None -> "network"
               [] OTHER -> "group"
    /\ UNCHANGED <<acct, gloc, todo, objects, owned, cluster, upstream, bounds>>

(* The service hands out the next id.                                      *)
Next1(S, state, i) == /\ i \in S /\ state[i] = "unused"
                      /\ \A j \in S : state[j] = "unused" => i <= j
LiveNets == {n \in Nets : net[n] = "live"}

(* Mutant: the network is created without looking for one of its name.     *)
ListNetworksBlind ==
    /\ pc = "network"
    /\ Goto("createNet")
    /\ UNCHANGED <<objects, owned, cluster, upstream, bounds>>

(* handleNetwork lists the networks and takes the one of its name ...      *)
ListNetworks ==
    /\ pc = "network"
    /\ \/ \E n \in LiveNets : With([loc EXCEPT !.net = n], "group")
       \/ LiveNets = {} /\ Goto("createNet")
    /\ UNCHANGED <<objects, owned, cluster, upstream, bounds>>

(* ... and creates it in a second call if there was none; the operator's   *)
(* single worker is the only one that creates networks.                    *)
CreateNetwork ==
    /\ pc = "createNet"
    /\ \E n \in Nets : /\ Next1(Nets, net, n)
                       /\ net' = [net EXCEPT ![n] = "live"]
                       /\ With([loc EXCEPT !.net = n], "group")
    /\ UNCHANGED <<objects, owned, cluster, router, key, exempt, bounds>>

(* Creates the OZGroup if the informer has none, or waits until it shows   *)
(* that its controller has bound it.  One that exists already is an error. *)
HandleGroup ==
    /\ pc = "group"
    /\ \/ /\ gcache[cur].state = "none" /\ group[cur].state = "none"
          /\ group' = [group EXCEPT ![cur] = [state |-> "new", fin |-> TRUE]]
          /\ Goto("save")
       \/ /\ gcache[cur].state = "none" /\ group[cur].state # "none"
          /\ Failed
          /\ UNCHANGED group
       \/ /\ gcache[cur].state = "new"
          /\ Goto("save")
          /\ UNCHANGED group
       \/ /\ gcache[cur].state = "bound"
          /\ Goto(IF loc.key = None THEN "create" ELSE "key")
          /\ UNCHANGED group
    /\ UNCHANGED <<objects, secret, scache, dep, gcache, dcache, cluster, upstream,
                   bounds>>

CreateKey ==
    /\ pc = "create"
    /\ \E k \in Keys : /\ Next1(Keys, key, k)
                       /\ key' = [key EXCEPT ![k] = "valid"]
                       /\ With([loc EXCEPT !.key = k], "secret")
    /\ UNCHANGED <<objects, owned, cluster, net, router, exempt, bounds>>

(* Creates the Secret; one that exists is read from the cache and updated, *)
(* which fails when the cache is behind.                                   *)
WriteSecret ==
    /\ pc = "secret"
    /\ IF secret[cur] # None /\ scache[cur] # secret[cur]
         THEN /\ Failed
              /\ Faulty
              /\ fails' = fails + 1
              /\ UNCHANGED secret
         ELSE /\ secret' = [secret EXCEPT ![cur] = loc.key]
              /\ Goto("router")
              /\ UNCHANGED fails
    /\ UNCHANGED <<objects, group, scache, dep, gcache, dcache, cluster, upstream,
                   lapses, missed, events>>

(* Mutant: a revoked key is not told from a valid one.                     *)
CheckKeyLenient ==
    /\ pc = "key"
    /\ \/ key[loc.key] # "gone" /\ Goto("checkSecret")
       \/ key[loc.key] = "gone" /\ With([loc EXCEPT !.key = None], "save")
    /\ UNCHANGED <<objects, owned, cluster, upstream, bounds>>

(* SetupKeys.Get: a key that is gone is forgotten and the pass requeued.   *)
CheckKey ==
    /\ pc = "key"
    /\ \/ key[loc.key] = "valid" /\ Goto("checkSecret")
       \/ key[loc.key] = "revoked" /\ Goto("revoked")
       \/ key[loc.key] = "gone" /\ With([loc EXCEPT !.key = None], "save")
    /\ UNCHANGED <<objects, owned, cluster, upstream, bounds>>

CheckSecret ==
    /\ pc = "checkSecret"
    /\ \/ scache[cur] = secret[cur] /\ UNCHANGED fails
       \/ scache[cur] # secret[cur] /\ Faulty /\ fails' = fails + 1
    /\ Goto(IF scache[cur] = None THEN "lostKey" ELSE "router")
    /\ UNCHANGED <<objects, owned, cluster, upstream, lapses, missed, events>>

(* Mutant: the id is cleared for regeneration without deleting the key.    *)
ForgetKey ==
    /\ pc \in {"revoked", "lostKey"}
    /\ With([loc EXCEPT !.key = None, !.ready = FALSE], "save")
    /\ UNCHANGED <<objects, owned, cluster, upstream, bounds>>

(* A revoked key, or one whose Secret is gone, is deleted and replaced in  *)
(* the next pass; not found is an error here.                              *)
DeleteBadKey ==
    /\ pc \in {"revoked", "lostKey"}
    /\ IF key[loc.key] = "gone"
         THEN Failed /\ UNCHANGED key
         ELSE /\ key' = [key EXCEPT ![loc.key] = "gone"]
              /\ With([loc EXCEPT !.key = None,
                                  !.ready = (@ /\ pc = "revoked")], "save")
    /\ UNCHANGED <<objects, owned, cluster, net, router, exempt, bounds>>

(* Routers.List, then create, adopt or correct the first router.  Listing  *)
(* the routers of a network that is gone fails.                            *)
HandleRouter ==
    /\ pc = "router"
    /\ \/ /\ net[loc.net] = "gone"
          /\ Failed
          /\ UNCHANGED router
       \/ /\ net[loc.net] = "live"
          /\ With([loc EXCEPT !.router = TRUE], "exempt")
          /\ router' = IF router[loc.net] = "none" \/ loc.router
                         THEN [router EXCEPT ![loc.net] = "ok"] ELSE router
    /\ UNCHANGED <<objects, owned, cluster, net, key, exempt, bounds>>

(* handleAdmissionExempt reads the account ...                             *)
ReadExempt ==
    /\ pc = "exempt"
    /\ acct' = exempt
    /\ pc' = IF loc.exempt = (Group \in exempt) THEN "deployment" ELSE "setExempt"
    /\ UNCHANGED <<cur, loc, fresh, gloc, todo, objects, owned, cluster, upstream,
                   bounds>>

(* ... and writes all settings back, with the group added or removed.      *)
UpdateExempt ==
    /\ pc = "setExempt"
    /\ exempt' = IF loc.exempt THEN acct \cup {Group} ELSE acct \ {Group}
    /\ Goto("deployment")
    /\ UNCHANGED <<objects, owned, cluster, net, router, key, bounds>>

(* Creates the Deployment if the informer has none, and patches it         *)
(* otherwise; the pass has succeeded.  One that exists already is an error.*)
HandleDeployment ==
    /\ pc = "deployment"
    /\ IF cur \in dep \ dcache
         THEN Failed /\ UNCHANGED dep
         ELSE dep' = dep \cup {cur} /\ With([loc EXCEPT !.ready = TRUE], "save")
    /\ UNCHANGED <<objects, group, secret, scache, gcache, dcache, cluster, upstream,
                   bounds>>

(* Mutant: a cleared id is saved as a zero value.                          *)
SaveStatusZero ==
    /\ pc = "save"
    /\ api' = [api EXCEPT ![cur].net = loc.net, ![cur].router = loc.router,
                          ![cur].key = IF loc.key = None THEN 0 ELSE loc.key,
                          ![cur].ready = loc.ready]
    /\ synced' = synced \ {cur}
    /\ EndPass
    /\ UNCHANGED <<cache, owned, cluster, upstream, bounds>>

(* The deferred Status().Update.  Conditions carry the current time and    *)
(* ids are compared as pointers, so there is always something to save.     *)
SaveStatus ==
    /\ pc = "save"
    /\ \/ /\ fresh
          /\ api' = [api EXCEPT ![cur] = [@ EXCEPT !.net = loc.net, !.key = loc.key,
                                !.router = loc.router, !.ready = loc.ready]]
          /\ synced' = synced \ {cur}
          /\ UNCHANGED lapses
       \/ /\ ~fresh
          /\ lapses' = lapses + 1
          /\ UNCHANGED <<api, synced>>
    /\ EndPass
    /\ UNCHANGED <<cache, owned, cluster, upstream, missed, fails, events>>

-----------------------------------------------------------------------------
(* handleDelete.                                                           *)

(* A Deployment that the informer shows is deleted, and an error if it is  *)
(* gone by then; one that the informer does not show yet is passed over.   *)
DeleteDeployment ==
    /\ pc = "delDeployment"
    /\ IF cur \in dcache \ dep
         THEN Failed /\ UNCHANGED <<dep, missed>>
         ELSE /\ dep' = dep \ ({cur} \cap dcache)
              /\ missed' = IF fresh THEN (missed \ {cur}) \cup ({cur} \cap (dep \ dcache))
                                    ELSE missed
              /\ Goto("delKey")
    /\ UNCHANGED <<objects, group, secret, scache, gcache, dcache, cluster, upstream,
                   lapses, fails, events>>

(* Behind the key, handleDelete reads the OZGroup that it works on later.  *)
ReadGroup ==
    /\ gloc' = gcache[cur]
    /\ missed' = IF fresh /\ gcache[cur].state = "none" /\ group[cur].state # "none"
                   THEN missed \cup {cur} ELSE missed
    /\ loc' = [loc EXCEPT !.key = None]
    /\ pc' = IF loc.net = None THEN "release" ELSE "listResources"
    /\ UNCHANGED <<cur, fresh, acct, todo>>

(* Mutant: a key that is already gone is an error.                         *)
DeleteKeyStrict ==
    /\ pc = "delKey"
    /\ IF \E k \in Keys : k = loc.key /\ key[k] = "gone"
         THEN Failed /\ UNCHANGED <<key, missed>>
         ELSE /\ key' = [k \in Keys |-> IF k = loc.key THEN "gone" ELSE key[k]]
              /\ ReadGroup
    /\ UNCHANGED <<objects, owned, cluster, net, router, exempt, lapses, fails, events>>

(* SetupKeys.Delete of the key in the status; not found is no error here.  *)
DeleteKey ==
    /\ pc = "delKey"
    /\ key' = [k \in Keys |-> IF k = loc.key THEN "gone" ELSE key[k]]
    /\ ReadGroup
    /\ UNCHANGED <<objects, owned, cluster, net, router, exempt, lapses, fails, events>>

Listed == {r \in AllResources : rcache[r].state # "none"}

(* Lists the OZResources; the network itself only goes when the informer   *)
(* shows no OZResource in the whole cluster.                               *)
ListResources ==
    /\ pc = "listResources"
    /\ todo' = {r \in Listed : rcache[r].net = loc.net}
    /\ pc' = IF Listed = {} THEN "delNetwork" ELSE "delResources"
    /\ UNCHANGED <<cur, loc, fresh, acct, gloc, objects, owned, cluster, upstream,
                   bounds>>

(* Deletes those of the network one by one, by name; one that is gone by   *)
(* then is an error.                                                       *)
DeleteResources ==
    /\ pc = "delResources"
    /\ \/ /\ todo = {}
          /\ Goto("release")
          /\ UNCHANGED res
       \/ \E r \in todo :
            IF res[r].state = "none"
              THEN Failed /\ UNCHANGED res
              ELSE /\ res' = [res EXCEPT ![r].state = "deleting"]
                   /\ todo' = todo \ {r}
                   /\ UNCHANGED <<pc, cur, loc, fresh, acct, gloc>>
    /\ UNCHANGED <<objects, owned, rcache, upstream, bounds>>

(* Networks.Delete; its router goes with it.                               *)
DeleteNetwork ==
    /\ pc = "delNetwork"
    /\ net' = [net EXCEPT ![loc.net] = "gone"]
    /\ router' = [router EXCEPT ![loc.net] = "none"]
    /\ With([loc EXCEPT !.net = None, !.router = FALSE], "release")
    /\ UNCHANGED <<objects, owned, cluster, key, exempt, bounds>>

(* Mutant: the finalizer goes although the network had to be kept.         *)
AfterExemptEager == "dropFin"

(* A network that could not be deleted yet: status and another pass.       *)
AfterExempt == IF loc.net = None THEN "dropFin" ELSE "save"

AfterGroup == IF gloc.state = "bound" THEN "unexempt" ELSE AfterExempt

(* Takes the routing peer's finalizer off the OZGroup that was read behind *)
(* the key; an OZGroup that has changed since is an error, one that was    *)
(* not there is passed over.                                               *)
ReleaseGroup ==
    /\ pc = "release"
    /\ \/ /\ gloc.fin /\ gloc = group[cur]
          /\ group' = [group EXCEPT ![cur].fin = FALSE]
          /\ Goto(AfterGroup)
       \/ /\ gloc.fin /\ gloc # group[cur]
          /\ Failed
          /\ UNCHANGED group
       \/ /\ ~gloc.fin
          /\ Goto(AfterGroup)
          /\ UNCHANGED group
    /\ UNCHANGED <<objects, secret, scache, dep, gcache, dcache, cluster, upstream,
                   bounds>>

(* removeAdmissionExempt, a read and a write of all settings.              *)
ReadUnexempt ==
    /\ pc = "unexempt"
    /\ acct' = exempt
    /\ pc' = IF Group \in exempt THEN "setUnexempt" ELSE AfterExempt
    /\ UNCHANGED <<cur, loc, fresh, gloc, todo, objects, owned, cluster, upstream,
                   bounds>>

UpdateUnexempt ==
    /\ pc = "setUnexempt"
    /\ exempt' = acct \ {Group}
    /\ Goto(AfterExempt)
    /\ UNCHANGED <<objects, owned, cluster, net, router, key, bounds>>

(* Update without finalizers; after it the deferred function saves         *)
(* nothing, and a conflict is an error.                                    *)
DropFinalizer ==
    /\ pc = "dropFin"
    /\ api' = IF fresh THEN [api EXCEPT ![cur] = Absent] ELSE api
    /\ synced' = IF fresh THEN synced \ {cur} ELSE synced
    /\ EndPass
    /\ UNCHANGED <<cache, owned, cluster, upstream, bounds>>

-----------------------------------------------------------------------------
(* Faults.                                                                 *)

(* The next call answers with an error; what the pass has collected is     *)
(* saved.                                                                  *)
Fail ==
    /\ pc \notin {"idle", "save", "dropFin"}
    /\ Faulty
    /\ fails' = fails + 1
    /\ Failed
    /\ UNCHANGED <<objects, owned, cluster, upstream, lapses, missed, events>>

(* The operator crashes, or the final update itself fails.                 *)
Abort ==
    /\ pc # "idle"
    /\ Faulty
    /\ lapses' = lapses + 1
    /\ EndPass
    /\ UNCHANGED <<objects, owned, cluster, upstream, missed, fails, events>>

-----------------------------------------------------------------------------
(* The environment.                                                        *)

CacheSync(p) ==
    /\ p \notin synced
    /\ cache' = [cache EXCEPT ![p] = api[p]]
    /\ synced' = synced \cup {p}
    /\ UNCHANGED <<api, owned, cluster, upstream, pass, bounds>>

SecretSync(p) ==
    /\ scache[p] # secret[p]
    /\ scache' = [scache EXCEPT ![p] = secret[p]]
    /\ UNCHANGED <<objects, group, secret, dep, gcache, dcache, cluster, upstream,
                   pass, bounds>>

GroupSync(p) ==
    /\ gcache[p] # group[p]
    /\ gcache' = [gcache EXCEPT ![p] = group[p]]
    /\ UNCHANGED <<objects, group, secret, scache, dep, dcache, cluster, upstream,
                   pass, bounds>>

DeploymentSync ==
    /\ dcache # dep
    /\ dcache' = dep
    /\ UNCHANGED <<objects, group, secret, scache, dep, gcache, cluster, upstream,
                   pass, bounds>>

ResourceSync ==
    /\ rcache # res
    /\ rcache' = res
    /\ UNCHANGED <<objects, owned, res, upstream, pass, bounds>>

(* The OZGroup controller binds the OZGroup to the upstream group.         *)
GroupBinds(p) ==
    /\ group[p].state = "new"
    /\ group' = [group EXCEPT ![p].state = "bound"]
    /\ UNCHANGED <<objects, secret, scache, dep, gcache, dcache, cluster, upstream,
                   pass, bounds>>

(* The OZResource controller finishes the deletion of a resource.          *)
ResourceGone(r) ==
    /\ res[r].state = "deleting"
    /\ res' = [res EXCEPT ![r] = [state |-> "none", net |-> None]]
    /\ UNCHANGED <<objects, owned, rcache, upstream, pass, bounds>>

Event == events < MaxEvents /\ events' = events + 1
         /\ UNCHANGED <<cache, pc, cur, loc, acct, gloc, todo, gcache, dcache,
                        rcache, lapses, missed, fails>>

(* exposeService: an OZResource in the network of the routing peer as the  *)
(* cache shows it, also when that is being deleted.                        *)
ServiceExposes(p, r) ==
    /\ Event
    /\ cache[p].phase # "gone" /\ cache[p].net # None
    /\ res[r].state = "none"
    /\ res' = [res EXCEPT ![r] = [state |-> "live", net |-> cache[p].net]]
    /\ UNCHANGED <<api, synced, fresh, group, secret, scache, dep, upstream>>

(* hideService, or the user, deletes an OZResource.                        *)
ResourceDeleted(r) ==
    /\ Event
    /\ res[r].state = "live"
    /\ res' = [res EXCEPT ![r].state = "deleting"]
    /\ UNCHANGED <<api, synced, fresh, group, secret, scache, dep, upstream>>

UserWrites(p, o) ==
    /\ Event
    /\ api[p].phase = "live"
    /\ api' = [api EXCEPT ![p] = o]
    /\ synced' = synced \ {p}
    /\ fresh' = (fresh /\ p # cur)
    /\ UNCHANGED <<group, secret, scache, dep, res, upstream>>

UserDelete(p) == UserWrites(p, [api[p] EXCEPT !.phase = "deleting"])
UserToggles(p) == UserWrites(p, [api[p] EXCEPT !.exempt = ~@])

UserDeletesSecret(p) ==
    /\ Event
    /\ secret[p] # None
    /\ secret' = [secret EXCEPT ![p] = None]
    /\ UNCHANGED <<api, synced, fresh, group, scache, dep, res, upstream>>

AdminChangesKey(k, s) ==
    /\ Event
    /\ key[k] = "valid"
    /\ key' = [key EXCEPT ![k] = s]
    /\ UNCHANGED <<api, synced, fresh, group, secret, scache, dep, res, net, router, exempt>>

AdminChangesRouter(n, s) ==
    /\ Event
    /\ router[n] = "ok"
    /\ router' = [router EXCEPT ![n] = s]
    /\ UNCHANGED <<api, synced, fresh, group, secret, scache, dep, res, net, key, exempt>>

AdminEditsAccount(m) ==
    /\ Event
    /\ exempt' = IF m \in exempt THEN exempt \ {m} ELSE exempt \cup {m}
    /\ UNCHANGED <<api, synced, fresh, group, secret, scache, dep, res, net, router, key>>

Done ==
    /\ \A p \in Peers : cache[p].phase = "gone"
    /\ pc = "idle"
    /\ UNCHANGED vars

-----------------------------------------------------------------------------
Work == \/ ListNetworks \/ CreateNetwork \/ HandleGroup \/ CreateKey
        \/ WriteSecret \/ CheckKey \/ CheckSecret \/ DeleteBadKey
        \/ HandleRouter \/ ReadExempt \/ UpdateExempt \/ HandleDeployment
        \/ SaveStatus \/ DeleteDeployment \/ DeleteKey \/ ListResources
        \/ DeleteResources \/ DeleteNetwork \/ ReleaseGroup \/ ReadUnexempt
        \/ UpdateUnexempt \/ DropFinalizer

Delivery == \/ \E p \in Peers : \/ CacheSync(p) \/ SecretSync(p)
                               \/ GroupSync(p) \/ GroupBinds(p)
            \/ DeploymentSync \/ ResourceSync
            \/ \E r \in AllResources : ResourceGone(r)

Environment ==
    \/ \E p \in Peers : \/ UserDelete(p) \/ UserToggles(p) \/ UserDeletesSecret(p)
                        \/ \E r \in Resources : ServiceExposes(p, r)
    \/ \E r \in AllResources : ResourceDeleted(r)
    \/ \E k \in Keys, s \in {"revoked", "gone"} : AdminChangesKey(k, s)
    \/ \E n \in Nets, s \in {"none", "changed"} : AdminChangesRouter(n, s)
    \/ \E m \in Manual : AdminEditsAccount(m)

Next == \/ \E p \in Peers : Start(p)
        \/ Work \/ Fail \/ Abort \/ Delivery \/ Environment \/ Done

Spec == Init /\ [][Next]_vars

(* A pass is carried through, every routing peer gets its turn between     *)
(* passes, watches deliver, and the OZGroup and OZResource controllers     *)
(* finish their part.                                                      *)
Fairness ==
    /\ WF_vars(Work)
    /\ \A p \in Peers : /\ SF_vars(Start(p))
                        /\ WF_vars(CacheSync(p))
                        /\ WF_vars(SecretSync(p))
                        /\ WF_vars(GroupSync(p))
                        /\ WF_vars(GroupBinds(p))
    /\ WF_vars(DeploymentSync) /\ WF_vars(ResourceSync)
    /\ \A r \in AllResources : WF_vars(ResourceGone(r))

FairSpec == Spec /\ Fairness

-----------------------------------------------------------------------------
(* Properties.                                                             *)

(* Whatever passes are cut off between Networks.Create and the status      *)
(* update, and however many routing peers want it, the operator never has  *)
(* two networks of the name upstream.                                      *)
OneNetwork == Cardinality(LiveNets) <= 1

Exists(k) == key[k] \in {"valid", "revoked"}
Tracked == {loc.key} \cup {api[p].key : p \in Peers}

(* Setup keys let peers join the network: one that no status and no        *)
(* running pass knows is paid for by a pass that could not save, replaced  *)
(* and revoked keys and deletion included.                                 *)
KeyLeaksAccounted ==
    Cardinality({k \in Keys : Exists(k) /\ k \notin Tracked}) <= lapses

(* The finalizer is the last to go: when every pass could save its status, *)
(* routing peers that are gone have left no network and no entry on the    *)
(* exempt list, although calls failed, Services kept adding resources and  *)
(* every informer lagged.  Nor have they left a Deployment or a finalizer  *)
(* on an OZGroup, except one that exists and that the informers did not    *)
(* show to the very pass that dropped the finalizer.                       *)
TeardownComplete ==
    lapses = 0 /\ (\A p \in Peers : api[p].phase = "gone") =>
        /\ LiveNets = {}
        /\ Group \notin exempt
        /\ \A p \in Peers \ missed : p \notin dep /\ ~group[p].fin

(* Every fault, revocation, lost Secret or changed router is repaired: in  *)
(* the end a live routing peer is ready with a valid key, a Secret, a      *)
(* Deployment, a correct router and its group on or off the exempt list.   *)
Ready(p) ==
    /\ api[p].ready
    /\ api[p].key # None /\ key[api[p].key] = "valid"
    /\ secret[p] # None
    /\ p \in dep
    /\ api[p].net \in LiveNets /\ router[api[p].net] = "ok"
    /\ api[p].exempt = (Group \in exempt)
EventuallyReady == <>[](\A p \in Peers : api[p].phase = "live" => Ready(p))

(* Deletion ends, once the OZResources of other networks are gone too: the *)
(* code waits for every OZResource in the cluster.                         *)
DeletionCompletes ==
    \A p \in Peers : api[p].phase = "deleting" ~>
        (api[p].phase = "gone" \/ \E r \in Foreign : res[r].state # "none")

(* "regenerate if invalid": the Secret that the Deployment mounts ends up  *)
(* with the key that the status names and the controller watches over.     *)
SecretHoldsKey ==
    <>[](\A p \in Peers : api[p].phase = "live" => secret[p] = api[p].key)
=============================================================================
