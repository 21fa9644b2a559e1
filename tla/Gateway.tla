------------------------------ MODULE Gateway ------------------------------
(***************************************************************************)
(* The Gateway API controllers: GatewayClass, Gateway, HTTPRoute and       *)
(* TCPRoute.  One class, one Gateway over one NetworkRouter, and routes    *)
(* to one Service, whose NetworkResource they all apply and, when they go, *)
(* release or delete.  Finalizers chain the deletions: a class waits for   *)
(* its Gateways, a Gateway for its HTTPRoutes.                             *)
(*                                                                         *)
(* A pass that ends in an error or asks for a requeue is run again, so one *)
(* that changes nothing is no step here.  Informer lag is left out: reads  *)
(* are of the API, and those that a pass makes before its first call of    *)
(* the API are one step.  NetworkRouter and NetworkResource have modules   *)
(* of their own; here they become ready and go away.                       *)
(***************************************************************************)
EXTENDS Integers

CONSTANTS
    Routes,      \* the routes, by name
    HTTPRoutes,  \* those that are HTTPRoutes, each with a hostname of its own
    Setups,      \* ways the class and the Gateway may be written
    MaxProxies,  \* bound: proxy services of one hostname, and their count
    MaxLapses,   \* bound: failed calls and passes cut off
    MaxEvents    \* bound: changes by users

ASSUME RoutesAssumption == HTTPRoutes \subseteq Routes
ASSUME SetupsAssumption ==
    Setups \subseteq {"good", "invalidClass", "foreignClass", "invalidGateway"}
ASSUME BoundsAssumption == {MaxProxies, MaxLapses, MaxEvents} \subseteq Nat /\ MaxProxies > 0

VARIABLES
    setup,
    class, cpc,   \* the GatewayClass, and what its pass is about to do
    gw, gpc,      \* the Gateway, and what its pass is about to do
    router,       \* the NetworkRouter: "absent", "pending", "ready"
    route,        \* the routes
    svc,          \* the Service exists
    nr,           \* its NetworkResource
    pc, due,      \* per route: its pass, and whether one is queued
    seen,         \* per route: the NetworkResource that the pass has read
    listed,       \* per route: the pass has seen a proxy service of its hostname
    proxies,      \* per route: proxy services of its hostname upstream
    creates,      \* per route: how many were ever created, up to MaxProxies
    harm,         \* per route: what has come between it and its NetworkResource
    late,         \* an HTTPRoute got its finalizer after the Gateway's List
    lapses, events

gateway == <<setup, class, cpc, gw, gpc, router>>
world == <<svc, nr>>
upstream == <<proxies, creates>>
pass == <<pc, due, seen, listed>>
history == <<harm, late>>
counts == <<lapses, events>>
vars == <<gateway, world, route, pass, upstream, history, counts>>

-----------------------------------------------------------------------------
Phases == {"none", "live", "deleting", "gone"}
NoResource == [phase |-> "none", owners |-> {}, foreign |-> FALSE, ready |-> FALSE]
Resources == [phase : {"none", "live", "deleting"}, owners : SUBSET Routes,
              foreign : BOOLEAN, ready : BOOLEAN]

(* What may keep a route from being served, or a deletion from ending:     *)
(*   skipped   the last pass left because of the Gateway                   *)
(*   doomed    the last Apply met a NetworkResource that was being deleted *)
(*   replaced  since the last Apply another route became the owner         *)
(*   taken     since the last Apply another route's deletion deleted it    *)
(*   cut       a pass ended with the finalizer saved but before Apply, or  *)
(*             after the release but before the finalizer was removed      *)
Harms == {"skipped", "doomed", "replaced", "taken", "cut"}

TypeOK ==
    /\ setup \in Setups
    /\ class \in [phase : Phases, fin : BOOLEAN, accepted : BOOLEAN]
    /\ gw \in [phase : Phases, fin : BOOLEAN, programmed : BOOLEAN]
    /\ {cpc, gpc} \subseteq {"idle", "unfin"}
    /\ router \in {"absent", "pending", "ready"}
    /\ route \in [Routes -> [phase : Phases, fin : BOOLEAN]]
    /\ svc \in BOOLEAN
    /\ nr \in Resources
    /\ pc \in [Routes -> {"idle", "patch", "apply", "await", "list", "create", "index",
                          "get", "release", "delProxy", "unfin"}]
    /\ {due, listed} \subseteq [Routes -> BOOLEAN]
    /\ seen \in [Routes -> Resources]
    /\ {proxies, creates} \subseteq [Routes -> 0..MaxProxies]
    /\ harm \in [Routes -> SUBSET Harms]
    /\ late \in BOOLEAN
    /\ lapses \in 0..MaxLapses
    /\ events \in 0..MaxEvents

Init ==
    /\ setup \in Setups
    /\ class = [phase |-> "live", fin |-> FALSE, accepted |-> FALSE]
    /\ gw = [phase |-> "live", fin |-> FALSE, programmed |-> FALSE]
    /\ cpc = "idle" /\ gpc = "idle"
    /\ router \in {"absent", "pending"}
    /\ \E live \in SUBSET Routes :
         /\ route = [r \in Routes |-> [phase |-> IF r \in live THEN "live" ELSE "none",
                                       fin |-> FALSE]]
         /\ due = [r \in Routes |-> r \in live]
    /\ svc = TRUE
    /\ nr = NoResource
    /\ pc = [r \in Routes |-> "idle"]
    /\ seen = [r \in Routes |-> NoResource]
    /\ listed = [r \in Routes |-> FALSE]
    /\ proxies = [r \in Routes |-> 0]
    /\ creates = [r \in Routes |-> 0]
    /\ harm = [r \in Routes |-> {}]
    /\ late = FALSE
    /\ lapses = 0
    /\ events = 0

Exists(object) == object.phase \in {"live", "deleting"}

-----------------------------------------------------------------------------
(* GatewayClass.                                                           *)

ClassOurs == Exists(class) /\ setup # "foreignClass"

(* One Patch: the finalizer and Accepted.  A name or parameters that are   *)
(* not supported only give a false condition.                              *)
AcceptClass ==
    /\ ClassOurs /\ class.phase = "live"
    /\ setup # "invalidClass"
    /\ class' = [class EXCEPT !.fin = TRUE, !.accepted = TRUE]
    /\ UNCHANGED <<setup, cpc, gw, gpc, router, world, route, pass, upstream,
                   history, counts>>

(* reconcileDelete: wait until no Gateway names the class, then Patch.     *)
ListGateways ==
    /\ ClassOurs /\ class.phase = "deleting"
    /\ cpc = "idle"
    /\ ~Exists(gw)
    /\ cpc' = "unfin"
    /\ UNCHANGED <<setup, class, gw, gpc, router, world, route, pass, upstream,
                   history, counts>>

ReleaseClass ==
    /\ cpc = "unfin"
    /\ cpc' = "idle"
    /\ class' = [class EXCEPT !.phase = "gone", !.fin = FALSE]
    /\ UNCHANGED <<setup, gw, gpc, router, world, route, pass, upstream,
                   history, counts>>

-----------------------------------------------------------------------------
(* Gateway.                                                                *)

ClassAccepted == ClassOurs /\ class.accepted

(* GetNetworkRouterName: one listener, whose protocol names the kind.      *)
ListenerValid == setup # "invalidGateway"

(* The first Patch: Accepted and the finalizer, unless the listener names  *)
(* no NetworkRouter.                                                       *)
AcceptGateway ==
    /\ ClassAccepted
    /\ gw.phase = "live" /\ ~gw.fin
    /\ ListenerValid
    /\ gw' = [gw EXCEPT !.fin = TRUE]
    /\ UNCHANGED <<setup, class, cpc, gpc, router, world, route, pass, upstream,
                   history, counts>>

(* The second: Programmed, once the NetworkRouter has a Ready condition.   *)
ProgramGateway ==
    /\ ClassAccepted
    /\ gw.phase = "live" /\ gw.fin /\ ~gw.programmed
    /\ router = "ready"
    /\ gw' = [gw EXCEPT !.programmed = TRUE]
    /\ UNCHANGED <<setup, class, cpc, gpc, router, world, route, pass, upstream,
                   history, counts>>

(* A later pass, which the Patch itself, an edit or a resync starts, meets *)
(* a NetworkRouter that was made anew and is not ready yet.                *)
UnprogramGateway ==
    /\ ClassAccepted
    /\ gw.phase = "live" /\ gw.programmed
    /\ router = "pending"
    /\ gw' = [gw EXCEPT !.programmed = FALSE]
    /\ UNCHANGED <<setup, class, cpc, gpc, router, world, route, pass, upstream,
                   history, counts>>

(* Mutant: a Gateway goes whoever refers to it.                            *)
ListNothing ==
    /\ ClassAccepted /\ gw.phase = "deleting"
    /\ gpc = "idle"
    /\ gpc' = "unfin"
    /\ UNCHANGED <<setup, class, cpc, gw, router, world, route, pass, upstream,
                   history, counts>>

(* reconcileDelete: wait until no HTTPRoute refers to it, then Patch.      *)
(* TCPRoutes are not asked for.                                            *)
ListRoutes ==
    /\ ClassAccepted /\ gw.phase = "deleting"
    /\ gpc = "idle"
    /\ \A r \in HTTPRoutes : ~Exists(route[r])
    /\ gpc' = "unfin"
    /\ UNCHANGED <<setup, class, cpc, gw, router, world, route, pass, upstream,
                   history, counts>>

ReleaseGateway ==
    /\ gpc = "unfin"
    /\ gpc' = "idle"
    /\ gw' = [gw EXCEPT !.phase = "gone", !.fin = FALSE]
    /\ UNCHANGED <<setup, class, cpc, router, world, route, pass, upstream,
                   history, counts>>

-----------------------------------------------------------------------------
(* HTTPRoute and TCPRoute.                                                 *)

Goto(r, label) == /\ pc' = [pc EXCEPT ![r] = label]
                  /\ UNCHANGED <<due, seen, listed>>

End(r, again) == /\ pc' = [pc EXCEPT ![r] = "idle"]
                 /\ due' = [due EXCEPT ![r] = @ \/ again]
                 /\ seen' = [seen EXCEPT ![r] = NoResource]
                 /\ listed' = [listed EXCEPT ![r] = FALSE]

SameKind(r, s) == r \in HTTPRoutes <=> s \in HTTPRoutes

(* GetParentGateway finds both objects.                                    *)
ParentFound == Exists(gw) /\ Exists(class)

(* One worker per kind takes a route from its queue and reads the parents  *)
(* and the NetworkRouter.  One that is not there is an error; a Gateway of *)
(* another controller or not yet programmed is passed over, and nothing    *)
(* brings the route back.                                                  *)
StartRoute(r) ==
    /\ due[r]
    /\ \A s \in Routes : SameKind(r, s) => pc[s] = "idle"
    /\ due' = [due EXCEPT ![r] = FALSE]
    /\ \/ /\ route[r].phase = "live" /\ ParentFound
          /\ ~ClassOurs \/ ~gw.programmed
          /\ harm' = [harm EXCEPT ![r] = @ \cup {"skipped"}]
          /\ UNCHANGED pc
       \/ /\ route[r].phase = "live" /\ ParentFound
          /\ ClassOurs /\ gw.programmed /\ router # "absent"
          /\ harm' = [harm EXCEPT ![r] = @ \ {"skipped"}]
          /\ pc' = [pc EXCEPT ![r] = "patch"]
       \/ /\ route[r].phase = "deleting"
          /\ pc' = [pc EXCEPT ![r] = IF r \in HTTPRoutes THEN "index" ELSE "get"]
          /\ UNCHANGED harm
       \/ ~Exists(route[r]) /\ UNCHANGED <<pc, harm>>
    /\ UNCHANGED <<seen, listed, gateway, world, route, upstream, late, counts>>

(* The Patch that saves the finalizer.  It merges, so it also reaches a    *)
(* route that was made anew; its own event queues the route again.         *)
PatchRoute(r) ==
    /\ pc[r] = "patch"
    /\ \/ /\ Exists(route[r])
          /\ route' = [route EXCEPT ![r].fin = TRUE]
          /\ late' = (late \/ (r \in HTTPRoutes /\ (gpc = "unfin" \/ gw.phase = "gone")))
          /\ pc' = [pc EXCEPT ![r] = "apply"]
          /\ due' = [due EXCEPT ![r] = @ \/ ~route[r].fin]
          /\ UNCHANGED <<seen, listed>>
       \/ ~Exists(route[r]) /\ End(r, TRUE) /\ UNCHANGED <<route, late>>
    /\ UNCHANGED <<gateway, world, upstream, harm, counts>>

(* Apply with the Service and this route as owners.  All reconcilers apply *)
(* as one field manager, so the reference of a route that applied before   *)
(* is taken out; references that others made stay.                         *)
Apply(r) ==
    /\ pc[r] = "apply"
    /\ \/ /\ svc
          /\ nr' = IF nr.phase = "none"
                     THEN [NoResource EXCEPT !.phase = "live", !.owners = {r}]
                     ELSE [nr EXCEPT !.owners = {r}]
          /\ harm' = [s \in Routes |->
                        CASE s = r -> IF nr.phase = "deleting" THEN {"doomed"} ELSE {}
                          [] s # r /\ s \in nr.owners -> harm[s] \cup {"replaced"}
                          [] OTHER -> harm[s]]
          /\ IF r \in HTTPRoutes THEN Goto(r, "await") ELSE End(r, FALSE)
       \/ ~svc /\ End(r, TRUE) /\ UNCHANGED <<nr, harm>>
    /\ UNCHANGED <<gateway, svc, route, upstream, late, counts>>

(* HTTPRoute: the NetworkResource must have a Ready condition.             *)
AwaitReady(r) ==
    /\ pc[r] = "await"
    /\ IF nr.ready THEN Goto(r, "list") ELSE End(r, TRUE)
    /\ UNCHANGED <<gateway, world, route, upstream, history, counts>>

ListProxies(r) ==
    /\ pc[r] \in {"list", "index"}
    /\ listed' = [listed EXCEPT ![r] = proxies[r] > 0]
    /\ pc' = [pc EXCEPT ![r] = IF @ = "list" THEN "create" ELSE "get"]
    /\ UNCHANGED <<due, seen, gateway, world, route, upstream, history, counts>>

(* Proxy services that were listed are updated; after that one is created, *)
(* always.  The service may accept a second one for a hostname or not.     *)
CreateProxy(r) ==
    /\ pc[r] = "create"
    /\ \/ /\ proxies[r] < MaxProxies
          /\ proxies' = [proxies EXCEPT ![r] = @ + 1]
          /\ creates' = [creates EXCEPT ![r] = IF @ < MaxProxies THEN @ + 1 ELSE @]
          /\ End(r, FALSE)
       \/ proxies[r] > 0 /\ End(r, TRUE) /\ UNCHANGED upstream
    /\ UNCHANGED <<gateway, world, route, history, counts>>

(* Mutant: a Service that is missing is an error as well.                  *)
GetResourceAndService(r) ==
    /\ pc[r] = "get"
    /\ \/ /\ ParentFound /\ ~ClassOurs
          /\ Goto(r, "unfin")
       \/ /\ ParentFound /\ ClassOurs /\ svc
          /\ Exists(nr) /\ r \in nr.owners
          /\ seen' = [seen EXCEPT ![r] = nr]
          /\ pc' = [pc EXCEPT ![r] = "release"]
          /\ UNCHANGED <<due, listed>>
       \/ /\ ~ParentFound \/ (ClassOurs /\ ~(svc /\ Exists(nr) /\ r \in nr.owners))
          /\ End(r, TRUE)
    /\ UNCHANGED <<gateway, world, route, upstream, history, counts>>

(* reconcileDelete.  A parent, a NetworkResource or an owner reference     *)
(* that is missing is an error; a Service that is missing is passed over,  *)
(* and so is everything under a class of another controller.               *)
GetResource(r) ==
    /\ pc[r] = "get"
    /\ \/ /\ ParentFound /\ ~ClassOurs
          /\ Goto(r, "unfin")
       \/ /\ ParentFound /\ ClassOurs /\ ~svc
          /\ Goto(r, IF r \in HTTPRoutes THEN "delProxy" ELSE "unfin")
       \/ /\ ParentFound /\ ClassOurs /\ svc
          /\ Exists(nr) /\ r \in nr.owners
          /\ seen' = [seen EXCEPT ![r] = nr]
          /\ pc' = [pc EXCEPT ![r] = "release"]
          /\ UNCHANGED <<due, listed>>
       \/ /\ ~ParentFound \/ (ClassOurs /\ svc /\ ~(Exists(nr) /\ r \in nr.owners))
          /\ End(r, TRUE)
    /\ UNCHANGED <<gateway, world, route, upstream, history, counts>>

(* Owners other than the Service are left: Update, which a change since    *)
(* the read makes fail.  None: Delete, whatever has changed.               *)
ReleaseResource(r) ==
    /\ pc[r] = "release"
    /\ LET keep == seen[r].foreign \/ seen[r].owners # {r}
           next == IF r \in HTTPRoutes THEN "delProxy" ELSE "unfin"
       IN \/ /\ keep /\ nr = seen[r]
             /\ nr' = [nr EXCEPT !.owners = @ \ {r}]
             /\ Goto(r, next)
             /\ UNCHANGED harm
          \/ /\ ~keep /\ Exists(nr)
             /\ nr' = [nr EXCEPT !.phase = "deleting"]
             /\ harm' = [s \in Routes |-> IF s # r /\ Exists(route[s])
                                                  THEN harm[s] \cup {"taken"} ELSE harm[s]]
             /\ Goto(r, next)
          \/ /\ (keep /\ nr # seen[r]) \/ (~keep /\ ~Exists(nr))
             /\ End(r, TRUE)
             /\ UNCHANGED <<nr, harm>>
    /\ UNCHANGED <<gateway, svc, route, upstream, late, counts>>

(* Mutant: the proxy service is left.                                      *)
KeepProxy(r) ==
    /\ pc[r] = "delProxy"
    /\ Goto(r, "unfin")
    /\ UNCHANGED <<gateway, world, route, upstream, history, counts>>

(* The index holds one proxy service per hostname.                         *)
DeleteProxy(r) ==
    /\ pc[r] = "delProxy"
    /\ proxies' = IF listed[r] THEN [proxies EXCEPT ![r] = @ - 1] ELSE proxies
    /\ Goto(r, "unfin")
    /\ UNCHANGED <<gateway, world, route, creates, history, counts>>

ReleaseRoute(r) ==
    /\ pc[r] = "unfin"
    /\ route' = [route EXCEPT ![r] = [phase |-> "gone", fin |-> FALSE]]
    /\ End(r, FALSE)
    /\ UNCHANGED <<gateway, world, upstream, history, counts>>

(* Where the end of a pass leaves the next one without an owner reference  *)
(* to remove, or with none to remove any more.                             *)
CutShort(r) == \/ pc[r] = "apply" /\ ~(nr.phase = "live" /\ r \in nr.owners)
               \/ pc[r] \in {"delProxy", "unfin"}
Harmed(r) == IF CutShort(r) THEN harm[r] \cup {"cut"} ELSE harm[r]

Lapse == lapses < MaxLapses /\ lapses' = lapses + 1

(* A call fails.                                                           *)
Abort(r) ==
    /\ pc[r] # "idle"
    /\ Lapse
    /\ harm' = [harm EXCEPT ![r] = Harmed(r)]
    /\ End(r, TRUE)
    /\ UNCHANGED <<gateway, world, route, upstream, late, events>>

(* The operator stops and starts again: every object is queued.            *)
Restart ==
    /\ Lapse
    /\ cpc' = "idle" /\ gpc' = "idle"
    /\ pc' = [r \in Routes |-> "idle"]
    /\ due' = [r \in Routes |-> Exists(route[r])]
    /\ seen' = [r \in Routes |-> NoResource]
    /\ listed' = [r \in Routes |-> FALSE]
    /\ harm' = [r \in Routes |-> Harmed(r)]
    /\ UNCHANGED <<setup, class, gw, router, world, route, upstream, late, events>>

-----------------------------------------------------------------------------
(* The other controllers, the garbage collector and the users.             *)

RouterReady ==
    /\ router = "pending"
    /\ router' = "ready"
    /\ UNCHANGED <<setup, class, cpc, gw, gpc, world, route, pass, upstream,
                   history, counts>>

ResourceReady ==
    /\ nr.phase = "live" /\ ~nr.ready
    /\ nr' = [nr EXCEPT !.ready = TRUE]
    /\ UNCHANGED <<gateway, svc, route, pass, upstream, history, counts>>

ResourceGone ==
    /\ nr.phase = "deleting"
    /\ nr' = NoResource
    /\ UNCHANGED <<gateway, svc, route, pass, upstream, history, counts>>

(* All owners are gone.                                                    *)
CollectResource ==
    /\ nr.phase = "live" /\ ~svc /\ ~nr.foreign
    /\ \A r \in nr.owners : ~Exists(route[r])
    /\ nr' = [nr EXCEPT !.phase = "deleting"]
    /\ UNCHANGED <<gateway, svc, route, pass, upstream, history, counts>>

Event == events < MaxEvents /\ events' = events + 1

(* Deletion of an object: it stays as long as it has a finalizer.          *)
Deleted(object) == [object EXCEPT !.phase = IF object.fin THEN "deleting" ELSE "gone"]

UserDeletesGateway ==
    /\ Event
    /\ \/ class.phase = "live" /\ class' = Deleted(class) /\ UNCHANGED gw
       \/ gw.phase = "live" /\ gw' = Deleted(gw) /\ UNCHANGED class
    /\ UNCHANGED <<setup, cpc, gpc, router, world, route, pass, upstream,
                   history, lapses>>

(* A route is created, also again after it is gone, edited or deleted: an  *)
(* event for its controller.                                               *)
UserChangesRoute(r) ==
    /\ Event
    /\ \/ /\ route[r].phase \in {"none", "gone"}
          /\ route' = [route EXCEPT ![r] = [phase |-> "live", fin |-> FALSE]]
       \/ route[r].phase = "live" /\ UNCHANGED route
       \/ route[r].phase = "live" /\ route' = [route EXCEPT ![r] = Deleted(@)]
    /\ due' = [due EXCEPT ![r] = TRUE]
    /\ harm' = IF Exists(route[r]) THEN harm ELSE [harm EXCEPT ![r] = {}]
    /\ UNCHANGED <<pc, seen, listed, gateway, world, upstream, late, lapses>>

UserChangesResource ==
    /\ Event
    /\ \/ nr.phase = "live" /\ nr' = [nr EXCEPT !.foreign = TRUE] /\ UNCHANGED <<svc, router>>
       \/ svc /\ svc' = FALSE /\ UNCHANGED <<nr, router>>
       \/ router = "absent" /\ router' = "pending" /\ UNCHANGED world
       \/ router # "absent" /\ router' = "absent" /\ UNCHANGED world
    /\ UNCHANGED <<setup, class, cpc, gw, gpc, route, pass, upstream, history, lapses>>

ClassStep == AcceptClass \/ ListGateways \/ ReleaseClass
GatewayStep == AcceptGateway \/ ProgramGateway \/ ListRoutes \/ ReleaseGateway
(* The TCPRoute controller takes the same steps, except those for the      *)
(* proxy services.                                                         *)
RouteStep(r) == \/ PatchRoute(r) \/ Apply(r) \/ AwaitReady(r) \/ ListProxies(r) \/ CreateProxy(r)
                \/ GetResource(r) \/ ReleaseResource(r) \/ DeleteProxy(r)
                \/ ReleaseRoute(r)
Others == RouterReady \/ ResourceReady \/ ResourceGone \/ CollectResource

Next == \/ ClassStep \/ GatewayStep \/ Others
        \/ \E r \in Routes : \/ StartRoute(r) \/ RouteStep(r) \/ Abort(r)
                             \/ UserChangesRoute(r)
        \/ UnprogramGateway \/ Restart
        \/ UserDeletesGateway \/ UserChangesResource

(* Workers, the other controllers and the collector make progress.         *)
Fairness == /\ WF_vars(ClassStep) /\ WF_vars(GatewayStep) /\ WF_vars(Others)
            /\ \A r \in Routes : WF_vars(StartRoute(r) \/ RouteStep(r))

Spec == Init /\ [][Next]_vars /\ Fairness

-----------------------------------------------------------------------------
(* Properties.                                                             *)

(* A Gateway outlives every HTTPRoute that needs it to be deleted, except  *)
(* one that appeared after the List of the Gateway's deletion and whose    *)
(* pass had still read the Gateway.                                        *)
GatewayOutlivesRoutes ==
    gw.phase = "gone" => late \/ \A r \in HTTPRoutes : ~route[r].fin

(* An HTTPRoute that is gone leaves a proxy service behind only if it had  *)
(* been given more than one: every pass creates one, deletion takes one.   *)
ProxyLeaksAccounted ==
    \A r \in HTTPRoutes : route[r].phase = "gone" /\ proxies[r] > 0 => creates[r] > 1

(* A route that is reconciled has its NetworkResource.  What can deprive   *)
(* it for good: the Gateway was not programmed when the route was last     *)
(* looked at, a parent, the NetworkRouter or the Service is gone, the      *)
(* NetworkResource was being deleted when the route applied it, or another *)
(* route's deletion has deleted it since.                                  *)
LiveSettled(r) ==
    \/ nr.phase = "live" /\ route[r].fin
    \/ ~ParentFound \/ ~svc \/ router = "absent"
    \/ harm[r] \cap {"skipped", "doomed", "taken"} # {}

(* A route can be deleted, unless a parent is gone or, with the Service    *)
(* still there: a pass was cut off between the finalizer and Apply or      *)
(* between the release and the removal of the finalizer, the               *)
(* NetworkResource was being deleted when the route applied it, or since   *)
(* then another route has become its owner or has deleted it.              *)
DeletionSettled(r) ==
    \/ ~ParentFound
    \/ svc /\ harm[r] \cap {"cut", "doomed", "replaced", "taken"} # {}

(* Once users and failures stop, every route is served or gone, and so are *)
(* a Gateway and a class that were deleted, or for a reason above.         *)
EventuallySettled ==
    <>[](/\ \A r \in Routes : /\ route[r].phase = "live" => LiveSettled(r)
                              /\ route[r].phase = "deleting" => DeletionSettled(r)
         /\ gw.phase = "deleting" => ~Exists(class) \/ \E r \in HTTPRoutes : Exists(route[r])
         /\ class.phase = "deleting" => Exists(gw))
=============================================================================
