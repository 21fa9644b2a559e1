--------------------------- MODULE GatewayProofs ---------------------------
(***************************************************************************)
(* Proofs about Gateway for every set of HTTPRoutes and TCPRoutes, every   *)
(* way the class and the Gateway are written and every bound: a Gateway    *)
(* outlives the HTTPRoutes that need it, and a single proxy service of a   *)
(* hostname never outlives its HTTPRoute.                                  *)
(***************************************************************************)
EXTENDS Gateway, TLAPS

USE RoutesAssumption, SetupsAssumption, BoundsAssumption

-----------------------------------------------------------------------------
(* Type correctness.  The numbers of proxy services need more than types:  *)
(* DeleteProxy counts down only what ListProxies has seen and nobody else  *)
(* has taken since, and no more exist than were created.                   *)

PassLabels == {"idle", "patch", "apply", "await", "list", "create", "index",
               "get", "release", "delProxy", "unfin"}

(* Between its index of proxy services and their deletion.                 *)
Indexed(r) == pc[r] \in {"get", "release", "delProxy"}

Counted == \A r \in Routes : /\ proxies[r] <= creates[r]
                             /\ Indexed(r) /\ listed[r] => proxies[r] > 0
                             /\ pc[r] = "idle" => ~listed[r]

Types == TypeOK /\ Counted

(* A write of one field of a Gateway, a class or a NetworkResource keeps   *)
(* it one.                                                                 *)
ClassObjects == [phase : Phases, fin : BOOLEAN, accepted : BOOLEAN]
GatewayObjects == [phase : Phases, fin : BOOLEAN, programmed : BOOLEAN]
RouteObjects == [phase : Phases, fin : BOOLEAN]

LEMMA ClassWrites ==
  ASSUME NEW c \in ClassObjects
  PROVE  /\ [c EXCEPT !.fin = TRUE, !.accepted = TRUE] \in ClassObjects
         /\ [c EXCEPT !.phase = "gone", !.fin = FALSE] \in ClassObjects
         /\ Deleted(c) \in ClassObjects
  BY DEF ClassObjects, Phases, Deleted

LEMMA GatewayWrites ==
  ASSUME NEW g \in GatewayObjects
  PROVE  /\ [g EXCEPT !.fin = TRUE] \in GatewayObjects
         /\ [g EXCEPT !.programmed = TRUE] \in GatewayObjects
         /\ [g EXCEPT !.programmed = FALSE] \in GatewayObjects
         /\ [g EXCEPT !.phase = "gone", !.fin = FALSE] \in GatewayObjects
         /\ Deleted(g) \in GatewayObjects
  BY DEF GatewayObjects, Phases, Deleted

LEMMA RouteWrites ==
  ASSUME NEW o \in RouteObjects
  PROVE  /\ [o EXCEPT !.fin = TRUE] \in RouteObjects
         /\ Deleted(o) \in RouteObjects
         /\ [phase |-> "gone", fin |-> FALSE] \in RouteObjects
         /\ [phase |-> "live", fin |-> FALSE] \in RouteObjects
  BY DEF RouteObjects, Phases, Deleted

LEMMA ResourceWrites ==
  ASSUME NEW o \in Resources, NEW r \in Routes
  PROVE  /\ NoResource \in Resources
         /\ [NoResource EXCEPT !.phase = "live", !.owners = {r}] \in Resources
         /\ [o EXCEPT !.owners = {r}] \in Resources
         /\ [o EXCEPT !.owners = @ \ {r}] \in Resources
  BY DEF NoResource, Resources

LEMMA ResourceMarks ==
  ASSUME NEW o \in Resources
  PROVE  /\ NoResource \in Resources
         /\ [o EXCEPT !.phase = "deleting"] \in Resources
         /\ [o EXCEPT !.ready = TRUE] \in Resources
         /\ [o EXCEPT !.foreign = TRUE] \in Resources
  BY DEF NoResource, Resources

(* The type invariant by parts.                                            *)
GatewayTypes ==
    /\ setup \in Setups /\ class \in ClassObjects /\ gw \in GatewayObjects
    /\ cpc \in {"idle", "unfin"} /\ gpc \in {"idle", "unfin"}
    /\ router \in {"absent", "pending", "ready"}
WorldTypes == svc \in BOOLEAN /\ nr \in Resources /\ route \in [Routes -> RouteObjects]
PassTypes ==
    /\ pc \in [Routes -> PassLabels]
    /\ due \in [Routes -> BOOLEAN] /\ listed \in [Routes -> BOOLEAN]
    /\ seen \in [Routes -> Resources]
HistoryTypes ==
    harm \in [Routes -> SUBSET Harms] /\ late \in BOOLEAN
UpstreamTypes == proxies \in [Routes -> Nat] /\ creates \in [Routes -> 0..MaxProxies]
CountTypes == lapses \in 0..MaxLapses /\ events \in 0..MaxEvents

Parts == /\ GatewayTypes /\ WorldTypes /\ PassTypes /\ HistoryTypes
         /\ UpstreamTypes /\ CountTypes

LEMMA TypesByParts == Types <=> Parts /\ Counted
  <1> USE DEF Types, TypeOK, Parts, GatewayTypes, WorldTypes, PassTypes,
              HistoryTypes, UpstreamTypes, CountTypes, ClassObjects,
              GatewayObjects, RouteObjects, PassLabels
  <1>1. ASSUME Types PROVE Parts /\ Counted
    <2>1. proxies \in [Routes -> Nat]
      BY <1>1
    <2> QED
      BY <1>1, <2>1
  <1>2. ASSUME Parts, Counted PROVE Types
    <2>1. proxies \in [Routes -> 0..MaxProxies]
      BY <1>2 DEF Counted
    <2> QED
      BY <1>2, <2>1
  <1> QED
    BY <1>1, <1>2

(* The initial state.                                                      *)
LEMMA InitTypes == Init => Types
  <1> SUFFICES ASSUME Init PROVE Parts /\ Counted
    BY TypesByParts
  <1>6. Counted
    <2>1. ASSUME NEW r \in Routes PROVE proxies[r] <= creates[r]
      BY DEF Init
    <2>2. ASSUME NEW r \in Routes PROVE ~listed[r]
      BY DEF Init
    <2> QED
      BY <2>1, <2>2 DEF Counted
  <1> USE DEF Init
  <1>1. GatewayTypes
    BY DEF GatewayTypes, ClassObjects, GatewayObjects, Phases
  <1>2. WorldTypes
    BY DEF WorldTypes, NoResource, Resources, RouteObjects, Phases
  <1>3. PassTypes
    BY DEF PassTypes, PassLabels, NoResource, Resources
  <1>4. HistoryTypes /\ CountTypes
    <2>1. 0 \in 0..MaxLapses /\ 0 \in 0..MaxEvents
      OBVIOUS
    <2>2. HistoryTypes
      BY DEF HistoryTypes
    <2> QED
      BY <2>1, <2>2 DEF CountTypes
  <1>5. UpstreamTypes
    <2>1. 0 \in Nat /\ 0 \in 0..MaxProxies
      OBVIOUS
    <2> QED
      BY <2>1 DEF UpstreamTypes
  <1> QED
    BY <1>1, <1>2, <1>3, <1>4, <1>5, <1>6 DEF Parts

(* A move of a pass to a label, and its end, keep the pass well typed.     *)
LEMMA PassMoves ==
  ASSUME PassTypes, NEW r \in Routes
  PROVE  /\ \A l \in PassLabels : Goto(r, l) => PassTypes'
         /\ \A b \in BOOLEAN : End(r, b) => PassTypes'
  <1>1. NoResource \in Resources
    BY DEF NoResource, Resources
  <1>2. ASSUME NEW l \in PassLabels, Goto(r, l) PROVE PassTypes'
    BY <1>2 DEF PassTypes, Goto
  <1>3. ASSUME NEW b \in BOOLEAN, End(r, b) PROVE PassTypes'
    <2>1. pc' \in [Routes -> PassLabels] /\ seen' \in [Routes -> Resources]
      BY <1>1, <1>3 DEF PassTypes, End, PassLabels
    <2>2. due' \in [Routes -> BOOLEAN] /\ listed' \in [Routes -> BOOLEAN]
      BY <1>3 DEF PassTypes, End
    <2> QED
      BY <2>1, <2>2 DEF PassTypes
  <1> QED
    BY <1>2, <1>3

LEMMA PassKeepsTypes ==
  ASSUME PassTypes, nr \in Resources, NEW r \in Routes, RouteStep(r) \/ Abort(r)
  PROVE  PassTypes'
  <1>1. CASE (\E l \in PassLabels : Goto(r, l)) \/ (\E b \in BOOLEAN : End(r, b))
    BY <1>1, PassMoves
  <1>2. CASE ListProxies(r)
    BY <1>2 DEF ListProxies, PassTypes, PassLabels
  <1>3. CASE GetResource(r) /\ pc' = [pc EXCEPT ![r] = "release"]
    BY <1>3 DEF GetResource, PassTypes, PassLabels, Goto, End
  <1>4. CASE PatchRoute(r) /\ pc' = [pc EXCEPT ![r] = "apply"] /\ UNCHANGED <<seen, listed>>
    <2>1. due' \in [Routes -> BOOLEAN]
      BY <1>4 DEF PatchRoute, PassTypes, End
    <2> QED
      BY <1>4, <2>1 DEF PassTypes, PassLabels
  <1> QED
    BY <1>1, <1>2, <1>3, <1>4 DEF RouteStep, PatchRoute, Apply, AwaitReady, CreateProxy, GetResource,
       ReleaseResource, DeleteProxy, ReleaseRoute, Abort, PassLabels

(* What a pass does at its own route; the other routes it leaves alone.    *)
Elsewhere(r) == \A s \in Routes \ {r} :
                  /\ pc'[s] = pc[s] /\ listed'[s] = listed[s] /\ route'[s] = route[s]
                  /\ proxies'[s] = proxies[s] /\ creates'[s] = creates[s]
KeepsUpstream(r) == proxies'[r] = proxies[r] /\ creates'[r] = creates[r]
Ends(r) == pc'[r] = "idle" /\ ~listed'[r]

GivesUp(r) == Ends(r) /\ KeepsUpstream(r) /\ route'[r] = route[r]
GoesOn(r) ==
    /\ <<pc[r], pc'[r]>> \in
         {<<"apply", "await">>, <<"await", "list">>, <<"get", "release">>,
          <<"get", "delProxy">>, <<"release", "delProxy">>,
          <<"get", "unfin">>, <<"release", "unfin">>}
    /\ pc'[r] = "unfin" /\ r \in HTTPRoutes => ParentFound /\ ~ClassOurs
    /\ listed'[r] = listed[r] /\ KeepsUpstream(r) /\ route'[r] = route[r]
Looks(r) ==
    /\ <<pc[r], pc'[r]>> \in {<<"list", "create">>, <<"index", "get">>}
    /\ listed'[r] = (proxies[r] > 0)
    /\ KeepsUpstream(r) /\ route'[r] = route[r]
Creates(r) ==
    /\ pc[r] = "create" /\ Ends(r)
    /\ proxies[r] < MaxProxies
    /\ proxies'[r] = proxies[r] + 1
    /\ creates'[r] = (IF creates[r] < MaxProxies THEN creates[r] + 1 ELSE creates[r])
    /\ route'[r] = route[r]
Deletes(r) ==
    /\ pc[r] = "delProxy" /\ pc'[r] = "unfin" /\ listed'[r] = listed[r]
    /\ proxies'[r] = (IF listed[r] THEN proxies[r] - 1 ELSE proxies[r])
    /\ creates'[r] = creates[r] /\ route'[r] = route[r]
Releases(r) ==
    /\ pc[r] = "unfin" /\ Ends(r) /\ KeepsUpstream(r)
    /\ route'[r] = [phase |-> "gone", fin |-> FALSE]

Finalizes(r) ==
    /\ pc[r] = "patch" /\ pc'[r] = "apply" /\ listed'[r] = listed[r] /\ KeepsUpstream(r)
    /\ Exists(route[r]) /\ route'[r] = [route[r] EXCEPT !.fin = TRUE]

Effect(r) == \/ Finalizes(r) \/ GivesUp(r) \/ GoesOn(r) \/ Looks(r) \/ Creates(r)
             \/ Deletes(r) \/ Releases(r)

LEMMA PassEffect ==
  ASSUME Parts, NEW r \in Routes, RouteStep(r) \/ Abort(r)
  PROVE  Elsewhere(r) /\ Effect(r)
  <1> USE DEF Parts, PassTypes, UpstreamTypes, WorldTypes, Elsewhere, KeepsUpstream,
              Goto, End, world, upstream
  <1>1. CASE Apply(r)
    <2>1. CASE svc /\ r \in HTTPRoutes /\ Goto(r, "await")
      BY <1>1, <2>1 DEF Apply, Effect, GoesOn
    <2>2. CASE End(r, TRUE) \/ End(r, FALSE)
      BY <1>1, <2>2 DEF Apply, Effect, GivesUp, Ends
    <2> QED
      BY <1>1, <2>1, <2>2 DEF Apply
  <1>2. CASE AwaitReady(r)
    <2>1. CASE Goto(r, "list")
      BY <1>2, <2>1 DEF AwaitReady, Effect, GoesOn
    <2>2. CASE End(r, TRUE)
      BY <1>2, <2>2 DEF AwaitReady, Effect, GivesUp, Ends
    <2> QED
      BY <1>2, <2>1, <2>2 DEF AwaitReady
  <1>3. CASE ListProxies(r)
    BY <1>3 DEF ListProxies, Effect, Looks
  <1>4. CASE CreateProxy(r)
    <2>1. CASE UNCHANGED upstream
      BY <1>4, <2>1 DEF CreateProxy, Effect, GivesUp, Ends
    <2>2. CASE /\ proxies[r] < MaxProxies
               /\ proxies' = [proxies EXCEPT ![r] = @ + 1]
               /\ creates' = [creates EXCEPT ![r] = IF @ < MaxProxies THEN @ + 1 ELSE @]
               /\ End(r, FALSE)
      BY <1>4, <2>2 DEF CreateProxy, Effect, Creates, Ends
    <2> QED
      BY <1>4, <2>1, <2>2 DEF CreateProxy
  <1>5. CASE GetResource(r)
    <2>1. CASE End(r, TRUE)
      BY <1>5, <2>1 DEF GetResource, Effect, GivesUp, Ends
    <2>2. CASE ParentFound /\ ~ClassOurs /\ Goto(r, "unfin")
      BY <1>5, <2>2 DEF GetResource, Effect, GoesOn
    <2>3. CASE Goto(r, IF r \in HTTPRoutes THEN "delProxy" ELSE "unfin")
      BY <1>5, <2>3 DEF GetResource, Effect, GoesOn
    <2>4. CASE pc' = [pc EXCEPT ![r] = "release"] /\ UNCHANGED listed
      BY <1>5, <2>4 DEF GetResource, Effect, GoesOn
    <2> QED
      BY <1>5, <2>1, <2>2, <2>3, <2>4 DEF GetResource
  <1>6. CASE ReleaseResource(r)
    <2>1. CASE End(r, TRUE)
      BY <1>6, <2>1 DEF ReleaseResource, Effect, GivesUp, Ends
    <2>2. CASE Goto(r, IF r \in HTTPRoutes THEN "delProxy" ELSE "unfin")
      BY <1>6, <2>2 DEF ReleaseResource, Effect, GoesOn
    <2> QED
      BY <1>6, <2>1, <2>2 DEF ReleaseResource
  <1>7. CASE DeleteProxy(r)
    BY <1>7 DEF DeleteProxy, Effect, Deletes
  <1>8. CASE ReleaseRoute(r)
    BY <1>8 DEF ReleaseRoute, Effect, Releases, Ends
  <1>9. CASE Abort(r)
    BY <1>9 DEF Abort, Effect, GivesUp, Ends
  <1>10. CASE PatchRoute(r)
    <2>1. CASE End(r, TRUE) /\ UNCHANGED route
      BY <1>10, <2>1 DEF PatchRoute, Effect, GivesUp, Ends
    <2>2. CASE /\ Exists(route[r]) /\ route' = [route EXCEPT ![r].fin = TRUE]
               /\ pc' = [pc EXCEPT ![r] = "apply"] /\ UNCHANGED listed
      <3>1. UNCHANGED <<proxies, creates>>
        BY <1>10 DEF PatchRoute
      <3>2. Elsewhere(r)
        BY <2>2, <3>1
      <3>3. Finalizes(r)
        BY <1>10, <2>2, <3>1 DEF PatchRoute, Finalizes
      <3> QED
        BY <3>2, <3>3 DEF Effect
    <2> QED
      BY <1>10, <2>1, <2>2 DEF PatchRoute
  <1> QED
    BY <1>1, <1>2, <1>3, <1>4, <1>5, <1>6, <1>7, <1>8, <1>9, <1>10 DEF RouteStep

(* Every step keeps the types.                                             *)
LEMMA StepTypes == Types /\ [Next]_vars => Types'
  <1> SUFFICES ASSUME Types, [Next]_vars PROVE Parts' /\ Counted'
    BY TypesByParts, PTL
  <1>p. Parts /\ Counted
    BY TypesByParts
  <1> USE DEF gateway, world, upstream, history, counts
  <1>1. CASE ClassStep \/ GatewayStep \/ UnprogramGateway
    <2>1. GatewayTypes'
      BY <1>1, <1>p, ClassWrites, GatewayWrites DEF ClassStep, AcceptClass, ListGateways, ReleaseClass,
         GatewayStep, AcceptGateway, ProgramGateway, ListRoutes, ReleaseGateway,
         UnprogramGateway, Parts, GatewayTypes, WorldTypes
    <2>2. UNCHANGED <<world, route, pass, upstream, history, counts>>
      BY <1>1 DEF ClassStep, AcceptClass, ListGateways, ReleaseClass,
         GatewayStep, AcceptGateway, ProgramGateway, ListRoutes, ReleaseGateway,
         UnprogramGateway
    <2> QED
      BY <1>p, <2>1, <2>2 DEF pass, Parts, WorldTypes, PassTypes, HistoryTypes,
         UpstreamTypes, CountTypes, Counted, Indexed
  <1>2. CASE Others \/ UserDeletesGateway \/ UserChangesResource
    <2>1. GatewayTypes'
      BY <1>2, <1>p, ClassWrites, GatewayWrites DEF Others, RouterReady, ResourceReady, ResourceGone,
         CollectResource, UserDeletesGateway, UserChangesResource, Parts,
         GatewayTypes, WorldTypes
    <2>2. WorldTypes'
      BY <1>2, <1>p, ResourceMarks DEF Others, RouterReady, ResourceReady, ResourceGone,
         CollectResource, UserDeletesGateway, UserChangesResource, Parts, WorldTypes
    <2>3. CountTypes'
      BY <1>2, <1>p DEF Others, RouterReady, ResourceReady, ResourceGone,
         CollectResource, UserDeletesGateway, UserChangesResource, Event, Parts, CountTypes
    <2>4. UNCHANGED <<pass, upstream, history>>
      BY <1>2 DEF Others, RouterReady, ResourceReady, ResourceGone,
         CollectResource, UserDeletesGateway, UserChangesResource
    <2> QED
      BY <1>p, <2>1, <2>2, <2>3, <2>4 DEF pass, Parts, PassTypes, HistoryTypes,
         UpstreamTypes, Counted, Indexed
  <1>3. ASSUME NEW r \in Routes, StartRoute(r) PROVE Parts' /\ Counted'
    <2>1. route' \in [Routes -> RouteObjects]
      BY <1>3, <1>p DEF StartRoute, Parts, WorldTypes
    <2>2. PassTypes'
      BY <1>3, <1>p DEF StartRoute, Parts, PassTypes, PassLabels
    <2>3. HistoryTypes'
      BY <1>3, <1>p DEF StartRoute, Parts, HistoryTypes, Harms
    <2>4. UNCHANGED <<gateway, world, upstream, counts, listed>>
      BY <1>3 DEF StartRoute
    <2>5. pc[r] = "idle"
      BY <1>3 DEF StartRoute, SameKind
    <2>6. \A s \in Routes : s # r => pc'[s] = pc[s]
      BY <1>3, <1>p DEF StartRoute, Parts, PassTypes
    <2>7. Counted'
      BY <1>p, <2>4, <2>5, <2>6 DEF Counted, Indexed
    <2> QED
      BY <1>p, <2>1, <2>2, <2>3, <2>4, <2>7 DEF Parts, GatewayTypes, WorldTypes,
         UpstreamTypes, CountTypes
  <1>4. ASSUME NEW r \in Routes, UserChangesRoute(r) PROVE Parts' /\ Counted'
    <2>1. route' \in [Routes -> RouteObjects]
      BY <1>4, <1>p, RouteWrites DEF UserChangesRoute, Parts, WorldTypes
    <2>2. PassTypes' /\ CountTypes'
      BY <1>4, <1>p DEF UserChangesRoute, Event, Parts, PassTypes, CountTypes
    <2>3. UNCHANGED <<pc, listed, gateway, world, upstream, late>>
      BY <1>4 DEF UserChangesRoute
    <2>4. harm' \in [Routes -> SUBSET Harms]
      BY <1>4, <1>p DEF UserChangesRoute, Parts, HistoryTypes
    <2> QED
      BY <1>p, <2>1, <2>2, <2>3, <2>4 DEF Parts, GatewayTypes, WorldTypes, HistoryTypes,
         UpstreamTypes, Counted, Indexed
  <1>5. ASSUME NEW r \in Routes, RouteStep(r) \/ Abort(r) PROVE Parts' /\ Counted'
    <2>1. GatewayTypes'
      BY <1>5, <1>p DEF RouteStep, PatchRoute, Apply, AwaitReady, ListProxies, CreateProxy,
         GetResource, ReleaseResource, DeleteProxy, ReleaseRoute, Abort, Parts, GatewayTypes
    <2>2. svc' \in BOOLEAN /\ nr' \in Resources
      BY <1>5, <1>p, ResourceWrites, ResourceMarks DEF RouteStep, PatchRoute, Apply, AwaitReady,
         ListProxies, CreateProxy, GetResource, ReleaseResource, DeleteProxy,
         ReleaseRoute, Abort, Parts, WorldTypes
    <2>3. route' \in [Routes -> RouteObjects]
      <3>r. route \in [Routes -> RouteObjects]
        BY <1>p DEF Parts, WorldTypes
      <3>1. CASE PatchRoute(r)
        <4>1. [route[r] EXCEPT !.fin = TRUE] \in RouteObjects
          BY <3>r, RouteWrites
        <4> QED
          BY <3>r, <3>1, <4>1 DEF PatchRoute
      <3>2. CASE ReleaseRoute(r)
        BY <3>r, <3>2, RouteWrites DEF ReleaseRoute
      <3>3. CASE UNCHANGED route
        BY <3>r, <3>3
      <3> QED
        BY <1>5, <3>1, <3>2, <3>3 DEF RouteStep, Apply, AwaitReady, ListProxies,
           CreateProxy, GetResource, ReleaseResource, DeleteProxy, Abort
    <2>4. PassTypes'
      BY <1>5, <1>p, PassKeepsTypes DEF Parts, WorldTypes
    <2>5. HistoryTypes'
      <3>1. late' \in BOOLEAN
        BY <1>5, <1>p DEF RouteStep, PatchRoute, Apply, AwaitReady, ListProxies, CreateProxy,
           GetResource, ReleaseResource, DeleteProxy, ReleaseRoute, Abort, Parts, HistoryTypes
      <3>2. harm' \in [Routes -> SUBSET Harms]
        <4>1. CASE Apply(r)
          <5>1. CASE UNCHANGED harm
            BY <5>1, <1>p DEF Parts, HistoryTypes
          <5>2. CASE harm' = [s \in Routes |->
                        CASE s = r -> IF nr.phase = "deleting" THEN {"doomed"} ELSE {}
                          [] s # r /\ s \in nr.owners -> harm[s] \cup {"replaced"}
                          [] OTHER -> harm[s]]
            BY <5>2, <1>p DEF Parts, HistoryTypes, Harms
          <5> QED
            BY <4>1, <5>1, <5>2 DEF Apply
        <4>2. CASE ReleaseResource(r)
          <5>1. CASE UNCHANGED harm
            BY <5>1, <1>p DEF Parts, HistoryTypes
          <5>2. CASE harm' = [s \in Routes |-> IF s # r /\ Exists(route[s])
                                                THEN harm[s] \cup {"taken"} ELSE harm[s]]
            BY <5>2, <1>p DEF Parts, HistoryTypes, Harms
          <5> QED
            BY <4>2, <5>1, <5>2 DEF ReleaseResource
        <4>3. CASE Abort(r)
          BY <4>3, <1>p DEF Abort, Harmed, Parts, HistoryTypes, Harms
        <4>4. CASE UNCHANGED harm
          BY <4>4, <1>p DEF Parts, HistoryTypes
        <4> QED
          BY <1>5, <4>1, <4>2, <4>3, <4>4 DEF RouteStep, PatchRoute, AwaitReady,
             ListProxies, CreateProxy, GetResource, DeleteProxy, ReleaseRoute
      <3> QED
        BY <3>1, <3>2 DEF HistoryTypes
    <2>6. CountTypes'
      <3>1. UNCHANGED counts \/ Abort(r)
        BY <1>5 DEF RouteStep, PatchRoute, Apply, AwaitReady, ListProxies, CreateProxy,
           GetResource, ReleaseResource, DeleteProxy, ReleaseRoute
      <3>2. CASE Abort(r)
        <4>1. lapses \in Nat /\ lapses < MaxLapses /\ lapses' = lapses + 1 /\ events' = events
          BY <3>2, <1>p DEF Abort, Lapse, Parts, CountTypes
        <4> QED
          BY <4>1, <1>p DEF Parts, CountTypes
      <3> QED
        BY <3>1, <3>2, <1>p DEF Parts, CountTypes
    <2>e. Elsewhere(r) /\ Effect(r)
      BY <1>5, <1>p, PassEffect
    <2>7. UpstreamTypes'
      <3>1. /\ \E v : proxies' = [proxies EXCEPT ![r] = v]
            /\ \E v : creates' = [creates EXCEPT ![r] = v]
        BY <1>5, <1>p DEF RouteStep, PatchRoute, Apply, AwaitReady, ListProxies, CreateProxy,
           GetResource, ReleaseResource, DeleteProxy, ReleaseRoute, Abort, Parts,
           UpstreamTypes
      <3>2. proxies'[r] \in Nat /\ creates'[r] \in 0..MaxProxies
        BY <2>e, <1>p DEF Effect, Finalizes, GivesUp, GoesOn, Looks, Creates, Deletes,
           Releases, KeepsUpstream, Parts, UpstreamTypes, PassTypes, Counted, Indexed
      <3> QED
        BY <3>1, <3>2, <1>p DEF Parts, UpstreamTypes
    <2>8. Counted'
      <3>1. /\ proxies'[r] <= creates'[r]
            /\ (Indexed(r) /\ listed[r] => proxies[r] > 0)'
            /\ pc'[r] = "idle" => ~listed'[r]
        <4> USE DEF Ends, KeepsUpstream, Parts, UpstreamTypes, PassTypes, Counted, Indexed
        <4>1. CASE GivesUp(r) \/ Releases(r)
          BY <4>1, <1>p DEF GivesUp, Releases
        <4>2. CASE GoesOn(r)
          BY <4>2, <1>p DEF GoesOn
        <4>3. CASE Looks(r)
          BY <4>3, <1>p DEF Looks
        <4>4. CASE Creates(r)
          BY <4>4, <1>p DEF Creates
        <4>5. CASE Deletes(r)
          BY <4>5, <1>p DEF Deletes
        <4>6. CASE Finalizes(r)
          BY <4>6, <1>p DEF Finalizes
        <4> QED
          BY <2>e, <4>1, <4>2, <4>3, <4>4, <4>5, <4>6 DEF Effect
      <3> QED
        BY <2>e, <3>1, <1>p DEF Elsewhere, Counted, Indexed
    <2> QED
      BY <2>1, <2>2, <2>3, <2>4, <2>5, <2>6, <2>7, <2>8 DEF Parts, WorldTypes
  <1>6. CASE UNCHANGED vars
    BY <1>6, <1>p DEF vars, pass, Parts, GatewayTypes, WorldTypes, PassTypes, HistoryTypes,
       UpstreamTypes, CountTypes, Counted, Indexed
  <1>7. CASE Restart
    <2>1. UNCHANGED <<setup, class, gw, router, world, route, upstream, late, events>>
      BY <1>7 DEF Restart
    <2>2. GatewayTypes' /\ WorldTypes' /\ UpstreamTypes'
      BY <1>7, <1>p, <2>1 DEF Restart, Parts, GatewayTypes, WorldTypes, UpstreamTypes
    <2>3. PassTypes'
      <3>1. NoResource \in Resources
        BY DEF NoResource, Resources
      <3> QED
        BY <1>7, <3>1 DEF Restart, PassTypes, PassLabels, Exists
    <2>4. HistoryTypes'
      BY <1>7, <1>p, <2>1 DEF Restart, Harmed, Parts, HistoryTypes, Harms
    <2>5. CountTypes'
      <3>1. lapses \in Nat /\ lapses < MaxLapses /\ lapses' = lapses + 1 /\ events' = events
        BY <1>7, <1>p DEF Restart, Lapse, Parts, CountTypes
      <3> QED
        BY <3>1, <1>p DEF Parts, CountTypes
    <2>6. Counted'
      <3>1. ASSUME NEW r \in Routes
            PROVE  /\ pc'[r] = "idle" /\ ~listed'[r]
                   /\ proxies'[r] <= creates'[r]
        BY <1>7, <1>p, <2>1 DEF Restart, Counted
      <3> QED
        BY <3>1 DEF Counted
    <2> QED
      BY <2>2, <2>3, <2>4, <2>5, <2>6 DEF Parts
  <1> QED
    BY <1>1, <1>2, <1>3, <1>4, <1>5, <1>6, <1>7 DEF Next

(* Type correctness of the Gateway API controllers, with the bounds on the *)
(* proxy services that their passes keep.                                  *)
THEOREM TypeCorrect == Spec => []TypeOK
  <1>1. Types => TypeOK
    BY DEF Types
  <1> QED
    BY <1>1, InitTypes, StepTypes, PTL DEF Spec

-----------------------------------------------------------------------------
(* The Gateway.  One that is programmed had the finalizer put on first;    *)
(* only one that is being deleted is about to lose it.                     *)
GatewayHeld == /\ gw.phase = "live" /\ gw.programmed => gw.fin
               /\ gpc = "unfin" => gw.phase = "deleting"

(* A Gateway of this controller that has been programmed: while it lives   *)
(* it has the finalizer, also when Programmed is taken back.               *)
Anchored == setup # "foreignClass" /\ (gw.phase = "live" => gw.fin)

(* A route's finalizer.  A pass that has read a programmed Gateway puts it *)
(* on, before anything it makes upstream; it goes last.                    *)
RouteHeld(r) ==
    /\ route[r].fin => Exists(route[r])
    /\ pc[r] \in {"apply", "await", "list", "create"} => route[r].fin
    /\ pc[r] = "patch" \/ route[r].fin \/ creates[r] > 0 => Anchored

(* From the List of HTTPRoutes on, all are without finalizer but a late    *)
(* one: what GatewayOutlivesRoutes says, from one step earlier.            *)
ChainHeld ==
    gpc = "unfin" \/ gw.phase = "gone" => late \/ \A r \in HTTPRoutes : ~route[r].fin

(* The one proxy service that a hostname was given: its route keeps the    *)
(* finalizer, the deletion pass has it in its index, and past its deletion *)
(* there is none.                                                          *)
ProxyHeld(r) ==
    proxies[r] > 0 /\ creates[r] <= 1 =>
        /\ route[r].fin
        /\ Indexed(r) => listed[r]
        /\ pc[r] # "unfin"

Inv == /\ Types /\ GatewayHeld /\ ChainHeld
       /\ \A r \in Routes : RouteHeld(r)
       /\ \A r \in HTTPRoutes : ProxyHeld(r)

(* The fields of the objects.                                              *)
LEMMA Fields ==
  ASSUME Types
  PROVE  /\ class.phase \in Phases /\ class.fin \in BOOLEAN /\ class.accepted \in BOOLEAN
         /\ gw.phase \in Phases /\ gw.fin \in BOOLEAN /\ gw.programmed \in BOOLEAN
         /\ \A r \in Routes : route[r].phase \in Phases /\ route[r].fin \in BOOLEAN
         /\ \A r \in Routes : proxies[r] \in Nat /\ creates[r] \in Nat
         /\ late \in BOOLEAN
  BY TypesByParts DEF Parts, GatewayTypes, WorldTypes, UpstreamTypes, HistoryTypes,
     ClassObjects, GatewayObjects, RouteObjects

(* What a step does to the Gateway and the class, field by field.          *)
ClassKept == class' = class
GatewayKept == gw' = gw /\ gpc' = gpc
ParentsKept == ClassKept /\ GatewayKept /\ setup' = setup
RoutesKept == UNCHANGED <<route, pc, listed, proxies, creates, late>>

LEMMA ParentStep ==
  ASSUME Types, ClassStep \/ GatewayStep \/ UnprogramGateway \/ UserDeletesGateway
  PROVE  /\ setup' = setup /\ RoutesKept
         /\ Anchored => Anchored'
         /\ \/ GatewayKept
            \/ UnprogramGateway \/ AcceptGateway \/ ProgramGateway \/ ListRoutes \/ ReleaseGateway
            \/ gw.phase = "live" /\ gw' = Deleted(gw) /\ gpc' = gpc
  <1> USE Fields, TypesByParts DEF RoutesKept, world, pass, upstream, history, counts, GatewayKept,
              Parts, GatewayTypes, ClassObjects, GatewayObjects, Anchored
  <1>1. CASE ClassStep
    BY <1>1 DEF ClassStep, AcceptClass, ListGateways, ReleaseClass, ClassOurs
  <1>2. CASE GatewayStep
    <2>1. setup' = setup /\ RoutesKept /\ class' = class
      BY <1>2 DEF GatewayStep, AcceptGateway, ProgramGateway, ListRoutes, ReleaseGateway
    <2>2. Anchored => Anchored'
      <3>1. CASE AcceptGateway \/ ProgramGateway
        BY <3>1 DEF AcceptGateway, ProgramGateway
      <3>2. CASE ListRoutes
        BY <3>2 DEF ListRoutes
      <3>3. CASE ReleaseGateway
        <4>1. setup' = setup /\ gw'.phase = "gone"
          BY <3>3 DEF ReleaseGateway
        <4> QED
          BY <4>1
      <3> QED
        BY <1>2, <3>1, <3>2, <3>3 DEF GatewayStep
    <2> QED
      BY <1>2, <2>1, <2>2 DEF GatewayStep
  <1>3. CASE UserDeletesGateway
    BY <1>3 DEF UserDeletesGateway, Deleted
  <1>4. CASE UnprogramGateway
    BY <1>4 DEF UnprogramGateway
  <1> QED
    BY <1>1, <1>2, <1>3, <1>4

(* Every step that touches neither parents nor routes is one of the others.*)
LEMMA OtherStep ==
  ASSUME Others \/ UserChangesResource \/ UNCHANGED vars
  PROVE  ParentsKept /\ RoutesKept
  BY DEF Others, RouterReady, ResourceReady, ResourceGone, CollectResource,
     UserChangesResource, vars, gateway, world, pass, upstream, history, counts,
     ParentsKept, ClassKept, GatewayKept, RoutesKept

LEMMA RouteStepKeeps ==
  ASSUME NEW r \in Routes,
         StartRoute(r) \/ RouteStep(r) \/ Abort(r) \/ UserChangesRoute(r)
  PROVE  ParentsKept
  BY DEF StartRoute, RouteStep, PatchRoute, Apply, AwaitReady, ListProxies, CreateProxy,
     GetResource, ReleaseResource, DeleteProxy, ReleaseRoute, Abort, UserChangesRoute,
     gateway, ParentsKept, ClassKept, GatewayKept

(* A restart ends all passes and changes no object.                        *)
LEMMA RestartEffect ==
  ASSUME Restart
  PROVE  /\ UNCHANGED <<setup, class, gw, route, proxies, creates, late>>
         /\ gpc' = "idle"
         /\ \A r \in Routes : pc'[r] = "idle"
  BY DEF Restart, upstream

(* The finalizer of the Gateway holds.                                     *)
LEMMA StepParents == Types /\ GatewayHeld /\ [Next]_vars => GatewayHeld'
  <1> SUFFICES ASSUME Types, GatewayHeld, [Next]_vars PROVE GatewayHeld'
    OBVIOUS
  <1>1. CASE ParentsKept
    BY <1>1 DEF ParentsKept, GatewayKept, GatewayHeld
  <1>2. CASE ClassStep \/ GatewayStep \/ UnprogramGateway \/ UserDeletesGateway
    <2> USE Fields, TypesByParts DEF GatewayHeld, Parts, GatewayTypes, GatewayObjects
    <2>1. CASE GatewayKept
      BY <2>1 DEF GatewayKept
    <2>2. CASE AcceptGateway \/ ProgramGateway \/ UnprogramGateway
      BY <2>2 DEF AcceptGateway, ProgramGateway, UnprogramGateway
    <2>3. CASE ListRoutes \/ ReleaseGateway
      BY <2>3 DEF ListRoutes, ReleaseGateway
    <2>4. CASE gw.phase = "live" /\ gw' = Deleted(gw) /\ gpc' = gpc
      BY <2>4 DEF Deleted
    <2> QED
      BY <1>2, <2>1, <2>2, <2>3, <2>4, ParentStep
  <1>3. CASE Restart
    BY <1>3, RestartEffect DEF GatewayHeld
  <1> QED
    BY <1>1, <1>2, <1>3, OtherStep, RouteStepKeeps DEF Next

(* A new pass, or a user's change of a route, at the route and elsewhere.  *)
Enters(r) == gw.programmed /\ ClassOurs /\ pc'[r] = "patch"
PassesBy(r) == /\ pc'[r] \in {"idle", "index", "get"}
               /\ r \in HTTPRoutes => pc'[r] # "get"

LEMMA StartEffect ==
  ASSUME Types, NEW r \in Routes, StartRoute(r)
  PROVE  /\ Elsewhere(r) /\ KeepsUpstream(r) /\ UNCHANGED <<route, listed, late>>
         /\ pc[r] = "idle"
         /\ PassesBy(r) \/ Enters(r)
  <1>p. Parts
    BY TypesByParts
  <1>i. pc[r] = "idle"
    BY DEF StartRoute, SameKind
  <1>1. UNCHANGED <<route, listed, proxies, creates, late>>
    BY DEF StartRoute, upstream
  <1>2. Elsewhere(r) /\ KeepsUpstream(r)
    BY <1>1, <1>p DEF StartRoute, Elsewhere, KeepsUpstream, Parts, PassTypes
  <1> QED
    BY <1>1, <1>2, <1>p, <1>i DEF StartRoute, Parts, PassTypes, PassesBy, Enters

LEMMA ChangeEffect ==
  ASSUME Types, NEW r \in Routes, UserChangesRoute(r)
  PROVE  /\ Elsewhere(r) /\ KeepsUpstream(r) /\ UNCHANGED <<pc, listed, late>>
         /\ \/ route'[r] = route[r]
            \/ ~Exists(route[r]) /\ route'[r] = [phase |-> "live", fin |-> FALSE]
            \/ route[r].phase = "live" /\ route'[r] = Deleted(route[r])
  <1>p. Parts
    BY TypesByParts
  <1>1. UNCHANGED <<pc, listed, proxies, creates, late>>
    BY DEF UserChangesRoute, upstream, history
  <1> QED
    BY <1>1, <1>p DEF UserChangesRoute, Elsewhere, KeepsUpstream, Parts, WorldTypes, Exists

(* The routes' finalizers hold.                                            *)
LEMMA StepRoutes ==
  ASSUME Types, GatewayHeld, \A r \in Routes : RouteHeld(r), [Next]_vars
  PROVE  \A r \in Routes : RouteHeld(r)'
  <1>f. \A r \in Routes : /\ route[r].phase \in Phases /\ route[r].fin \in BOOLEAN
                          /\ route[r] \in RouteObjects /\ creates[r] \in Nat
    BY Fields, TypesByParts DEF Parts, WorldTypes
  <1>a. ParentsKept => (Anchored <=> Anchored')
    BY DEF ParentsKept, GatewayKept, Anchored
  <1>1. CASE RoutesKept /\ (Anchored => Anchored')
    BY <1>1 DEF RoutesKept, RouteHeld, Exists
  <1>2. ASSUME ParentsKept, NEW r \in Routes, Elsewhere(r), RouteHeld(r)'
        PROVE  \A s \in Routes : RouteHeld(s)'
    BY <1>2, <1>a DEF Elsewhere, RouteHeld, Exists
  <1>3. ASSUME NEW r \in Routes, StartRoute(r) PROVE RouteHeld(r)'
    <2>1. ParentsKept /\ KeepsUpstream(r) /\ UNCHANGED route
      BY <1>3, RouteStepKeeps, StartEffect
    <2>2. CASE PassesBy(r)
      BY <1>a, <2>1, <2>2 DEF KeepsUpstream, RouteHeld, Exists, PassesBy
    <2>3. CASE Enters(r)
      <3>1. Anchored
        BY <2>3 DEF Enters, ClassOurs, GatewayHeld, Anchored
      <3> QED
        BY <1>a, <2>1, <2>3, <3>1 DEF Enters, RouteHeld, Exists
    <2> QED
      BY <1>3, <2>2, <2>3, StartEffect
  <1>4. ASSUME NEW r \in Routes, UserChangesRoute(r) PROVE RouteHeld(r)'
    <2>1. ParentsKept /\ KeepsUpstream(r) /\ UNCHANGED pc
      BY <1>4, RouteStepKeeps, ChangeEffect
    <2> USE <1>a, <2>1, <1>f DEF KeepsUpstream, RouteHeld
    <2>2. CASE route'[r] = route[r]
      BY <2>2 DEF Exists
    <2>3. CASE ~Exists(route[r]) /\ route'[r] = [phase |-> "live", fin |-> FALSE]
      BY <2>3
    <2>4. CASE route[r].phase = "live" /\ route'[r] = Deleted(route[r])
      <3>1. /\ route'[r].fin = route[r].fin
            /\ route'[r].fin => route'[r].phase = "deleting"
        BY <2>4 DEF RouteObjects, Deleted
      <3> QED
        BY <3>1 DEF Exists
    <2> QED
      BY <1>4, <2>2, <2>3, <2>4, ChangeEffect
  <1>5. ASSUME NEW r \in Routes, RouteStep(r) \/ Abort(r) PROVE RouteHeld(r)'
    <2>e. Effect(r) /\ ParentsKept
      BY <1>5, RouteStepKeeps, PassEffect, TypesByParts
    <2> USE <1>f, <1>a DEF RouteHeld, KeepsUpstream, Ends
    <2>1. CASE GivesUp(r) \/ GoesOn(r) \/ Looks(r) \/ Deletes(r)
      BY <2>1, <2>e DEF GivesUp, GoesOn, Looks, Deletes, Exists
    <2>2. CASE Creates(r)
      BY <2>2, <2>e DEF Creates, Exists
    <2>3. CASE Releases(r)
      BY <2>3, <2>e DEF Releases, Exists
    <2>4. CASE Finalizes(r)
      <3>1. route'[r].fin /\ route'[r].phase = route[r].phase
        BY <2>4 DEF Finalizes, RouteObjects
      <3> QED
        BY <2>4, <2>e, <3>1 DEF Finalizes, Exists
    <2> QED
      BY <2>e, <2>1, <2>2, <2>3, <2>4 DEF Effect
  <1>6. ASSUME NEW r \in Routes,
               StartRoute(r) \/ RouteStep(r) \/ Abort(r) \/ UserChangesRoute(r)
        PROVE  \A s \in Routes : RouteHeld(s)'
    <2>1. Elsewhere(r) /\ ParentsKept
      BY <1>6, RouteStepKeeps, PassEffect, StartEffect, ChangeEffect, TypesByParts
    <2> QED
      BY <1>2, <1>3, <1>4, <1>5, <1>6, <2>1
  <1>7. CASE Others \/ UserChangesResource \/ UNCHANGED vars
    BY <1>7, <1>1, <1>a, OtherStep
  <1>8. CASE ClassStep \/ GatewayStep \/ UnprogramGateway \/ UserDeletesGateway
    BY <1>8, <1>1, ParentStep
  <1>9. CASE Restart
    BY <1>9, RestartEffect DEF RouteHeld, Anchored, Exists
  <1> QED
    BY <1>6, <1>7, <1>8, <1>9 DEF Next

(* The chain of deletions holds: from the List of HTTPRoutes to the end of *)
(* the Gateway, a route gains the finalizer only as a late one.            *)
LEMMA StepChain ==
  ASSUME Types, GatewayHeld, ChainHeld, \A r \in Routes : RouteHeld(r), [Next]_vars
  PROVE  ChainHeld'
  <1>f. /\ gw.phase \in Phases /\ gw.fin \in BOOLEAN /\ gw.programmed \in BOOLEAN
        /\ \A r \in Routes : route[r].phase \in Phases /\ route[r].fin \in BOOLEAN
        /\ late \in BOOLEAN /\ gw \in GatewayObjects /\ route \in [Routes -> RouteObjects]
    BY Fields, TypesByParts DEF Parts, GatewayTypes, WorldTypes
  <1>1. CASE GatewayKept /\ RoutesKept
    BY <1>1 DEF GatewayKept, RoutesKept, ChainHeld
  <1>2. ASSUME NEW r \in Routes, ParentsKept, Elsewhere(r), late' = late,
               route'[r].fin => route[r].fin
        PROVE  ChainHeld'
    BY <1>2 DEF ParentsKept, GatewayKept, Elsewhere, ChainHeld
  <1>3. ASSUME NEW r \in Routes, StartRoute(r) PROVE ChainHeld'
    <2>1. ParentsKept /\ Elsewhere(r)
      BY <1>3, RouteStepKeeps, StartEffect
    <2>2. UNCHANGED <<route, late>>
      BY <1>3, StartEffect
    <2> QED
      BY <1>2, <2>1, <2>2
  <1>4. ASSUME NEW r \in Routes, UserChangesRoute(r) PROVE ChainHeld'
    <2>1. ParentsKept /\ Elsewhere(r) /\ late' = late
      BY <1>4, RouteStepKeeps, ChangeEffect
    <2>2. route'[r].fin => route[r].fin
      <3>1. Deleted(route[r]).fin = route[r].fin
        BY <1>f DEF Deleted, RouteObjects
      <3> QED
        BY <1>4, <3>1, ChangeEffect
    <2> QED
      BY <1>2, <2>1, <2>2
  <1>5. ASSUME NEW r \in Routes, RouteStep(r) \/ Abort(r) PROVE ChainHeld'
    <2>1. ParentsKept /\ Elsewhere(r) /\ Effect(r)
      BY <1>5, RouteStepKeeps, PassEffect, TypesByParts
    <2>2. CASE PatchRoute(r) /\ Exists(route[r])
      <3>1. late' = (late \/ (r \in HTTPRoutes /\ (gpc = "unfin" \/ gw.phase = "gone")))
        BY <2>2 DEF PatchRoute
      <3> QED
        BY <1>f, <2>1, <3>1 DEF ParentsKept, GatewayKept, Elsewhere, ChainHeld
    <2>3. CASE ~(PatchRoute(r) /\ Exists(route[r]))
      <3>1. late' = late
        BY <1>5, <2>3 DEF RouteStep, PatchRoute, Apply, AwaitReady, ListProxies,
           CreateProxy, GetResource, ReleaseResource, DeleteProxy, ReleaseRoute, Abort,
           history
      <3>2. CASE ReleaseRoute(r)
        <4>1. route'[r] = [phase |-> "gone", fin |-> FALSE]
          BY <1>f, <3>2 DEF ReleaseRoute
        <4> QED
          BY <1>2, <2>1, <3>1, <4>1
      <3>3. ReleaseRoute(r) \/ UNCHANGED route
        BY <1>5, <2>3 DEF RouteStep, PatchRoute, Apply, AwaitReady, ListProxies,
           CreateProxy, GetResource, ReleaseResource, DeleteProxy, Abort
      <3> QED
        BY <1>2, <2>1, <3>1, <3>2, <3>3
    <2> QED
      BY <2>2, <2>3
  <1>6. CASE Others \/ UserChangesResource \/ UNCHANGED vars
    BY <1>6, <1>1, OtherStep DEF ParentsKept
  <1>7. CASE ClassStep \/ GatewayStep \/ UnprogramGateway \/ UserDeletesGateway
    <2>1. RoutesKept
      BY <1>7, ParentStep
    <2>2. CASE AcceptGateway \/ ProgramGateway \/ UnprogramGateway
      BY <1>f, <2>1, <2>2 DEF AcceptGateway, ProgramGateway, UnprogramGateway, RoutesKept, ChainHeld,
         GatewayObjects
    <2>3. CASE ListRoutes
      BY <1>f, <2>1, <2>3 DEF ListRoutes, RoutesKept, ChainHeld, RouteHeld
    <2>4. CASE ReleaseGateway
      BY <1>f, <2>1, <2>4 DEF ReleaseGateway, RoutesKept, ChainHeld, GatewayObjects
    <2>5. CASE gw.phase = "live" /\ gw' = Deleted(gw) /\ gpc' = gpc
      <3>1. CASE gw.fin
        <4>1. gw'.phase = "deleting"
          BY <1>f, <2>5, <3>1 DEF Deleted, GatewayObjects
        <4> QED
          BY <2>1, <2>5, <4>1 DEF ChainHeld, RoutesKept, GatewayHeld
      <3>2. CASE ~gw.fin
        <4>1. \A r \in HTTPRoutes : ~route[r].fin
          BY <1>f, <2>5, <3>2 DEF Anchored, RouteHeld
        <4> QED
          BY <2>1, <4>1 DEF ChainHeld, RoutesKept
      <3> QED
        BY <3>1, <3>2
    <2> QED
      BY <1>1, <1>7, <2>1, <2>2, <2>3, <2>4, <2>5, ParentStep
  <1>8. CASE Restart
    BY <1>8, RestartEffect DEF ChainHeld
  <1> QED
    BY <1>3, <1>4, <1>5, <1>6, <1>7, <1>8 DEF Next

(* The one proxy service of a hostname holds: it is created under the      *)
(* finalizer, the index of the deletion pass shows it, and the pass takes  *)
(* it before the finalizer.  Only under a class of another controller does *)
(* a pass go past it, and there a route has none.                          *)
LEMMA StepProxies ==
  ASSUME Types, \A r \in Routes : RouteHeld(r),
         \A r \in HTTPRoutes : ProxyHeld(r), [Next]_vars
  PROVE  \A r \in HTTPRoutes : ProxyHeld(r)'
  <1>f. \A r \in Routes : /\ route[r] \in RouteObjects
                          /\ proxies[r] \in Nat /\ creates[r] \in Nat
                          /\ proxies[r] <= creates[r]
                          /\ Indexed(r) /\ listed[r] => proxies[r] > 0
    BY Fields, TypesByParts DEF Types, Counted, Parts, WorldTypes
  <1>1. CASE RoutesKept
    BY <1>1 DEF RoutesKept, ProxyHeld, Indexed
  <1>2. ASSUME NEW r \in Routes, Elsewhere(r), r \in HTTPRoutes => ProxyHeld(r)'
        PROVE  \A s \in HTTPRoutes : ProxyHeld(s)'
    BY <1>2 DEF Elsewhere, ProxyHeld, Indexed
  <1>3. ASSUME NEW r \in HTTPRoutes, StartRoute(r) PROVE ProxyHeld(r)'
    <2>1. KeepsUpstream(r) /\ (PassesBy(r) \/ Enters(r))
      BY <1>3, StartEffect
    <2>2. route' = route
      BY <1>3, StartEffect
    <2>3. ~Indexed(r)' /\ pc'[r] # "unfin"
      BY <2>1 DEF PassesBy, Enters, Indexed
    <2> QED
      BY <2>1, <2>2, <2>3 DEF KeepsUpstream, ProxyHeld
  <1>4. ASSUME NEW r \in HTTPRoutes, UserChangesRoute(r) PROVE ProxyHeld(r)'
    <2>1. KeepsUpstream(r) /\ UNCHANGED <<pc, listed>>
      BY <1>4, ChangeEffect
    <2>2. route[r].fin => route'[r].fin
      <3>1. Deleted(route[r]).fin = route[r].fin
        BY <1>f DEF Deleted, RouteObjects
      <3> QED
        BY <1>4, <3>1, ChangeEffect DEF RouteHeld
    <2> QED
      BY <2>1, <2>2 DEF KeepsUpstream, ProxyHeld, Indexed
  <1>5. ASSUME NEW r \in HTTPRoutes, RouteStep(r) \/ Abort(r) PROVE ProxyHeld(r)'
    <2>e. Effect(r)
      BY <1>5, PassEffect, TypesByParts
    <2> USE <1>f DEF ProxyHeld, KeepsUpstream, Ends, Indexed
    <2>1. CASE GivesUp(r)
      BY <2>1 DEF GivesUp
    <2>2. CASE GoesOn(r)
      <3>1. CASE pc'[r] = "unfin"
        <4>1. setup = "foreignClass"
          BY <2>2, <3>1 DEF GoesOn, ParentFound, ClassOurs
        <4>3. ~(creates[r] > 0)
          BY <4>1 DEF RouteHeld, Anchored
        <4>4. proxies[r] = 0
          BY <4>3
        <4> QED
          BY <2>2, <4>4 DEF GoesOn
      <3>2. CASE pc'[r] # "unfin"
        BY <2>2, <3>2 DEF GoesOn
      <3> QED
        BY <3>1, <3>2
    <2>3. CASE Looks(r)
      BY <2>3 DEF Looks
    <2>4. CASE Creates(r)
      <3>1. route'[r].fin
        BY <2>4 DEF Creates, RouteHeld
      <3> QED
        BY <2>4, <3>1 DEF Creates
    <2>5. CASE Deletes(r)
      BY <2>5 DEF Deletes
    <2>6. CASE Releases(r)
      BY <2>6 DEF Releases
    <2>7. CASE Finalizes(r)
      <3>1. route'[r].fin
        BY <2>7 DEF Finalizes, RouteObjects
      <3> QED
        BY <2>7, <3>1 DEF Finalizes
    <2> QED
      BY <2>e, <2>1, <2>2, <2>3, <2>4, <2>5, <2>6, <2>7 DEF Effect
  <1>6. ASSUME NEW r \in Routes,
               StartRoute(r) \/ RouteStep(r) \/ Abort(r) \/ UserChangesRoute(r)
        PROVE  \A s \in HTTPRoutes : ProxyHeld(s)'
    <2>1. Elsewhere(r)
      BY <1>6, PassEffect, StartEffect, ChangeEffect, TypesByParts
    <2> QED
      BY <1>2, <1>3, <1>4, <1>5, <1>6, <2>1
  <1>7. CASE Others \/ UserChangesResource \/ UNCHANGED vars
    BY <1>7, <1>1, OtherStep
  <1>8. CASE ClassStep \/ GatewayStep \/ UnprogramGateway \/ UserDeletesGateway
    BY <1>8, <1>1, ParentStep
  <1>9. CASE Restart
    BY <1>9, RestartEffect DEF ProxyHeld, Indexed
  <1> QED
    BY <1>6, <1>7, <1>8, <1>9 DEF Next

(* Inv is an invariant: at first there are no finalizers and no proxy      *)
(* services.                                                               *)
THEOREM Invariance == Spec => []Inv
  <1>1. Init => Inv
    <2> SUFFICES ASSUME Init PROVE Inv
      OBVIOUS
    <2>1. Types
      BY InitTypes
    <2>2. GatewayHeld
      BY DEF Init, GatewayHeld
    <2>3. ASSUME NEW r \in Routes PROVE ~route[r].fin /\ pc[r] = "idle"
      <3>1. PICK live \in SUBSET Routes :
              route = [x \in Routes |-> [phase |-> IF x \in live THEN "live" ELSE "none",
                                        fin |-> FALSE]]
        BY DEF Init
      <3> QED
        BY <3>1 DEF Init
    <2>4. ChainHeld
      BY <2>3 DEF ChainHeld
    <2>5. ASSUME NEW r \in Routes PROVE RouteHeld(r) /\ ProxyHeld(r)
      <3>1. ~(proxies[r] > 0) /\ ~(creates[r] > 0)
        BY DEF Init
      <3> QED
        BY <2>3, <3>1 DEF RouteHeld, ProxyHeld
    <2> QED
      BY <2>1, <2>2, <2>4, <2>5 DEF Inv
  <1>2. Inv /\ [Next]_vars => Inv'
    <2> SUFFICES ASSUME Inv, [Next]_vars PROVE Inv'
      OBVIOUS
    <2>1. Types' /\ GatewayHeld'
      BY StepTypes, StepParents DEF Inv
    <2>2. \A r \in Routes : RouteHeld(r)'
      BY StepRoutes DEF Inv
    <2>3. ChainHeld'
      BY StepChain DEF Inv
    <2>4. \A r \in HTTPRoutes : ProxyHeld(r)'
      BY StepProxies DEF Inv
    <2> QED
      BY <2>1, <2>2, <2>3, <2>4 DEF Inv
  <1> QED
    BY <1>1, <1>2, PTL DEF Spec

(* GatewayReconciler's reconcileDelete lets a Gateway go only after the    *)
(* HTTPRoutes that need it for their own deletion, but for one that came   *)
(* between its List and its Patch: whatever order the three controllers,   *)
(* failed calls and users take.                                            *)
THEOREM GatewayGoesLast == Spec => []GatewayOutlivesRoutes
  <1>1. Inv => GatewayOutlivesRoutes
    BY DEF Inv, ChainHeld, GatewayOutlivesRoutes
  <1> QED
    BY <1>1, Invariance, PTL

(* An HTTPRoute that is gone leaves a proxy service upstream only if more  *)
(* than one was created for its hostname: a pass cut off between the       *)
(* creation and the end, or between the deletions, leaves none.            *)
THEOREM ProxyLeaksBounded == Spec => []ProxyLeaksAccounted
  <1>1. Inv => ProxyLeaksAccounted
    <2> SUFFICES ASSUME Inv, NEW r \in HTTPRoutes, route[r].phase = "gone",
                        proxies[r] > 0
                 PROVE  creates[r] > 1
      BY DEF ProxyLeaksAccounted
    <2>1. ~route[r].fin
      BY DEF Inv, RouteHeld, Exists
    <2>2. creates[r] \in Nat
      BY Fields DEF Inv
    <2>3. ~(creates[r] <= 1)
      BY <2>1 DEF Inv, ProxyHeld
    <2> QED
      BY <2>2, <2>3
  <1> QED
    BY <1>1, Invariance, PTL

-----------------------------------------------------------------------------
(* What the deletion of a route needs.  A route with the finalizer owns    *)
(* the NetworkResource as long as none of the harms that DeletionSettled   *)
(* names has come to it, except inside a pass that has yet to apply it or  *)
(* has released it.                                                        *)
Unharmed(r) == harm[r] \cap {"cut", "doomed", "replaced", "taken"} = {}
Owns(r) == nr.phase = "live" /\ r \in nr.owners
OwnerKept ==
    svc => \A r \in Routes :
             /\ route[r].fin /\ Unharmed(r)
             /\ pc[r] \notin {"apply", "delProxy", "unfin"}
             => Owns(r)

(* The claim for one route, and what a step may do to it.                  *)
Claims(r) == /\ svc /\ route[r].fin /\ Unharmed(r)
             /\ pc[r] \notin {"apply", "delProxy", "unfin"}

LEMMA OwnersByRoute == OwnerKept <=> \A r \in Routes : Claims(r) => Owns(r)
  BY DEF OwnerKept, Claims

LEMMA ClaimKept ==
  ASSUME NEW s, svc' => svc, route'[s].fin => route[s].fin, harm[s] \subseteq harm'[s],
         pc'[s] = pc[s], Claims(s)'
  PROVE  Claims(s)
  BY DEF Claims, Unharmed

(* Steps of the class, the Gateway, the other controllers and the users.   *)
LEMMA WorldKeepsOwners ==
  ASSUME Types, OwnerKept,
         \/ ClassStep \/ GatewayStep \/ UnprogramGateway \/ UserDeletesGateway
         \/ Others \/ UserChangesResource \/ UNCHANGED vars
  PROVE  OwnerKept'
  <1> SUFFICES ASSUME NEW s \in Routes, Claims(s)' PROVE Owns(s)'
    BY DEF OwnerKept, Claims
  <1>o. nr \in Resources
    BY TypesByParts DEF Parts, WorldTypes
  <1>r. UNCHANGED <<route, pc, harm>>
    BY DEF ClassStep, AcceptClass, ListGateways, ReleaseClass, GatewayStep, AcceptGateway,
       ProgramGateway, ListRoutes, ReleaseGateway, UnprogramGateway, UserDeletesGateway,
       Others, RouterReady, ResourceReady, ResourceGone, CollectResource,
       UserChangesResource, vars, pass, history
  <1>w. \/ UNCHANGED <<svc, nr>>
        \/ ResourceReady \/ ResourceGone \/ CollectResource \/ UserChangesResource
    BY DEF ClassStep, AcceptClass, ListGateways, ReleaseClass, GatewayStep, AcceptGateway,
       ProgramGateway, ListRoutes, ReleaseGateway, UnprogramGateway, UserDeletesGateway,
       Others, RouterReady, vars, world
  <1>1. svc' => svc
    BY <1>w DEF ResourceReady, ResourceGone, CollectResource, UserChangesResource, world
  <1>2. Claims(s) /\ svc
    BY <1>r, <1>1, ClaimKept DEF Claims
  <1>3. Owns(s)
    BY <1>2, OwnersByRoute
  <1>4. CASE UNCHANGED <<svc, nr>>
    BY <1>3, <1>4 DEF Owns
  <1>5. CASE ResourceReady
    BY <1>3, <1>5, <1>o DEF ResourceReady, Owns, Resources
  <1>6. CASE ResourceGone \/ CollectResource
    BY <1>2, <1>3, <1>6 DEF ResourceGone, CollectResource, Owns
  <1>7. CASE UserChangesResource
    <2>1. nr' = nr \/ nr' = [nr EXCEPT !.foreign = TRUE]
      BY <1>7 DEF UserChangesResource, world
    <2> QED
      BY <1>3, <1>o, <2>1 DEF Owns, Resources
  <1> QED
    BY <1>w, <1>4, <1>5, <1>6, <1>7

(* The passes of the routes.                                               *)
LEMMA PassKeepsOwners ==
  ASSUME Types, \A s \in Routes : RouteHeld(s), OwnerKept, NEW r \in Routes,
         StartRoute(r) \/ RouteStep(r) \/ Abort(r) \/ UserChangesRoute(r)
  PROVE  OwnerKept'
  <1> SUFFICES ASSUME NEW s \in Routes, Claims(s)' PROVE Owns(s)'
    BY DEF OwnerKept, Claims
  <1>t. /\ nr \in Resources /\ route \in [Routes -> RouteObjects]
        /\ pc \in [Routes -> PassLabels] /\ harm \in [Routes -> SUBSET Harms]
        /\ svc \in BOOLEAN
    BY TypesByParts DEF Parts, WorldTypes, PassTypes, HistoryTypes
  <1>e. Elsewhere(r)
    BY PassEffect, StartEffect, ChangeEffect, TypesByParts
  <1>v. svc' = svc
    BY DEF StartRoute, RouteStep, PatchRoute, Apply, AwaitReady, ListProxies, CreateProxy,
       GetResource, ReleaseResource, DeleteProxy, ReleaseRoute, Abort, UserChangesRoute,
       world
  <1>k. ASSUME Claims(s), nr' = nr PROVE Owns(s)'
    BY <1>k, OwnersByRoute DEF Owns
  <1>1. CASE StartRoute(r)
    <2>1. nr' = nr /\ route' = route
      BY <1>1 DEF StartRoute, world
    <2>2. Unharmed(s)' => Unharmed(s)
      BY <1>1, <1>t DEF StartRoute, Unharmed
    <2>3. pc[s] \notin {"apply", "delProxy", "unfin"}
      <3>1. CASE s = r
        BY <1>1, <3>1, StartEffect
      <3>2. CASE s # r
        BY <1>e, <3>2 DEF Elsewhere, Claims
      <3> QED
        BY <3>1, <3>2
    <2> QED
      BY <1>k, <1>v, <2>1, <2>2, <2>3 DEF Claims
  <1>2. CASE UserChangesRoute(r)
    <2>1. nr' = nr /\ pc' = pc
      BY <1>2 DEF UserChangesRoute, world
    <2>2. route'[s].fin /\ route[s].fin
      <3>1. CASE s = r
        <4>1. Deleted(route[r]).fin = route[r].fin
          BY <1>t DEF Deleted, RouteObjects
        <4> QED
          BY <1>2, <3>1, <4>1, ChangeEffect DEF Claims
      <3>2. CASE s # r
        BY <1>e, <3>2 DEF Elsewhere, Claims
      <3> QED
        BY <3>1, <3>2
    <2>3. harm'[s] = harm[s]
      BY <1>2, <1>t, <2>2 DEF UserChangesRoute, RouteHeld
    <2> QED
      BY <1>k, <1>v, <2>1, <2>2, <2>3 DEF Claims, Unharmed
  <1>3. CASE PatchRoute(r)
    <2>1. nr' = nr /\ harm' = harm
      BY <1>3 DEF PatchRoute, world
    <2>2. CASE s = r
      <3>1. pc'[r] # "apply"
        BY <2>2 DEF Claims
      <3>2. route' = route
        BY <1>3, <1>t, <3>1 DEF PatchRoute
      <3>3. pc[s] = "patch"
        BY <1>3, <2>2 DEF PatchRoute
      <3> QED
        BY <1>k, <1>v, <2>1, <3>2, <3>3 DEF Claims, Unharmed
    <2>3. CASE s # r
      BY <1>e, <1>k, <1>v, <2>1, <2>3 DEF Elsewhere, Claims, Unharmed
    <2> QED
      BY <2>2, <2>3
  <1>4. CASE Apply(r)
    <2>0. svc
      BY <1>v DEF Claims
    <2>1. /\ nr' = IF nr.phase = "none"
                     THEN [NoResource EXCEPT !.phase = "live", !.owners = {r}]
                     ELSE [nr EXCEPT !.owners = {r}]
          /\ harm' = [x \in Routes |->
                        CASE x = r -> IF nr.phase = "deleting" THEN {"doomed"} ELSE {}
                          [] x # r /\ x \in nr.owners -> harm[x] \cup {"replaced"}
                          [] OTHER -> harm[x]]
      BY <1>4, <2>0 DEF Apply
    <2>2. CASE s = r
      <3>1. nr.phase # "deleting"
        BY <2>1, <2>2 DEF Claims, Unharmed
      <3>2. nr'.phase = "live" /\ nr'.owners = {r}
        BY <1>t, <2>1, <3>1 DEF Resources, NoResource
      <3> QED
        BY <2>2, <3>2 DEF Owns
    <2>3. CASE s # r
      <3>1. s \notin nr.owners /\ harm'[s] = harm[s]
        BY <2>1, <2>3 DEF Claims, Unharmed
      <3>2. Claims(s)
        BY <1>e, <1>v, <2>3, <3>1 DEF Elsewhere, Claims, Unharmed
      <3> QED
        BY <3>1, <3>2, OwnersByRoute DEF Owns
    <2> QED
      BY <2>2, <2>3
  <1>5. CASE ReleaseResource(r)
    <2>1. CASE UNCHANGED <<nr, harm>> /\ End(r, TRUE)
      <3>1. Claims(s)
        <4>1. route' = route /\ pc[r] = "release"
          BY <1>5 DEF ReleaseResource
        <4> QED
          BY <1>e, <1>v, <2>1, <4>1 DEF Elsewhere, Claims, Unharmed
      <3> QED
        BY <1>k, <2>1, <3>1
    <2>2. CASE Goto(r, IF r \in HTTPRoutes THEN "delProxy" ELSE "unfin")
      <3>1. s # r
        BY <1>t, <2>2 DEF Goto, Claims
      <3>2. harm[s] \subseteq harm'[s]
        <4>1. \/ harm' = harm
              \/ harm' = [x \in Routes |-> IF x # r /\ Exists(route[x])
                                            THEN harm[x] \cup {"taken"} ELSE harm[x]]
          BY <1>5 DEF ReleaseResource
        <4>2. CASE harm' = harm
          BY <4>2
        <4>3. CASE harm' = [x \in Routes |-> IF x # r /\ Exists(route[x])
                                               THEN harm[x] \cup {"taken"} ELSE harm[x]]
          <5>1. harm'[s] = harm[s] \/ harm'[s] = harm[s] \cup {"taken"}
            BY <4>3
          <5> QED
            BY <5>1
        <4> QED
          BY <4>1, <4>2, <4>3
      <3>3. Claims(s)
        BY <1>e, <1>v, <3>1, <3>2, ClaimKept DEF Elsewhere
      <3>4. Owns(s)
        BY <3>3, OwnersByRoute
      <3>5. CASE nr' = [nr EXCEPT !.owners = @ \ {r}]
        BY <1>t, <3>1, <3>4, <3>5 DEF Owns, Resources
      <3>6. CASE harm' = [x \in Routes |-> IF x # r /\ Exists(route[x])
                                             THEN harm[x] \cup {"taken"} ELSE harm[x]]
        <4>1. Exists(route[s])
          BY <3>3 DEF Claims, RouteHeld
        <4>2. "taken" \in harm'[s]
          BY <3>1, <3>6, <4>1
        <4> QED
          BY <4>2 DEF Claims, Unharmed
      <3> QED
        BY <1>5, <1>t, <2>2, <3>1, <3>5, <3>6 DEF ReleaseResource, Goto, End, Claims
    <2> QED
      BY <1>5, <2>1, <2>2 DEF ReleaseResource
  <1>6. CASE Abort(r)
    <2>1. nr' = nr /\ route' = route /\ harm' = [harm EXCEPT ![r] = Harmed(r)]
      BY <1>6 DEF Abort, world
    <2>2. CASE s = r
      <3>1. ~CutShort(r) /\ harm'[s] = harm[s]
        BY <1>t, <2>1, <2>2 DEF Claims, Unharmed, Harmed
      <3>2. CASE pc[r] = "apply"
        BY <2>1, <2>2, <3>1, <3>2 DEF CutShort, Owns
      <3>3. CASE pc[r] # "apply"
        BY <1>k, <1>v, <2>1, <2>2, <3>1, <3>3 DEF CutShort, Claims, Unharmed
      <3> QED
        BY <3>2, <3>3
    <2>3. CASE s # r
      <3>1. harm'[s] = harm[s]
        BY <1>t, <2>1, <2>3
      <3> QED
        BY <1>e, <1>k, <1>v, <2>1, <2>3, <3>1 DEF Elsewhere, Claims, Unharmed
    <2> QED
      BY <2>2, <2>3
  <1>7. CASE \/ AwaitReady(r) \/ ListProxies(r) \/ CreateProxy(r) \/ GetResource(r)
             \/ DeleteProxy(r) \/ ReleaseRoute(r)
    <2>1. nr' = nr /\ harm' = harm
      BY <1>7 DEF AwaitReady, ListProxies, CreateProxy, GetResource, DeleteProxy,
         ReleaseRoute, world, history
    <2>2. CASE s = r
      <3>1. CASE ReleaseRoute(r)
        <4>1. route'[r] = [phase |-> "gone", fin |-> FALSE]
          BY <1>t, <3>1 DEF ReleaseRoute
        <4> QED
          BY <2>2, <4>1 DEF Claims
      <3>2. CASE DeleteProxy(r)
        BY <1>t, <2>2, <3>2 DEF DeleteProxy, Goto, Claims
      <3>3. CASE \/ AwaitReady(r) \/ ListProxies(r) \/ CreateProxy(r) \/ GetResource(r)
        <4>1. route' = route /\ pc[r] \notin {"apply", "delProxy", "unfin"}
          BY <3>3 DEF AwaitReady, ListProxies, CreateProxy, GetResource
        <4> QED
          BY <1>k, <1>v, <2>1, <2>2, <4>1 DEF Claims, Unharmed
      <3> QED
        BY <1>7, <3>1, <3>2, <3>3
    <2>3. CASE s # r
      BY <1>e, <1>k, <1>v, <2>1, <2>3 DEF Elsewhere, Claims, Unharmed
    <2> QED
      BY <2>2, <2>3
  <1> QED
    BY <1>1, <1>2, <1>3, <1>4, <1>5, <1>6, <1>7 DEF RouteStep

(* A restart leaves its mark on every pass it cuts short.                  *)
LEMMA RestartKeepsOwners ==
  ASSUME Types, OwnerKept, Restart
  PROVE  OwnerKept'
  <1> SUFFICES ASSUME NEW s \in Routes, Claims(s)' PROVE Owns(s)'
    BY DEF OwnerKept, Claims
  <1>1. /\ UNCHANGED <<svc, nr, route>>
        /\ harm'[s] = Harmed(s)
    BY DEF Restart, world
  <1>2. ~CutShort(s) /\ harm'[s] = harm[s]
    BY <1>1 DEF Claims, Unharmed, Harmed
  <1>3. CASE pc[s] = "apply"
    BY <1>1, <1>2, <1>3 DEF CutShort, Owns
  <1>4. CASE pc[s] # "apply"
    <2>1. Claims(s)
      BY <1>1, <1>2, <1>4 DEF CutShort, Claims, Unharmed
    <2> QED
      BY <1>1, <2>1, OwnersByRoute DEF Owns
  <1> QED
    BY <1>3, <1>4

(* The deletion of an HTTPRoute or TCPRoute finds the owner reference that *)
(* reconcileDelete insists on, for any number of routes to one Service and *)
(* in every order of their passes, unless one of the four harms has come   *)
(* to it: its own pass cut off before Apply or after the release, an Apply *)
(* to a NetworkResource that was being deleted, another route's Apply, or  *)
(* another route's Delete.                                                 *)
THEOREM DeletionFindsOwner == Spec => []OwnerKept
  <1>1. Init => OwnerKept
    <2> SUFFICES ASSUME Init, NEW r \in Routes PROVE ~route[r].fin
      BY DEF OwnerKept
    <2>1. PICK live \in SUBSET Routes :
            route = [x \in Routes |-> [phase |-> IF x \in live THEN "live" ELSE "none",
                                      fin |-> FALSE]]
      BY DEF Init
    <2> QED
      BY <2>1
  <1>2. Inv /\ OwnerKept /\ [Next]_vars => OwnerKept'
    BY WorldKeepsOwners, PassKeepsOwners, RestartKeepsOwners DEF Inv, Next
  <1> QED
    BY <1>1, <1>2, Invariance, PTL DEF Spec
=============================================================================
