---------------------------- MODULE ServiceProofs ----------------------------
(***************************************************************************)
(* Proofs about Service, the Service controller over the OZResource        *)
(* controller, for every set of groups, policies, ids and configurations   *)
(* of a Service and every bound: what is left upstream and in policies     *)
(* when an OZResource is gone, and that no network resource is without     *)
(* groups.                                                                 *)
(***************************************************************************)
EXTENDS Service, FiniteSetTheorems, TLAPS

USE IdsAssumption, BoundsAssumption

-----------------------------------------------------------------------------
(* Shapes.  Which lists of ports can come up is not settled here, so an    *)
(* object is a record with the fields of Objects, those that matter typed. *)
IsSpec(s) == s \in [pols : SUBSET Policies, ports : {s.ports}, src : {s.src},
                    groups : SUBSET Groups]
IsObject(o) ==
    /\ o \in [phase : {"live", "deleting", "gone"}, rfin : BOOLEAN, spec : {o.spec},
              sid : Ids \cup {None}, spols : SUBSET Policies, sports : {o.sports},
              map : {o.map}, ready : {o.ready}]
    /\ IsSpec(o.spec)

UpRecords == [st : {"unused", "live", "removed", "deleted"}, groups : SUBSET Groups]
PolicyRecords == [st : {"absent", "live", "deleting"}, managed : BOOLEAN]

ServiceTypes == svc \in Services /\ scache \in Services /\ sloc \in Services

Shapes ==
    /\ IsObject(ozr) /\ IsObject(rcache) /\ IsObject(loc)
    /\ up \in [Ids -> UpRecords]
    /\ pol \in [Policies -> PolicyRecords]
    /\ todo \subseteq Policies /\ gids \subseteq Groups
    /\ lapses \in Nat
    /\ fresh \in BOOLEAN /\ clash \in BOOLEAN /\ broken \in BOOLEAN

-----------------------------------------------------------------------------
(* Groups.  The spec of an OZResource that exists names the groups of a    *)
(* configuration; a pass that comes to the network resource without having *)
(* lost an OZGroup on the way has the ids of all of them.                  *)
GroupSets == {c.groups : c \in Configs}
NamesGroups(o) == o.phase # "gone" => o.spec.groups \in GroupSets
GroupsNamed ==
    /\ NamesGroups(ozr) /\ NamesGroups(rcache)
    /\ pc # "idle" => loc.phase # "gone" /\ NamesGroups(loc)
GroupsInHand ==
    ungrouped \/ (/\ pc = "resource" => gids \in GroupSets
                  /\ \A i \in Live : up[i].groups \in GroupSets)

-----------------------------------------------------------------------------
(* The id.  As long as no call failed and no write of the Service          *)
(* controller doomed a save, a running pass works on the API's object, and *)
(* only its last step, the save, has an id that the API has not.           *)
Undisturbed == lapses = 0 /\ ~clash
PassCurrent ==
    Undisturbed /\ pc # "idle" =>
        /\ fresh
        /\ ozr.phase # "gone"
        /\ pc # "save" => loc.sid = ozr.sid /\ loc.spols = ozr.spols
IdKnown ==
    /\ ozr.phase = "gone" => ozr.sid = None /\ ozr.spols = {}
    /\ Undisturbed =>
         /\ Live \subseteq {ozr.sid} \cup (IF pc = "save" THEN {loc.sid} ELSE {})
         /\ pc = "save" /\ loc.sid # ozr.sid => ozr.sid \notin Live
         /\ pc \in {"delGrp", "delFin"} => ozr.sid \notin Live

-----------------------------------------------------------------------------
(* Policies.  A policy that was generated under a name is not one that a   *)
(* user wrote; the plain ones that list this object are those of the saved *)
(* status, and those of the spec while a pass is at work on them, but for  *)
(* the entries that a pass has overlooked.                                 *)
Managed == {p \in Policies : pol[p].managed}
Owed == Managed \ overlooked
Unwritten == {p \in Policies : pol[p].st = "absent"}
Unshown == {p \in Policies : pcache[p].st = "absent"}
Undisrupted == Undisturbed /\ ~broken
MapsUnwritten ==
    /\ Managed \cap Unwritten = {}
    /\ Unshown = Unwritten
    /\ ozr.map \subseteq Unwritten /\ rcache.map \subseteq Unwritten
    /\ loc.map \subseteq Unwritten
TodoKnown ==
    /\ pc \in {"policy", "register"} => todo \subseteq loc.spec.pols
    /\ pc = "register" => todo # {}
    /\ pc = "delPol" => todo \subseteq loc.spols
PoliciesKnown ==
    Undisrupted =>
        /\ pc \in {"idle", "fin", "groups", "ensure", "resource"} => Owed \subseteq ozr.spols
        /\ pc \in {"policy", "register"} => Owed \subseteq loc.spols \cup loc.spec.pols
        /\ pc = "unpolicy" => Owed \subseteq loc.spec.pols \cup todo
        /\ pc = "save" => Owed \subseteq loc.spols
        /\ pc = "delPol" => Owed \subseteq todo
        /\ pc \in {"delGrp", "delFin"} => Owed = {}

Inv == /\ Shapes /\ GroupsNamed /\ GroupsInHand /\ PassCurrent /\ IdKnown
       /\ MapsUnwritten /\ TodoKnown /\ PoliciesKnown

-----------------------------------------------------------------------------
(* What the writes do to an object.                                        *)
SameStatus(o, q) == q.sid = o.sid /\ q.spols = o.spols /\ q.map = o.map

LEMMA NewObject ==
  ASSUME NEW s, IsSpec(s)
  PROVE  /\ IsObject(New(s)) /\ New(s).phase = "live" /\ New(s).spec = s
         /\ New(s).sid = None /\ New(s).spols = {} /\ New(s).map = {}
  BY DEF New, IsObject

LEMMA EditObject ==
  ASSUME NEW o, IsObject(o), NEW s, IsSpec(s)
  PROVE  LET q == [o EXCEPT !.spec = s, !.rfin = FALSE]
         IN  /\ IsObject(q) /\ q.phase = o.phase /\ q.spec = s
             /\ SameStatus(o, q)
  <1> DEFINE q == [o EXCEPT !.spec = s, !.rfin = FALSE]
  <1>1. IsObject(q)
    BY DEF IsObject, IsSpec
  <1> QED
    BY <1>1 DEF IsObject, SameStatus

LEMMA PhaseObject ==
  ASSUME NEW o, IsObject(o), NEW ph \in {"live", "deleting", "gone"}
  PROVE  LET q == [o EXCEPT !.phase = ph]
         IN  /\ IsObject(q) /\ q.phase = ph /\ q.spec = o.spec
             /\ SameStatus(o, q)
  <1> DEFINE q == [o EXCEPT !.phase = ph]
  <1>1. IsObject(q)
    BY DEF IsObject, IsSpec
  <1> QED
    BY <1>1 DEF IsObject, SameStatus

LEMMA GoneObject ==
  /\ IsObject(Gone) /\ Gone.phase = "gone" /\ Gone.sid = None
  /\ Gone.spols = {} /\ Gone.map = {}
  <1> DEFINE none == [pols |-> {}, ports |-> <<>>, src |-> FALSE, groups |-> {}]
  <1>1. IsSpec(none)
    BY DEF IsSpec
  <1>2. Gone = [New(none) EXCEPT !.phase = "gone"]
    BY DEF Gone
  <1>3. /\ IsObject(New(none)) /\ New(none).sid = None
        /\ New(none).spols = {} /\ New(none).map = {}
    BY <1>1, NewObject
  <1> HIDE DEF none
  <1> DEFINE o == New(none)
             q == [o EXCEPT !.phase = "gone"]
  <1>4. IsObject(o) /\ o.sid = None /\ o.spols = {} /\ o.map = {}
    BY <1>3
  <1> HIDE DEF o
  <1>5. IsObject(q) /\ q.phase = "gone" /\ SameStatus(o, q)
    BY <1>4, PhaseObject
  <1> QED
    BY <1>2, <1>4, <1>5 DEF SameStatus, o

LEMMA HoldObject ==
  ASSUME NEW o, IsObject(o)
  PROVE  LET q == [o EXCEPT !.rfin = TRUE]
         IN  /\ IsObject(q) /\ q.phase = o.phase /\ q.spec = o.spec
             /\ SameStatus(o, q)
  <1> DEFINE q == [o EXCEPT !.rfin = TRUE]
  <1>1. IsObject(q)
    BY DEF IsObject, IsSpec
  <1> QED
    BY <1>1 DEF IsObject, SameStatus

LEMMA MarkObject ==
  ASSUME NEW o, IsObject(o), NEW x
  PROVE  LET q == [o EXCEPT !.ready = x]
         IN  /\ IsObject(q) /\ q.phase = o.phase /\ q.spec = o.spec
             /\ SameStatus(o, q)
  <1> DEFINE q == [o EXCEPT !.ready = x]
  <1>1. IsObject(q)
    BY DEF IsObject, IsSpec
  <1> QED
    BY <1>1 DEF IsObject, SameStatus

LEMMA PortsObject ==
  ASSUME NEW o, IsObject(o), NEW x
  PROVE  LET q == [o EXCEPT !.sports = x]
         IN  /\ IsObject(q) /\ q.phase = o.phase /\ q.spec = o.spec
             /\ SameStatus(o, q)
  <1> DEFINE q == [o EXCEPT !.sports = x]
  <1>1. IsObject(q)
    BY DEF IsObject, IsSpec
  <1> QED
    BY <1>1 DEF IsObject, SameStatus

LEMMA IdObject ==
  ASSUME NEW o, IsObject(o), NEW i \in Ids \cup {None}
  PROVE  LET q == [o EXCEPT !.sid = i]
         IN  /\ IsObject(q) /\ q.phase = o.phase /\ q.spec = o.spec
             /\ q.sid = i /\ q.spols = o.spols /\ q.map = o.map
  <1> DEFINE q == [o EXCEPT !.sid = i]
  <1>1. IsObject(q)
    BY DEF IsObject, IsSpec
  <1> QED
    BY <1>1 DEF IsObject, SameStatus

LEMMA MapObject ==
  ASSUME NEW o, IsObject(o), NEW m
  PROVE  LET q == [o EXCEPT !.map = m]
         IN  /\ IsObject(q) /\ q.phase = o.phase /\ q.spec = o.spec
             /\ q.sid = o.sid /\ q.spols = o.spols /\ q.map = m
  <1> DEFINE q == [o EXCEPT !.map = m]
  <1>1. IsObject(q)
    BY DEF IsObject, IsSpec
  <1> QED
    BY <1>1 DEF IsObject, SameStatus

LEMMA FinishObject ==
  ASSUME NEW o, IsObject(o)
  PROVE  LET q == [o EXCEPT !.spols = o.spec.pols, !.ready = "true"]
         IN  /\ IsObject(q) /\ q.phase = o.phase /\ q.spec = o.spec
             /\ q.sid = o.sid /\ q.spols = o.spec.pols /\ q.map = o.map
  <1> DEFINE q == [o EXCEPT !.spols = o.spec.pols, !.ready = "true"]
  <1>1. IsObject(q)
    BY DEF IsObject, IsSpec
  <1> QED
    BY <1>1 DEF IsObject, SameStatus

(* The spec that a Service asks for.                                       *)
LEMMA NewSpecShape ==
  ASSUME NEW c \in Configs, NEW old
  PROVE  IsSpec(NewSpec(old, c)) /\ NewSpec(old, c).groups \in GroupSets
  <1>1. c.pols \subseteq Policies /\ c.groups \subseteq Groups /\ c.groups \in GroupSets
    BY ConfigsAssumption DEF GroupSets
  <1>2. /\ NewSpec(old, c).pols = c.pols /\ NewSpec(old, c).groups = c.groups
        /\ \E x, y : NewSpec(old, c) = [pols |-> c.pols, ports |-> x, src |-> y,
                                        groups |-> c.groups]
    BY DEF NewSpec
  <1> QED
    BY <1>1, <1>2 DEF IsSpec

-----------------------------------------------------------------------------
(* The kinds of steps, by what they do to the state that Inv is about.     *)
Noted == <<broken, ungrouped, overlooked>>
Rest == UNCHANGED <<rcache, loc, up, pol, pcache, todo, gids, pc, Noted>>

(* Nothing of it, save that a call may have failed.                        *)
Aside == Rest /\ UNCHANGED <<ozr, fresh, clash>> /\ lapses' \in {lapses, lapses + 1}

(* The Service controller creates, edits or deletes the OZResource.        *)
Creates == /\ Rest /\ lapses' = lapses /\ Overtake
           /\ ozr.phase = "gone"
           /\ \E c \in Configs : ozr' = New(NewSpec(rcache.spec, c))
Edits == /\ Rest /\ lapses' = lapses /\ Overtake
         /\ rcache = ozr /\ ozr.phase # "gone"
         /\ \E c \in Configs : ozr' = [ozr EXCEPT !.spec = NewSpec(rcache.spec, c),
                                                 !.rfin = FALSE]
Hides == /\ Rest /\ lapses' = lapses /\ Overtake
         /\ ozr.phase = "live" /\ ozr' = [ozr EXCEPT !.phase = "deleting"]

(* An informer catches up; an administrator removes a network resource.   *)
Syncs == /\ rcache' = ozr
         /\ UNCHANGED <<ozr, loc, up, pol, pcache, todo, gids, pc, fresh, lapses, clash, Noted>>
Shows == /\ pcache' = pol
         /\ UNCHANGED <<ozr, rcache, loc, up, pol, todo, gids, pc, fresh, lapses, clash, Noted>>
Removes == /\ \E i \in Live : up' = [up EXCEPT ![i].st = "removed"]
           /\ UNCHANGED <<ozr, rcache, loc, pol, pcache, todo, gids, pc, fresh, lapses, clash,
                          Noted>>

(* The OZResource controller's pass is cut off.                            *)
Fails == /\ EndPass /\ lapses' = lapses + 1
         /\ UNCHANGED <<ozr, rcache, up, pol, pcache, clash, Noted>>

ServiceKind == Aside \/ Creates \/ Edits \/ Hides \/ Syncs \/ Shows \/ Removes \/ Fails

(* The configuration a running pass works with is one a Service may have.  *)
LEMMA ServiceStepTypes == ServiceTypes /\ [Next]_vars => ServiceTypes'
  <1> SUFFICES ASSUME ServiceTypes, [Next]_vars PROVE ServiceTypes'
    OBVIOUS
  <1>n. NoService \in Services
    BY ConfigsAssumption DEF NoService, Services
  <1>e. \A b : SEnd(b) => sloc' = NoService
    BY DEF SEnd
  <1>g. \A l : SGoto(l) => sloc' = sloc
    BY DEF SGoto
  <1> USE DEF ServiceTypes
  <1>1. CASE SStart
    BY <1>1, <1>n DEF SStart
  <1>2. CASE SAddFinalizer
    BY <1>2, <1>n, <1>e DEF SAddFinalizer, Services
  <1>3. CASE ExposeRouter \/ ExposeResource \/ SAbort
    BY <1>3, <1>n, <1>e DEF ExposeRouter, ExposeResource, SAbort
  <1>4. CASE HideResource
    BY <1>4, <1>n, <1>e, <1>g DEF HideResource
  <1>5. CASE SRemoveFinalizer
    <2>1. [svc EXCEPT !.fin = FALSE, !.phase = IF @ = "deleting" THEN "gone" ELSE @] \in Services
      BY DEF Services
    <2> QED
      BY <1>5, <2>1, <1>n, <1>e DEF SRemoveFinalizer
  <1>6. CASE SCacheSync \/ RouterReady
    BY <1>6 DEF SCacheSync, RouterReady
  <1>7. CASE UserChange
    <2>1. \A c \in Configs : /\ [svc EXCEPT !.cfg = c] \in Services
                             /\ [phase |-> "live", fin |-> FALSE, cfg |-> c] \in Services
      BY DEF Services
    <2>2. [svc EXCEPT !.phase = IF svc.fin THEN "deleting" ELSE "gone"] \in Services
      BY DEF Services
    <2> QED
      BY <1>7, <2>1, <2>2 DEF UserChange
  <1>8. CASE SameService \/ UNCHANGED vars
    BY <1>8 DEF SameService, vars, service
  <1> QED
    BY <1>1, <1>2, <1>3, <1>4, <1>5, <1>6, <1>7, <1>8 DEF Next, SStep

LEMMA StepKinds ==
  ASSUME ServiceTypes, [Next]_vars
  PROVE  ServiceKind \/ (RStep /\ UNCHANGED clash)
  <1> USE DEF ServiceKind, Rest, ovars, kube, others, copies, pass, history, Noted
  <1>1. CASE SStart \/ SAddFinalizer \/ ExposeRouter \/ SRemoveFinalizer \/ SAbort
    BY <1>1 DEF SStart, SAddFinalizer, ExposeRouter, SRemoveFinalizer, SAbort, Aside
  <1>2. CASE SCacheSync \/ RouterReady \/ UserChange
    BY <1>2 DEF SCacheSync, RouterReady, UserChange, Aside
  <1>3. CASE ExposeResource
    <2>1. sloc.cfg \in Configs
      BY DEF ServiceTypes, Services
    <2>2. Rest /\ lapses' = lapses
      BY <1>3 DEF ExposeResource
    <2>3. CASE UNCHANGED <<ozr, fresh, clash>>
      BY <2>2, <2>3 DEF Aside
    <2>4. CASE ~UNCHANGED <<ozr, fresh, clash>>
      <3>1. /\ Overtake
            /\ IF rcache.phase = "gone" THEN ozr.phase = "gone" ELSE rcache = ozr
            /\ ozr' = IF rcache.phase = "gone" THEN New(NewSpec(rcache.spec, sloc.cfg))
                      ELSE [ozr EXCEPT !.spec = NewSpec(rcache.spec, sloc.cfg),
                                       !.rfin = FALSE]
        BY <1>3, <2>4 DEF ExposeResource
      <3>2. CASE rcache.phase = "gone"
        BY <2>1, <2>2, <3>1, <3>2 DEF Creates
      <3>3. CASE rcache.phase # "gone"
        BY <2>1, <2>2, <3>1, <3>3 DEF Edits
      <3> QED
        BY <3>2, <3>3
    <2> QED
      BY <2>3, <2>4
  <1>4. CASE HideResource
    <2>1. Rest /\ lapses' = lapses
      BY <1>4 DEF HideResource
    <2> QED
      BY <1>4, <2>1 DEF HideResource, Aside, Hides
  <1>5. CASE Abort /\ SameService
    BY <1>5 DEF Abort, SameService, Fails
  <1>6. CASE CacheSync /\ SameService
    BY <1>6 DEF CacheSync, SameService, Syncs
  <1>7. CASE OtherControllers /\ SameService
    BY <1>7 DEF OtherControllers, BindGroup, CollectGroup, PolicyGone, SameService, Aside
  <1>11. CASE OtherSync /\ SameService
    BY <1>11 DEF OtherSync, GroupSync, PolicySync, SameService, Aside, Shows
  <1>8. CASE AdminRemoves /\ SameService
    BY <1>8 DEF AdminRemoves, SameService, Removes
  <1>9. CASE RStep /\ SameService
    BY <1>9 DEF SameService
  <1>10. CASE UNCHANGED vars
    BY <1>10 DEF vars, Aside
  <1> QED
    BY <1>1, <1>2, <1>3, <1>4, <1>5, <1>6, <1>7, <1>8, <1>9, <1>10, <1>11 DEF Next, SStep

-----------------------------------------------------------------------------
(* The kinds one by one.                                                   *)
SamePolicies == /\ Managed' = Managed /\ Owed' = Owed
                /\ Unwritten' = Unwritten /\ Unshown' = Unshown

LEMMA AsideKeeps == Inv /\ Aside => Inv'
  <1> SUFFICES ASSUME Inv, Aside PROVE Inv'
    OBVIOUS
  <1> USE DEF Inv, Aside, Rest, Noted
  <1>1. Shapes' /\ GroupsNamed' /\ (lapses' = 0 => lapses = 0)
    BY DEF Shapes, GroupsNamed, NamesGroups
  <1>2. Live' = Live /\ SamePolicies
    BY DEF Live, SamePolicies, Managed, Owed, Unwritten, Unshown, Noted
  <1>3. GroupsInHand' /\ PassCurrent' /\ IdKnown'
    BY <1>1, <1>2 DEF GroupsInHand, PassCurrent, IdKnown, Undisturbed
  <1>4. MapsUnwritten' /\ TodoKnown' /\ PoliciesKnown'
    BY <1>1, <1>2 DEF SamePolicies, MapsUnwritten, TodoKnown, PoliciesKnown, Undisrupted, Undisturbed
  <1> QED
    BY <1>1, <1>3, <1>4

(* A write of the Service controller: under a running pass it ends the     *)
(* calm, and between passes it leaves the status alone.                    *)
LEMMA WriteKeeps ==
  ASSUME Inv, Rest, lapses' = lapses, Overtake, IsObject(ozr'), NamesGroups(ozr'),
         ozr'.phase # "gone",
         \/ SameStatus(ozr, ozr')
         \/ ozr.phase = "gone" /\ ozr'.sid = None /\ ozr'.spols = {} /\ ozr'.map = {}
  PROVE  Inv'
  <1> USE DEF Inv, Rest, Noted, Overtake
  <1>1. Shapes' /\ GroupsNamed'
    BY DEF Shapes, GroupsNamed, NamesGroups
  <1>2. Live' = Live /\ SamePolicies
    BY DEF Live, SamePolicies, Managed, Owed, Unwritten, Unshown, Noted
  <1>3. ozr'.sid = ozr.sid /\ ozr'.spols = ozr.spols
    BY DEF SameStatus, IdKnown
  <1>4. Undisturbed' => Undisturbed /\ pc = "idle"
    BY DEF Undisturbed, PassCurrent, Shapes
  <1>5. GroupsInHand' /\ PassCurrent' /\ IdKnown'
    BY <1>2, <1>3, <1>4 DEF GroupsInHand, PassCurrent, IdKnown
  <1>6. MapsUnwritten' /\ TodoKnown'
    BY <1>2 DEF SamePolicies, MapsUnwritten, TodoKnown, SameStatus
  <1>7. PoliciesKnown'
    BY <1>2, <1>3, <1>4 DEF SamePolicies, PoliciesKnown, Undisrupted
  <1> QED
    BY <1>1, <1>5, <1>6, <1>7

LEMMA ServiceWrites == Inv /\ (Creates \/ Edits \/ Hides) => Inv'
  <1>1. ASSUME Inv, Creates PROVE Inv'
    <2>1. PICK c \in Configs : ozr' = New(NewSpec(rcache.spec, c))
      BY <1>1 DEF Creates
    <2> DEFINE n == NewSpec(rcache.spec, c)
    <2>2. IsSpec(n) /\ n.groups \in GroupSets
      BY NewSpecShape
    <2> HIDE DEF n
    <2>3. /\ IsObject(New(n)) /\ New(n).phase = "live" /\ New(n).spec = n
          /\ New(n).sid = None /\ New(n).spols = {} /\ New(n).map = {}
      BY <2>2, NewObject
    <2>4. ozr' = New(n)
      BY <2>1 DEF n
    <2> QED
      BY <1>1, <2>2, <2>3, <2>4, WriteKeeps DEF Creates, NamesGroups
  <1>2. ASSUME Inv, Edits PROVE Inv'
    <2>1. PICK c \in Configs : ozr' = [ozr EXCEPT !.spec = NewSpec(rcache.spec, c),
                                                !.rfin = FALSE]
      BY <1>2 DEF Edits
    <2> DEFINE n == NewSpec(rcache.spec, c)
    <2>2. IsSpec(n) /\ n.groups \in GroupSets
      BY NewSpecShape
    <2>3. ozr' = [ozr EXCEPT !.spec = n, !.rfin = FALSE]
      BY <2>1
    <2> HIDE DEF n
    <2>4. IsObject(ozr)
      BY <1>2 DEF Inv, Shapes
    <2>5. IsObject(ozr') /\ ozr'.phase = ozr.phase /\ ozr'.spec = n /\ SameStatus(ozr, ozr')
      BY <2>2, <2>3, <2>4, EditObject
    <2> QED
      BY <1>2, <2>2, <2>5, WriteKeeps DEF Edits, NamesGroups
  <1>3. ASSUME Inv, Hides PROVE Inv'
    <2>1. IsObject(ozr)
      BY <1>3 DEF Inv, Shapes
    <2>2. /\ IsObject(ozr') /\ ozr'.phase = "deleting" /\ ozr'.spec = ozr.spec
          /\ SameStatus(ozr, ozr')
      BY <1>3, <2>1, PhaseObject DEF Hides
    <2>3. NamesGroups(ozr')
      BY <1>3, <2>2 DEF Inv, GroupsNamed, NamesGroups, Hides
    <2> QED
      BY <1>3, <2>2, <2>3, WriteKeeps DEF Hides
  <1> QED
    BY <1>1, <1>2, <1>3

LEMMA SyncKeeps == Inv /\ Syncs => Inv'
  <1> SUFFICES ASSUME Inv, Syncs PROVE Inv'
    OBVIOUS
  <1> USE DEF Inv, Syncs, Noted
  <1>1. Shapes' /\ GroupsNamed'
    BY DEF Shapes, GroupsNamed, NamesGroups
  <1>2. Live' = Live /\ SamePolicies
    BY DEF Live, SamePolicies, Managed, Owed, Unwritten, Unshown, Noted
  <1>3. GroupsInHand' /\ PassCurrent' /\ IdKnown'
    BY <1>2 DEF GroupsInHand, PassCurrent, IdKnown, Undisturbed
  <1>4. MapsUnwritten' /\ TodoKnown' /\ PoliciesKnown'
    BY <1>2 DEF SamePolicies, MapsUnwritten, TodoKnown, PoliciesKnown, Undisrupted, Undisturbed
  <1> QED
    BY <1>1, <1>3, <1>4

LEMMA ShowKeeps == Inv /\ Shows => Inv'
  <1> SUFFICES ASSUME Inv, Shows PROVE Inv'
    OBVIOUS
  <1> USE DEF Inv, Shows, Noted
  <1>1. Shapes' /\ GroupsNamed'
    BY DEF Shapes, GroupsNamed, NamesGroups
  <1>2. /\ Live' = Live /\ Managed' = Managed /\ Owed' = Owed
        /\ Unwritten' = Unwritten /\ Unshown' = Unwritten
    BY DEF Live, Managed, Owed, Unwritten, Unshown
  <1>3. GroupsInHand' /\ PassCurrent' /\ IdKnown'
    BY <1>2 DEF GroupsInHand, PassCurrent, IdKnown, Undisturbed
  <1>4. MapsUnwritten' /\ TodoKnown' /\ PoliciesKnown'
    BY <1>2 DEF MapsUnwritten, TodoKnown, PoliciesKnown, Undisrupted, Undisturbed
  <1> QED
    BY <1>1, <1>3, <1>4

LEMMA RemovalKeeps == Inv /\ Removes => Inv'
  <1> SUFFICES ASSUME Inv, NEW i \in Live, up' = [up EXCEPT ![i].st = "removed"],
                      UNCHANGED <<ozr, rcache, loc, pol, pcache, todo, gids, pc, fresh,
                                  lapses, clash, Noted>>
               PROVE  Inv'
    BY DEF Removes
  <1> USE DEF Inv, Noted
  <1>1. /\ up' \in [Ids -> UpRecords]
        /\ Live' \subseteq Live
        /\ \A j \in Live' : up'[j] = up[j]
    BY DEF Live, Shapes, UpRecords
  <1>2. Shapes' /\ GroupsNamed'
    BY <1>1 DEF Shapes, GroupsNamed, NamesGroups
  <1>3. SamePolicies
    BY DEF SamePolicies, Managed, Owed, Unwritten, Unshown, Noted
  <1>4. GroupsInHand'
    BY <1>1 DEF GroupsInHand
  <1>5. PassCurrent' /\ IdKnown'
    BY <1>1 DEF PassCurrent, IdKnown, Undisturbed
  <1>6. MapsUnwritten' /\ TodoKnown' /\ PoliciesKnown'
    BY <1>3 DEF SamePolicies, MapsUnwritten, TodoKnown, PoliciesKnown, Undisrupted, Undisturbed
  <1> QED
    BY <1>2, <1>4, <1>5, <1>6

(* A pass that ends without a save: not in calm, or in an error about a    *)
(* policy, or before it has done anything to the policies that the status  *)
(* does not say.                                                           *)
LEMMA EndKeeps ==
  ASSUME Inv, EndPass, UNCHANGED <<ozr, rcache, up, pol, pcache, ungrouped, overlooked, clash>>,
         lapses' \in {lapses, lapses + 1}, broken' \in BOOLEAN, broken => broken',
         lapses' = 0 => \/ ~Undisturbed
                        \/ broken' /\ pc \in {"policy", "register", "unpolicy"}
                        \/ pc \in {"ensure", "delPol", "delGrp"}
  PROVE  Inv'
  <1> USE DEF Inv, EndPass
  <1>0. lapses' \in Nat /\ (lapses' = 0 => lapses = 0)
    BY DEF Shapes
  <1>1. Shapes' /\ GroupsNamed' /\ (lapses' = 0 => lapses = 0)
    BY <1>0, GoneObject DEF Shapes, GroupsNamed, NamesGroups
  <1>2. Live' = Live /\ SamePolicies
    BY DEF Live, SamePolicies, Managed, Owed, Unwritten, Unshown, Noted
  <1>3. GroupsInHand' /\ PassCurrent'
    BY <1>1, <1>2 DEF GroupsInHand, PassCurrent
  <1>4. IdKnown'
    BY <1>1, <1>2 DEF IdKnown, Undisturbed
  <1>5. MapsUnwritten' /\ TodoKnown'
    BY <1>2, GoneObject DEF SamePolicies, MapsUnwritten, TodoKnown
  <1>6. PoliciesKnown'
    BY <1>1, <1>2 DEF SamePolicies, PoliciesKnown, TodoKnown, PassCurrent, Undisrupted,
       Undisturbed
  <1> QED
    BY <1>1, <1>3, <1>4, <1>5, <1>6

(* A pass begins.  A copy that is not the API's costs a lapse.             *)
LEMMA StartKeeps == Inv /\ Start /\ UNCHANGED clash => Inv'
  <1> SUFFICES ASSUME Inv, Start, UNCHANGED clash PROVE Inv'
    OBVIOUS
  <1> USE DEF Inv, Noted
  <1>1. /\ pc = "idle" /\ rcache.phase # "gone" /\ loc' = rcache
        /\ UNCHANGED <<ozr, rcache, up, pol, pcache, gids, Noted>>
        /\ pc' \in {"delPol", "fin", "groups"}
        /\ todo' = (IF pc' = "delPol" THEN loc'.spols ELSE {})
        /\ fresh' = (rcache = ozr)
    BY DEF Start, kube, others, copies, history, Noted
  <1>2. lapses' \in Nat /\ (lapses' = 0 => lapses = 0 /\ rcache = ozr)
    BY DEF Start, Shapes
  <1>3. Shapes' /\ GroupsNamed'
    BY <1>1, <1>2 DEF Shapes, IsObject, GroupsNamed, NamesGroups
  <1>4. Live' = Live /\ SamePolicies
    BY <1>1 DEF Live, SamePolicies, Managed, Owed, Unwritten, Unshown, Noted
  <1>5. GroupsInHand' /\ PassCurrent' /\ IdKnown'
    BY <1>1, <1>2, <1>4 DEF GroupsInHand, PassCurrent, IdKnown, Undisturbed
  <1>6. MapsUnwritten' /\ TodoKnown' /\ PoliciesKnown'
    BY <1>1, <1>2, <1>4 DEF SamePolicies, MapsUnwritten, TodoKnown, PoliciesKnown, Undisrupted, Undisturbed
  <1> QED
    BY <1>3, <1>5, <1>6

(* Two objects that differ at most in the finalizer, the ports and the     *)
(* condition.                                                              *)
Alike(o, q) == IsObject(q) /\ q.phase = o.phase /\ q.spec = o.spec /\ SameStatus(o, q)

(* Steps of a pass that only move it on, from one stage to the next.       *)
Moves ==
    /\ <<pc, pc'>> \in {<<"fin", "groups">>, <<"groups", "ensure">>, <<"groups", "resource">>,
                        <<"ensure", "resource">>, <<"ensure", "save">>,
                        <<"resource", "save">>, <<"delGrp", "delFin">>}
    /\ Alike(ozr, ozr') /\ Alike(loc, loc')
    /\ UNCHANGED <<rcache, up, pol, pcache, todo, fresh, clash, broken, overlooked>>
    /\ lapses' \in {lapses, lapses + 1}
    /\ ungrouped' = (IF pc = "groups" /\ pc' = "resource" THEN TRUE ELSE ungrouped)
    /\ gids' = IF pc = "ensure" /\ pc' = "resource" THEN loc.spec.groups ELSE gids

LEMMA MoveKeeps == Inv /\ Moves => Inv'
  <1> SUFFICES ASSUME Inv, Moves PROVE Inv'
    OBVIOUS
  <1> USE DEF Inv
  <1>1. lapses' \in Nat /\ (lapses' = 0 => lapses = 0)
    BY DEF Moves, Shapes
  <1>2. gids' \subseteq Groups
    BY DEF Moves, Shapes, IsObject, IsSpec
  <1>3. /\ IsObject(ozr') /\ ozr'.phase = ozr.phase /\ ozr'.spec = ozr.spec
        /\ ozr'.sid = ozr.sid /\ ozr'.spols = ozr.spols /\ ozr'.map = ozr.map
        /\ IsObject(loc') /\ loc'.phase = loc.phase /\ loc'.spec = loc.spec
        /\ loc'.sid = loc.sid /\ loc'.spols = loc.spols /\ loc'.map = loc.map
        /\ UNCHANGED <<rcache, up, pol, pcache, todo, fresh, clash, broken, overlooked>>
    BY DEF Moves, Alike, SameStatus
  <1>4. <<pc, pc'>> \in {<<"fin", "groups">>, <<"groups", "ensure">>, <<"groups", "resource">>,
                        <<"ensure", "resource">>, <<"ensure", "save">>,
                        <<"resource", "save">>, <<"delGrp", "delFin">>}
    BY DEF Moves
  <1>5. Shapes' /\ GroupsNamed'
    BY <1>1, <1>2, <1>3, <1>4 DEF Shapes, GroupsNamed, NamesGroups
  <1>6. Live' = Live /\ SamePolicies
    BY <1>3 DEF Live, SamePolicies, Managed, Owed, Unwritten, Unshown, Noted
  <1>7. GroupsInHand'
    <2> SUFFICES ASSUME ~ungrouped' PROVE GroupsInHand'
      BY DEF GroupsInHand
    <2>1. /\ ~ungrouped
          /\ pc' = "resource" => pc = "ensure"
      BY <1>4 DEF Moves
    <2>2. pc' = "resource" => gids' = loc.spec.groups
      BY <2>1 DEF Moves
    <2>3. pc' = "resource" => gids' \in GroupSets
      BY <2>1, <2>2 DEF GroupsNamed, NamesGroups
    <2> QED
      BY <1>3, <1>6, <2>1, <2>3 DEF GroupsInHand
  <1>8. PassCurrent' /\ IdKnown'
    BY <1>1, <1>3, <1>4, <1>6 DEF PassCurrent, IdKnown, Undisturbed
  <1>9. MapsUnwritten' /\ TodoKnown'
    BY <1>3, <1>4, <1>6 DEF SamePolicies, MapsUnwritten, TodoKnown
  <1>10. PoliciesKnown'
    BY <1>1, <1>3, <1>4, <1>6 DEF SamePolicies, PoliciesKnown, PassCurrent, Undisrupted, Undisturbed
  <1> QED
    BY <1>5, <1>7, <1>8, <1>9, <1>10

(* The network resource: forgotten, created, or given its groups.          *)
LEMMA SyncResourceKeeps == Inv /\ SyncResource /\ UNCHANGED clash => Inv'
  <1> SUFFICES ASSUME Inv, SyncResource, UNCHANGED clash PROVE Inv'
    OBVIOUS
  <1> USE DEF Inv, Noted
  <1>0. /\ pc = "resource" /\ IsObject(loc)
        /\ UNCHANGED <<ozr, rcache, pol, pcache, gids, fresh, lapses, Noted>>
    BY DEF SyncResource, kube, others, copies, history, Noted, Shapes
  <1>m. SamePolicies
    BY <1>0 DEF SamePolicies, Managed, Owed, Unwritten, Unshown, Noted
  <1>1. CASE loc.sid = None /\ Live # {} /\ loc' = [loc EXCEPT !.ready = "dup"]
             /\ pc' = "save" /\ UNCHANGED <<up, todo>>
    <2>1. Alike(ozr, ozr') /\ Alike(loc, loc')
      BY <1>0, <1>1, MarkObject DEF Alike, Shapes, SameStatus
    <2> QED
      BY <1>0, <1>1, <2>1, MoveKeeps DEF Moves
  <1>2. CASE /\ loc.sid # None /\ loc.sid \notin Live
             /\ loc' = [loc EXCEPT !.sid = None]
             /\ pc' = "save" /\ UNCHANGED <<up, todo>>
    <2>1. /\ IsObject(loc') /\ loc'.phase = loc.phase /\ loc'.spec = loc.spec
          /\ loc'.sid = None /\ loc'.spols = loc.spols /\ loc'.map = loc.map
      BY <1>0, <1>2, IdObject
    <2>2. Live' = Live
      BY <1>2 DEF Live
    <2>3. Shapes' /\ GroupsNamed'
      BY <1>0, <1>2, <2>1 DEF Shapes, GroupsNamed, NamesGroups
    <2>4. GroupsInHand' /\ PassCurrent' /\ IdKnown'
      BY <1>0, <1>2, <2>1, <2>2 DEF GroupsInHand, PassCurrent, IdKnown, Undisturbed
    <2>5. MapsUnwritten' /\ TodoKnown' /\ PoliciesKnown'
      BY <1>0, <1>2, <1>m, <2>1 DEF SamePolicies, MapsUnwritten, TodoKnown, PoliciesKnown, PassCurrent,
         Undisrupted, Undisturbed
    <2> QED
      BY <2>3, <2>4, <2>5
  <1>3. CASE /\ loc.sid = None /\ Live = {}
             /\ \E i \in Ids : /\ up' = [up EXCEPT ![i] = [st |-> "live", groups |-> gids]]
                               /\ loc' = [loc EXCEPT !.sid = i]
             /\ pc' = "save" /\ UNCHANGED todo
    <2>0. PICK i \in Ids : /\ up' = [up EXCEPT ![i] = [st |-> "live", groups |-> gids]]
                          /\ loc' = [loc EXCEPT !.sid = i]
      BY <1>3
    <2>1. /\ IsObject(loc') /\ loc'.phase = loc.phase /\ loc'.spec = loc.spec
          /\ loc'.sid = i /\ loc'.spols = loc.spols /\ loc'.map = loc.map
      BY <1>0, <2>0, IdObject
    <2>2. up' \in [Ids -> UpRecords] /\ Live' = {i} /\ up'[i].groups = gids
      BY <1>3, <2>0 DEF Live, Shapes, UpRecords
    <2>3. Shapes' /\ GroupsNamed'
      BY <1>0, <1>3, <2>1, <2>2 DEF Shapes, GroupsNamed, NamesGroups
    <2>4. GroupsInHand'
      BY <1>0, <1>3, <2>2 DEF GroupsInHand
    <2>5. PassCurrent' /\ IdKnown'
      BY <1>0, <1>3, <2>1, <2>2 DEF PassCurrent, IdKnown, Undisturbed
    <2>6. MapsUnwritten' /\ TodoKnown' /\ PoliciesKnown'
      BY <1>0, <1>3, <1>m, <2>1 DEF SamePolicies, MapsUnwritten, TodoKnown, PoliciesKnown, PassCurrent,
         Undisrupted, Undisturbed
    <2> QED
      BY <2>3, <2>4, <2>5, <2>6
  <1>4. CASE /\ loc.sid \in Live /\ up' = [up EXCEPT ![loc.sid].groups = gids]
             /\ todo' = loc.spec.pols /\ pc' = "policy" /\ UNCHANGED loc
    <2>1. loc.sid \in Ids
      BY <1>4 DEF Live
    <2>2. /\ up' \in [Ids -> UpRecords] /\ Live' = Live
          /\ \A j \in Live : up'[j].groups = IF j = loc.sid THEN gids ELSE up[j].groups
      BY <1>4, <2>1 DEF Live, Shapes, UpRecords
    <2>3. todo' \subseteq Policies
      BY <1>4, <1>0 DEF IsObject, IsSpec
    <2>4. Shapes' /\ GroupsNamed'
      BY <1>0, <1>4, <2>2, <2>3 DEF Shapes, GroupsNamed, NamesGroups
    <2>5. GroupsInHand'
      BY <1>0, <1>4, <2>2 DEF GroupsInHand
    <2>6. PassCurrent' /\ IdKnown'
      BY <1>0, <1>4, <2>2 DEF PassCurrent, IdKnown, Undisturbed
    <2>7. MapsUnwritten' /\ TodoKnown' /\ PoliciesKnown'
      BY <1>0, <1>4, <1>m DEF SamePolicies, MapsUnwritten, TodoKnown, PoliciesKnown, PassCurrent,
         Undisrupted, Undisturbed
    <2> QED
      BY <2>4, <2>5, <2>6, <2>7
  <1> QED
    BY <1>1, <1>2, <1>3, <1>4 DEF SyncResource

(* The policies: what one step of the two loops does to the plain policies *)
(* and to the copy.                                                        *)
Calm == UNCHANGED <<ozr, rcache, up, pcache, gids, fresh, lapses, clash, broken, ungrouped>>

Lists(p) == /\ p \notin loc.map /\ pol[p].st # "absent"
            /\ pol' = [pol EXCEPT ![p].managed = TRUE]

Adds(p) == /\ pc \in {"policy", "register"} /\ pc' = "policy"
           /\ Alike(loc, loc') /\ todo' = todo \ {p}
           /\ pol' = pol \/ Lists(p)
           /\ overlooked' = overlooked \/ overlooked' = overlooked \ {p}
Generates(p) == /\ pc = "policy" /\ pc' = "register"
                /\ p \in loc.map \/ pcache[p].st = "absent"
                /\ loc' = [loc EXCEPT !.map = @ \cup {p}]
                /\ UNCHANGED <<pol, todo, overlooked>>
Drops(p) == /\ pc = "unpolicy" /\ pc' = "unpolicy" /\ todo' = todo \ {p}
            /\ \/ /\ p \in loc.map /\ pol' = pol /\ overlooked' = overlooked
                  /\ loc' = loc \/ loc' = [loc EXCEPT !.map = @ \ {p}]
               \/ (Unlist(p) \/ Overlook(p)) /\ loc' = loc

(* A plain policy that is dealt with is owed no more.                      *)
LEMMA UnlistFacts ==
  ASSUME Shapes, NEW p \in Policies, Unlist(p) \/ Overlook(p)
  PROVE  /\ pol' \in [Policies -> PolicyRecords]
         /\ Unwritten' = Unwritten
         /\ Managed' \subseteq Managed
         /\ Owed' \subseteq Owed \ {p}
  <1>1. CASE Unlist(p)
    <2>1. /\ pol' \in [Policies -> PolicyRecords]
          /\ Unwritten' = Unwritten /\ Managed' = Managed \ {p}
      BY <1>1 DEF Unlist, Shapes, PolicyRecords, Managed, Unwritten
    <2> QED
      BY <1>1, <2>1 DEF Unlist, Owed
  <1>2. CASE Overlook(p)
    <2>1. pol' = pol /\ Unwritten' = Unwritten /\ Managed' = Managed
      BY <1>2 DEF Overlook, Managed, Unwritten
    <2>2. overlooked' = IF p \in Managed THEN overlooked \cup {p} ELSE overlooked
      BY <1>2 DEF Overlook, Managed
    <2> QED
      BY <2>1, <2>2 DEF Owed, Shapes
  <1> QED
    BY <1>1, <1>2

LEMMA PolicyTodo == todo # {} => Policy \in todo
  BY DEF Policy

LEMMA AddKeeps ==
  ASSUME Inv, NEW p \in todo, Calm, Adds(p)
  PROVE  Inv'
  <1> USE DEF Inv, Calm
  <1>1. /\ IsObject(loc') /\ loc'.phase = loc.phase /\ loc'.spec = loc.spec
        /\ loc'.sid = loc.sid /\ loc'.spols = loc.spols /\ loc'.map = loc.map
    BY DEF Adds, Alike, SameStatus
  <1>2. p \in Policies /\ p \in loc.spec.pols
    BY DEF Adds, TodoKnown, Shapes
  <1>3. /\ pol' \in [Policies -> PolicyRecords]
        /\ Unwritten' = Unwritten
        /\ Managed' = Managed \/ (p \notin Unwritten /\ Managed' = Managed \cup {p})
    BY <1>2 DEF Adds, Lists, Shapes, PolicyRecords, Managed, Unwritten
  <1>10. Unshown' = Unshown /\ Owed' \subseteq Owed \cup {p}
    BY <1>3 DEF Adds, Unshown, Owed
  <1>4. Live' = Live
    BY DEF Live
  <1>5. pc \in {"policy", "register"} /\ pc' = "policy" /\ todo' = todo \ {p}
    BY DEF Adds
  <1>6. Shapes' /\ GroupsNamed'
    BY <1>1, <1>3, <1>5 DEF Shapes, GroupsNamed, NamesGroups
  <1>7. GroupsInHand' /\ PassCurrent' /\ IdKnown'
    BY <1>1, <1>4, <1>5 DEF GroupsInHand, PassCurrent, IdKnown, Undisturbed
  <1>8. MapsUnwritten' /\ TodoKnown'
    BY <1>1, <1>3, <1>5, <1>10 DEF MapsUnwritten, TodoKnown
  <1>9. PoliciesKnown'
    BY <1>1, <1>2, <1>5, <1>10 DEF PoliciesKnown, Undisrupted, Undisturbed
  <1> QED
    BY <1>6, <1>7, <1>8, <1>9

LEMMA GenerateKeeps ==
  ASSUME Inv, NEW p \in todo, Calm, Generates(p)
  PROVE  Inv'
  <1> USE DEF Inv, Calm
  <1>1. /\ IsObject(loc') /\ loc'.phase = loc.phase /\ loc'.spec = loc.spec
        /\ loc'.sid = loc.sid /\ loc'.spols = loc.spols /\ loc'.map = loc.map \cup {p}
    <2>1. IsObject(loc) /\ loc' = [loc EXCEPT !.map = loc.map \cup {p}]
      BY DEF Generates, Shapes
    <2> QED
      BY <2>1, MapObject
  <1>2. p \in Unwritten
    BY DEF Generates, MapsUnwritten, Unshown, Shapes
  <1>3. SamePolicies /\ Live' = Live
    BY DEF Generates, SamePolicies, Managed, Owed, Unwritten, Unshown, Live
  <1>4. pc = "policy" /\ pc' = "register" /\ todo' = todo /\ pol' = pol
    BY DEF Generates
  <1>5. Shapes' /\ GroupsNamed'
    BY <1>1, <1>4 DEF Shapes, GroupsNamed, NamesGroups
  <1>6. GroupsInHand' /\ PassCurrent' /\ IdKnown'
    BY <1>1, <1>3, <1>4 DEF GroupsInHand, PassCurrent, IdKnown, Undisturbed
  <1>7. MapsUnwritten' /\ TodoKnown'
    BY <1>1, <1>2, <1>3, <1>4 DEF SamePolicies, MapsUnwritten, TodoKnown
  <1>8. PoliciesKnown'
    BY <1>1, <1>3, <1>4 DEF SamePolicies, PoliciesKnown, Undisrupted, Undisturbed
  <1> QED
    BY <1>5, <1>6, <1>7, <1>8

LEMMA DropKeeps ==
  ASSUME Inv, NEW p \in todo, Calm, Drops(p)
  PROVE  Inv'
  <1> USE DEF Inv, Calm
  <1>0. p \in Policies /\ IsObject(loc)
    BY DEF Shapes
  <1>1. /\ IsObject(loc') /\ loc'.phase = loc.phase /\ loc'.spec = loc.spec
        /\ loc'.sid = loc.sid /\ loc'.spols = loc.spols /\ loc'.map \subseteq loc.map
    <2>1. CASE loc' = loc
      BY <1>0, <2>1
    <2>2. CASE loc' = [loc EXCEPT !.map = loc.map \ {p}]
      BY <1>0, <2>2, MapObject
    <2> QED
      BY <2>1, <2>2 DEF Drops
  <1>2. /\ pol' \in [Policies -> PolicyRecords]
        /\ Unwritten' = Unwritten
        /\ Managed' \subseteq Managed
        /\ Owed' \subseteq Owed \ {p}
    <2>1. CASE Unlist(p) \/ Overlook(p)
      BY <1>0, <2>1, UnlistFacts
    <2>2. CASE p \in loc.map /\ pol' = pol /\ overlooked' = overlooked
      <3>1. Unwritten' = Unwritten /\ Managed' = Managed /\ Owed' = Owed
        BY <2>2 DEF Unwritten, Managed, Owed
      <3>2. p \notin Owed
        BY <2>2 DEF MapsUnwritten, Owed
      <3> QED
        BY <2>2, <3>1, <3>2 DEF Shapes
    <2> QED
      BY <2>1, <2>2 DEF Drops
  <1>3. Unshown' = Unshown
    BY DEF Unshown
  <1>4. Live' = Live
    BY DEF Live
  <1>5. pc = "unpolicy" /\ pc' = "unpolicy" /\ todo' = todo \ {p}
    BY DEF Drops
  <1>6. Shapes' /\ GroupsNamed'
    BY <1>1, <1>2, <1>5 DEF Shapes, GroupsNamed, NamesGroups
  <1>7. GroupsInHand' /\ PassCurrent' /\ IdKnown'
    BY <1>1, <1>4, <1>5 DEF GroupsInHand, PassCurrent, IdKnown, Undisturbed
  <1>8. MapsUnwritten' /\ TodoKnown'
    BY <1>1, <1>2, <1>3, <1>5 DEF MapsUnwritten, TodoKnown
  <1>9. PoliciesKnown'
    BY <1>1, <1>2, <1>5 DEF PoliciesKnown, Undisrupted, Undisturbed
  <1> QED
    BY <1>6, <1>7, <1>8, <1>9

(* The actions of the loops are such steps, or end the pass in an error.   *)
LEMMA ListedAlike ==
  ASSUME Inv, NEW p, Listed(p)
  PROVE  Alike(loc, loc')
  <1>1. IsObject(loc)
    BY DEF Inv, Shapes
  <1>2. CASE loc' = loc
    BY <1>1, <1>2 DEF Alike, SameStatus
  <1>3. CASE loc' = [loc EXCEPT !.sports = loc.spec.ports]
    BY <1>1, <1>3, PortsObject DEF Alike
  <1> QED
    BY <1>2, <1>3 DEF Listed

LEMMA RegisterAdds ==
  ASSUME Inv, NEW p \in todo, pc \in {"policy", "register"}, Stored(p).st # "absent",
         Register(p), UNCHANGED <<ozr, rcache, up, pcache, lapses, clash, ungrouped>>
  PROVE  Inv'
  <1>1. Alike(loc, loc')
    BY ListedAlike DEF Register
  <1>2. Adds(p) /\ Calm
    BY <1>1 DEF Adds, Calm, Register, Listed, Lists, Stored
  <1> QED
    BY <1>2, AddKeeps

LEMMA HandleKeeps ==
  Inv /\ (HandlePolicy \/ RegisterPolicy) /\ UNCHANGED clash => Inv'
  <1>1. ASSUME Inv, HandlePolicy, UNCHANGED clash PROVE Inv'
    <2>1. Policy \in todo /\ pc = "policy"
      BY <1>1, PolicyTodo DEF HandlePolicy
    <2>2. UNCHANGED <<ozr, rcache, up, pcache, lapses, clash, ungrouped>>
      BY <1>1 DEF HandlePolicy, kube, copies
    <2>3. CASE Found(Policy) /\ Copy(Policy) = Stored(Policy) /\ Register(Policy)
      <3>1. Stored(Policy).st # "absent"
        BY <2>3 DEF Found
      <3> QED
        BY <1>1, <2>1, <2>2, <2>3, <3>1, RegisterAdds
    <2>4. CASE /\ todo' = todo \ {Policy}
               /\ UNCHANGED <<pol, pc, loc, gids, fresh, broken, overlooked>>
      <3>1. Alike(loc, loc')
        BY <1>1, <2>4 DEF Alike, SameStatus, Inv, Shapes
      <3> QED
        BY <1>1, <2>1, <2>2, <2>4, <3>1, AddKeeps DEF Adds, Calm
    <2>5. CASE /\ ~Found(Policy)
               /\ loc' = [loc EXCEPT !.map = @ \cup {Policy}]
               /\ pc' = "register"
               /\ UNCHANGED <<pol, gids, todo, fresh, due, broken, overlooked>>
      <3>1. Generates(Policy) /\ Calm
        BY <2>1, <2>2, <2>5 DEF Generates, Calm, Found, Copy
      <3> QED
        BY <1>1, <2>1, <3>1, GenerateKeeps
    <2>6. CASE PolicyError
      BY <1>1, <2>1, <2>2, <2>6, EndKeeps DEF PolicyError
    <2>7. CASE Listed(Policy) /\ UNCHANGED <<pol, gen, overlooked>>
      <3>1. Alike(loc, loc')
        BY <1>1, <2>7, ListedAlike
      <3> QED
        BY <1>1, <2>1, <2>2, <2>7, <3>1, AddKeeps DEF Adds, Calm, Listed
    <2> QED
      BY <1>1, <2>3, <2>4, <2>5, <2>6, <2>7 DEF HandlePolicy
  <1>2. ASSUME Inv, RegisterPolicy, UNCHANGED clash PROVE Inv'
    <2>1. Policy \in todo /\ pc = "register"
      BY <1>2, PolicyTodo DEF RegisterPolicy, Inv, TodoKnown
    <2>2. UNCHANGED <<ozr, rcache, up, pcache, lapses, clash, ungrouped>>
      BY <1>2 DEF RegisterPolicy, kube, copies
    <2>3. CASE Stored(Policy).st # "absent" /\ Register(Policy)
      BY <1>2, <2>1, <2>2, <2>3, RegisterAdds
    <2>4. CASE PolicyError
      BY <1>2, <2>1, <2>2, <2>4, EndKeeps DEF PolicyError
    <2> QED
      BY <1>2, <2>3, <2>4 DEF RegisterPolicy
  <1> QED
    BY <1>1, <1>2

LEMMA UnpolicyKeeps ==
  Inv /\ (PoliciesDone \/ HandlePolicyDelete \/ FinishPolicies) /\ UNCHANGED clash => Inv'
  <1> USE DEF kube, others, copies, history
  <1>1. ASSUME Inv, HandlePolicyDelete, UNCHANGED clash PROVE Inv'
    <2>1. Policy \in todo
      BY <1>1, PolicyTodo DEF HandlePolicyDelete
    <2>2. pc = "unpolicy" /\ UNCHANGED <<ozr, rcache, up, pcache, lapses, clash, ungrouped>>
      BY <1>1 DEF HandlePolicyDelete
    <2>3. CASE PolicyError
      BY <1>1, <2>2, <2>3, EndKeeps DEF PolicyError
    <2>4. CASE ~PolicyError
      <3>1. Calm /\ Drops(Policy)
        BY <1>1, <2>2, <2>4 DEF HandlePolicyDelete, Calm, Drops
      <3> QED
        BY <1>1, <2>1, <3>1, DropKeeps
    <2> QED
      BY <2>3, <2>4
  <1>2. ASSUME Inv, PoliciesDone, UNCHANGED clash PROVE Inv'
    <2> USE DEF Inv
    <2>1. /\ pc = "policy" /\ pc' = "unpolicy" /\ todo' = loc.spols \ loc.spec.pols
          /\ Calm /\ UNCHANGED <<loc, pol, overlooked>>
      BY <1>2 DEF PoliciesDone, Calm
    <2>2. todo' \subseteq Policies
      BY <1>2, <2>1 DEF Shapes, IsObject
    <2>3. Live' = Live /\ SamePolicies
      BY <2>1 DEF Calm, Live, SamePolicies, Managed, Owed, Unwritten, Unshown, Noted
    <2>4. Shapes' /\ GroupsNamed'
      BY <1>2, <2>1, <2>2 DEF Calm, Shapes, GroupsNamed, NamesGroups
    <2>5. GroupsInHand' /\ PassCurrent' /\ IdKnown'
      BY <1>2, <2>1, <2>3 DEF Calm, GroupsInHand, PassCurrent, IdKnown, Undisturbed
    <2>6. MapsUnwritten' /\ TodoKnown' /\ PoliciesKnown'
      BY <1>2, <2>1, <2>3 DEF Calm, SamePolicies, MapsUnwritten, TodoKnown, PoliciesKnown, Undisrupted,
         Undisturbed
    <2> QED
      BY <2>4, <2>5, <2>6
  <1>3. ASSUME Inv, FinishPolicies, UNCHANGED clash PROVE Inv'
    <2> USE DEF Inv
    <2>1. /\ pc = "unpolicy" /\ pc' = "save" /\ todo = {} /\ Calm
          /\ UNCHANGED <<todo, pol, overlooked>>
          /\ loc' = [loc EXCEPT !.spols = loc.spec.pols, !.ready = "true"]
      BY <1>3 DEF FinishPolicies, Calm
    <2>2. /\ IsObject(loc') /\ loc'.phase = loc.phase /\ loc'.spec = loc.spec
          /\ loc'.sid = loc.sid /\ loc'.spols = loc.spec.pols /\ loc'.map = loc.map
      BY <1>3, <2>1, FinishObject DEF Shapes
    <2>3. Live' = Live /\ SamePolicies
      BY <2>1 DEF Calm, Live, SamePolicies, Managed, Owed, Unwritten, Unshown, Noted
    <2>4. Shapes' /\ GroupsNamed'
      BY <1>3, <2>1, <2>2 DEF Calm, Shapes, GroupsNamed, NamesGroups
    <2>5. GroupsInHand' /\ PassCurrent' /\ IdKnown'
      BY <1>3, <2>1, <2>2, <2>3 DEF Calm, GroupsInHand, PassCurrent, IdKnown, Undisturbed
    <2>6. MapsUnwritten' /\ TodoKnown' /\ PoliciesKnown'
      BY <1>3, <2>1, <2>2, <2>3 DEF Calm, SamePolicies, MapsUnwritten, TodoKnown, PoliciesKnown,
         Undisrupted, Undisturbed
    <2> QED
      BY <2>4, <2>5, <2>6
  <1> QED
    BY <1>1, <1>2, <1>3

(* The deferred save: in calm it is the API's object that the pass has     *)
(* worked on.                                                              *)
LEMMA SaveKeeps == Inv /\ SaveStatus /\ UNCHANGED clash => Inv'
  <1> SUFFICES ASSUME Inv, SaveStatus, UNCHANGED clash PROVE Inv'
    OBVIOUS
  <1> USE DEF Inv, Noted
  <1>1. /\ pc = "save" /\ ozr' = (IF fresh THEN loc ELSE ozr) /\ EndPass
        /\ UNCHANGED <<rcache, up, pol, pcache, lapses, Noted>>
    BY DEF SaveStatus, others, copies, history, Noted
  <1>2. Live' = Live /\ SamePolicies
    BY <1>1 DEF Live, SamePolicies, Managed, Owed, Unwritten, Unshown, Noted
  <1>3. Shapes' /\ GroupsNamed'
    BY <1>1, GoneObject DEF EndPass, Shapes, GroupsNamed, NamesGroups
  <1>4. GroupsInHand' /\ PassCurrent'
    BY <1>1, <1>2 DEF EndPass, GroupsInHand, PassCurrent
  <1>5. IdKnown'
    BY <1>1, <1>2 DEF EndPass, IdKnown, PassCurrent, Undisturbed, GroupsNamed
  <1>6. MapsUnwritten' /\ TodoKnown'
    BY <1>1, <1>2, GoneObject DEF EndPass, SamePolicies, MapsUnwritten, TodoKnown
  <1>7. PoliciesKnown'
    BY <1>1, <1>2 DEF EndPass, SamePolicies, PoliciesKnown, PassCurrent, Undisrupted, Undisturbed
  <1> QED
    BY <1>3, <1>4, <1>5, <1>6, <1>7

(* Deletion: the policies, the network resource, the finalizers.           *)
LEMMA DeletionKeeps ==
  Inv /\ (ReleasePolicy \/ DeleteResource \/ RemoveFinalizers) /\ UNCHANGED clash => Inv'
  <1> USE DEF kube, others, copies, history, Noted
  <1>1. ASSUME Inv, ReleasePolicy, UNCHANGED clash PROVE Inv'
    <2> USE DEF Inv
    <2>0. Policy \in todo /\ Policy \in Policies
      BY <1>1, PolicyTodo DEF ReleasePolicy, Shapes
    <2>1. /\ pc = "delPol"
          /\ UNCHANGED <<ozr, rcache, up, pcache, lapses, clash, broken, ungrouped>>
      BY <1>1 DEF ReleasePolicy
    <2>2. CASE EndPass /\ UNCHANGED <<pol, overlooked>>
      <3>1. broken' \in BOOLEAN /\ (broken => broken')
        BY <1>1, <2>1 DEF Shapes
      <3> QED
        BY <1>1, <2>1, <2>2, <3>1, EndKeeps
    <2>3. CASE /\ Unlist(Policy) \/ Overlook(Policy)
               /\ todo' = todo \ {Policy}
               /\ UNCHANGED <<pc, loc, gids, fresh, due>>
      <3>1. /\ pol' \in [Policies -> PolicyRecords]
            /\ Unwritten' = Unwritten
            /\ Managed' \subseteq Managed
            /\ Owed' \subseteq Owed \ {Policy}
        BY <1>1, <2>0, <2>3, UnlistFacts
      <3>2. Live' = Live /\ Unshown' = Unshown
        BY <2>1 DEF Live, Unshown
      <3>3. Shapes' /\ GroupsNamed'
        BY <1>1, <2>1, <2>3, <3>1 DEF Shapes, GroupsNamed, NamesGroups
      <3>4. GroupsInHand' /\ PassCurrent' /\ IdKnown'
        BY <1>1, <2>1, <2>3, <3>2 DEF GroupsInHand, PassCurrent, IdKnown, Undisturbed
      <3>5. MapsUnwritten' /\ TodoKnown'
        BY <1>1, <2>1, <2>3, <3>1, <3>2 DEF MapsUnwritten, TodoKnown
      <3>6. PoliciesKnown'
        BY <1>1, <2>1, <2>3, <3>1 DEF PoliciesKnown, Undisrupted, Undisturbed
      <3> QED
        BY <3>3, <3>4, <3>5, <3>6
    <2> QED
      BY <1>1, <2>2, <2>3 DEF ReleasePolicy
  <1>2. ASSUME Inv, DeleteResource, UNCHANGED clash PROVE Inv'
    <2> USE DEF Inv
    <2>1. /\ pc = "delPol" /\ todo = {} /\ pc' = "delGrp"
          /\ UNCHANGED <<ozr, rcache, loc, pol, pcache, todo, gids, fresh, lapses, clash, Noted>>
      BY <1>2 DEF DeleteResource, Goto
    <2>2. /\ up' \in [Ids -> UpRecords] /\ Live' = Live \ {loc.sid}
          /\ \A j \in Live' : up'[j].groups = up[j].groups
      <3>1. CASE loc.sid \in Live
        <4>1. loc.sid \in Ids /\ up' = [up EXCEPT ![loc.sid].st = "deleted"]
          BY <1>2, <3>1 DEF DeleteResource, Live
        <4> QED
          BY <1>2, <4>1 DEF Shapes, Live, UpRecords
      <3>2. CASE loc.sid \notin Live
        BY <1>2, <3>2 DEF DeleteResource, Shapes, Live
      <3> QED
        BY <3>1, <3>2
    <2>3. SamePolicies
      BY <2>1 DEF SamePolicies, Managed, Owed, Unwritten, Unshown, Noted
    <2>4. Shapes' /\ GroupsNamed'
      BY <1>2, <2>1, <2>2 DEF Shapes, GroupsNamed, NamesGroups
    <2>5. GroupsInHand'
      BY <1>2, <2>1, <2>2 DEF GroupsInHand
    <2>6. PassCurrent' /\ IdKnown'
      BY <1>2, <2>1, <2>2 DEF PassCurrent, IdKnown, Undisturbed
    <2>7. MapsUnwritten' /\ TodoKnown' /\ PoliciesKnown'
      BY <1>2, <2>1, <2>3 DEF SamePolicies, MapsUnwritten, TodoKnown, PoliciesKnown, Undisrupted,
         Undisturbed
    <2> QED
      BY <2>4, <2>5, <2>6, <2>7
  <1>3. ASSUME Inv, RemoveFinalizers, UNCHANGED clash PROVE Inv'
    <2> USE DEF Inv
    <2>1. /\ pc = "delFin" /\ ozr' = (IF fresh THEN Gone ELSE ozr) /\ EndPass
          /\ UNCHANGED <<rcache, up, pol, pcache, lapses, Noted>>
      BY <1>3 DEF RemoveFinalizers
    <2>2. Live' = Live /\ SamePolicies
      BY <2>1 DEF Live, SamePolicies, Managed, Owed, Unwritten, Unshown, Noted
    <2>3. Shapes' /\ GroupsNamed'
      BY <1>3, <2>1, GoneObject DEF EndPass, Shapes, GroupsNamed, NamesGroups
    <2>4. GroupsInHand' /\ PassCurrent'
      BY <1>3, <2>1, <2>2 DEF EndPass, GroupsInHand, PassCurrent
    <2>5. IdKnown'
      BY <1>3, <2>1, <2>2, GoneObject DEF EndPass, IdKnown, PassCurrent, Undisturbed
    <2>6. MapsUnwritten' /\ TodoKnown'
      BY <1>3, <2>1, <2>2, GoneObject DEF EndPass, SamePolicies, MapsUnwritten, TodoKnown
    <2>7. PoliciesKnown'
      BY <1>3, <2>1, <2>2, GoneObject DEF EndPass, SamePolicies, PoliciesKnown, PassCurrent, Undisrupted,
         Undisturbed
    <2> QED
      BY <2>3, <2>4, <2>5, <2>6, <2>7
  <1> QED
    BY <1>1, <1>2, <1>3

(* The finalizer and the groups: moves from stage to stage, or the end.    *)
LEMMA StageKeeps ==
  Inv /\ (AddFinalizer \/ ReleaseGroups \/ EnsureGroups \/ ReleaseAllGroups)
      /\ UNCHANGED clash => Inv'
  <1> SUFFICES ASSUME Inv, UNCHANGED clash,
                      AddFinalizer \/ ReleaseGroups \/ EnsureGroups \/ ReleaseAllGroups
               PROVE  Inv'
    OBVIOUS
  <1> USE DEF kube, others, copies, history, Noted
  <1>o. IsObject(ozr) /\ IsObject(loc) /\ lapses \in Nat
    BY DEF Inv, Shapes
  <1>a. Alike(ozr, ozr) /\ Alike(loc, loc)
    BY <1>o DEF Alike, SameStatus
  <1>1. CASE AddFinalizer
    <2>1. CASE /\ fresh /\ ozr' = [ozr EXCEPT !.rfin = TRUE]
               /\ loc' = [loc EXCEPT !.rfin = TRUE] /\ pc' = "groups"
               /\ UNCHANGED <<gids, todo, fresh, due>>
      <3>1. Alike(ozr, ozr') /\ Alike(loc, loc')
        BY <1>o, <2>1, HoldObject DEF Alike
      <3> QED
        BY <1>1, <2>1, <3>1, MoveKeeps DEF AddFinalizer, Moves
    <2>2. CASE ~fresh /\ EndPass /\ UNCHANGED ozr
      <3>1. ~Undisturbed
        BY <1>1, <2>2 DEF AddFinalizer, Inv, PassCurrent
      <3>2. UNCHANGED <<ozr, rcache, up, pol, pcache, clash, lapses, Noted>>
        BY <1>1, <2>2 DEF AddFinalizer
      <3>3. broken' \in BOOLEAN /\ (broken => broken')
        BY <3>2 DEF Inv, Shapes
      <3> QED
        BY <2>2, <3>1, <3>2, <3>3, EndKeeps
    <2> QED
      BY <1>1, <2>1, <2>2 DEF AddFinalizer
  <1>2. CASE ReleaseGroups
    <2>1. /\ pc = "groups"
          /\ UNCHANGED <<ozr, rcache, up, pol, pcache, loc, gids, todo, fresh, broken, overlooked>>
          /\ lapses' \in {lapses, lapses + 1}
          /\ \/ pc' = "ensure" /\ ungrouped' = ungrouped
             \/ pc' = "resource" /\ ungrouped' = TRUE
      BY <1>2 DEF ReleaseGroups, Goto
    <2> QED
      BY <1>a, <2>1, MoveKeeps DEF Moves
  <1>3. CASE EnsureGroups
    <2>0. pc = "ensure" /\ UNCHANGED <<ozr, rcache, up, pol, pcache, Noted>>
      BY <1>3 DEF EnsureGroups
    <2>1. CASE gids' = loc.spec.groups /\ pc' = "resource"
               /\ UNCHANGED <<loc, todo, fresh, lapses>>
      BY <1>a, <2>0, <2>1, MoveKeeps DEF Moves
    <2>2. CASE loc' = [loc EXCEPT !.ready = "false"] /\ pc' = "save"
               /\ UNCHANGED <<gids, todo, fresh, lapses>>
      <3>1. Alike(loc, loc')
        BY <1>o, <2>2, MarkObject DEF Alike
      <3> QED
        BY <1>a, <2>0, <2>2, <3>1, MoveKeeps DEF Moves
    <2>3. CASE lapses' \in {lapses, lapses + 1} /\ EndPass
      <3>1. broken' \in BOOLEAN /\ (broken => broken')
        BY <1>o, <2>0, <2>3 DEF Inv, Shapes
      <3> QED
        BY <2>0, <2>3, <3>1, EndKeeps
    <2> QED
      BY <1>3, <2>1, <2>2, <2>3 DEF EnsureGroups
  <1>4. CASE ReleaseAllGroups
    <2>1. CASE Goto("delFin")
      BY <1>4, <1>a, <2>1, MoveKeeps DEF ReleaseAllGroups, Goto, Moves
    <2>2. CASE EndPass
      <3>1. /\ pc = "delGrp" /\ UNCHANGED <<ozr, rcache, up, pol, pcache, lapses, clash, Noted>>
            /\ broken' \in BOOLEAN /\ (broken => broken')
        BY <1>4 DEF ReleaseAllGroups, Inv, Shapes
      <3> QED
        BY <2>2, <3>1, EndKeeps
    <2> QED
      BY <1>4, <2>1, <2>2 DEF ReleaseAllGroups
  <1> QED
    BY <1>1, <1>2, <1>3, <1>4

-----------------------------------------------------------------------------
(* Inv is an invariant of the two controllers together.                    *)
THEOREM Invariance == Spec => [](ServiceTypes /\ Inv)
  <1>1. Init => ServiceTypes /\ Inv
    <2> SUFFICES ASSUME Init PROVE ServiceTypes /\ Inv
      OBVIOUS
    <2>1. ServiceTypes
      BY ConfigsAssumption DEF Init, ServiceTypes, Services, NoService
    <2>2. /\ ozr = Gone /\ rcache = Gone /\ loc = Gone /\ pc = "idle" /\ lapses = 0
          /\ gids = {} /\ todo = {} /\ ~fresh /\ ~clash /\ ~broken /\ overlooked = {}
          /\ pcache = pol
          /\ up = [i \in Ids |-> [st |-> "unused", groups |-> {}]]
      BY DEF Init, RInit
    <2>3. fresh \in BOOLEAN /\ clash \in BOOLEAN /\ broken \in BOOLEAN
      BY DEF Init, RInit
    <2>4. PICK w \in Setups :
            pol = [p \in Policies |-> IF p \in w.written
                                       THEN [NoPolicy EXCEPT !.st = "live"] ELSE NoPolicy]
      BY DEF Init, RInit
    <2>5. pol \in [Policies -> PolicyRecords] /\ Managed = {} /\ Owed = {} /\ Unshown = Unwritten
      <3>1. /\ [NoPolicy EXCEPT !.st = "live"] \in PolicyRecords /\ NoPolicy \in PolicyRecords
            /\ ~[NoPolicy EXCEPT !.st = "live"].managed /\ ~NoPolicy.managed
        BY DEF NoPolicy, PolicyRecords
      <3> QED
        BY <2>2, <2>4, <3>1 DEF Managed, Owed, Unshown, Unwritten
    <2>6. up \in [Ids -> UpRecords] /\ Live = {}
      BY <2>2 DEF UpRecords, Live
    <2>7. Shapes /\ GroupsNamed
      BY <2>2, <2>3, <2>5, <2>6, GoneObject DEF Shapes, GroupsNamed, NamesGroups
    <2>8. GroupsInHand /\ PassCurrent /\ IdKnown
      BY <2>2, <2>6, GoneObject DEF GroupsInHand, PassCurrent, IdKnown
    <2>9. MapsUnwritten /\ TodoKnown /\ PoliciesKnown
      BY <2>2, <2>5, GoneObject DEF MapsUnwritten, TodoKnown, PoliciesKnown
    <2> QED
      BY <2>1, <2>7, <2>8, <2>9 DEF Inv
  <1>2. (ServiceTypes /\ Inv) /\ [Next]_vars => (ServiceTypes /\ Inv)'
    <2> SUFFICES ASSUME ServiceTypes, Inv, [Next]_vars PROVE Inv'
      BY ServiceStepTypes
    <2>1. CASE RStep /\ UNCHANGED clash
      BY <2>1, StartKeeps, StageKeeps, SyncResourceKeeps, HandleKeeps, UnpolicyKeeps,
         SaveKeeps, DeletionKeeps DEF RStep
    <2>2. CASE Fails
      <3>1. lapses' # 0 /\ broken' \in BOOLEAN /\ (broken => broken')
        BY <2>2 DEF Fails, Noted, Inv, Shapes
      <3> QED
        BY <2>2, <3>1, EndKeeps DEF Fails, Noted
    <2>3. CASE Aside \/ Creates \/ Edits \/ Hides \/ Syncs \/ Shows \/ Removes
      BY <2>3, AsideKeeps, ServiceWrites, SyncKeeps, ShowKeeps, RemovalKeeps
    <2> QED
      BY <2>1, <2>2, <2>3, StepKinds DEF ServiceKind
  <1> QED
    BY <1>1, <1>2, PTL DEF Spec

(* The OZResource takes its network resource with it in every order of     *)
(* passes, informers, users and administrators: an orphan takes a failed   *)
(* call or a write of the Service controller under a running pass, whose   *)
(* deferred save of the id is then rejected.                               *)
THEOREM OrphansBounded == Spec => []OrphansAccounted
  <1>1. Inv => OrphansAccounted
    <2> SUFFICES ASSUME Inv, lapses = 0, ~clash PROVE Orphans = {}
      BY DEF OrphansAccounted, Inv, Shapes
    <2>1. /\ Live \subseteq {ozr.sid} \cup (IF pc = "save" THEN {loc.sid} ELSE {})
          /\ pc = "save" => fresh
      BY DEF Inv, IdKnown, PassCurrent, Undisturbed
    <2> QED
      BY <2>1 DEF Orphans
  <1> QED
    BY <1>1, Invariance, PTL

(* handleGroups hands on the ids of all the groups of a spec or, after an  *)
(* OZGroup that it could not release, none: whatever users do, whichever   *)
(* copies are outdated and whichever other calls fail, a network resource  *)
(* is created and updated with the groups of a configuration.              *)
THEOREM GroupsAlwaysComplete == Spec => []GroupsComplete
  <1>1. Inv => GroupsComplete
    BY DEF GroupsComplete, Inv, GroupsInHand, GroupSets
  <1> QED
    BY <1>1, Invariance, PTL

(* reconcileDelete takes the object out of every plain policy that lists   *)
(* it, although it reads the policies from an informer that may lag and    *)
(* knows them from a status that is saved last: what can leave an entry    *)
(* behind is a failure, a doomed save or an error about another policy     *)
(* between the policy's status and its own, or a copy of that very policy  *)
(* without the entry when the entry was to be taken out.                   *)
THEOREM PoliciesLetGo == Spec => []PoliciesReleased
  <1>1. Inv => PoliciesReleased
    <2> SUFFICES ASSUME Inv, ozr.phase = "gone", lapses = 0, ~clash, ~broken
                 PROVE  Owed = {}
      BY DEF PoliciesReleased, Managed, Owed, Inv, Shapes
    <2>1. pc = "idle" /\ ozr.spols = {}
      BY DEF Inv, PassCurrent, IdKnown, Undisturbed
    <2> QED
      BY <2>1 DEF Inv, PoliciesKnown, Undisrupted, Undisturbed
  <1> QED
    BY <1>1, Invariance, PTL

-----------------------------------------------------------------------------
(* Induction over a list goes by its least counterexample.                 *)
LEMMA Least ==
  ASSUME NEW T \in SUBSET Nat, T # {}
  PROVE  \E x \in T : \A y \in T : x <= y
  <1>1. \E x \in T : \A y \in T : ~(<<y, x>> \in OpToRel(<, Nat))
    BY NatLessThanWellFounded, WFMin
  <1>2. PICK x \in T : \A y \in T : ~(<<y, x>> \in OpToRel(<, Nat))
    BY <1>1
  <1>3. ASSUME NEW y \in T, y < x PROVE FALSE
    <2>1. <<y, x>> \in OpToRel(<, Nat)
      BY <1>3 DEF OpToRel
    <2> QED
      BY <1>2, <2>1
  <1> QED
    BY <1>3

(* A set of the first n numbers that has 0 and each successor is all.      *)
LEMMA Upwards ==
  ASSUME NEW n \in Nat, NEW T \in SUBSET (0..n), 0 \in T,
         \A i \in 1..n : i - 1 \in T => i \in T
  PROVE  T = 0..n
  <1> DEFINE B == (0..n) \ T
  <1>1. SUFFICES ASSUME B # {} PROVE FALSE
    OBVIOUS
  <1>2. PICK x \in B : \A y \in B : x <= y
    <2>1. B \in SUBSET Nat
      OBVIOUS
    <2> HIDE DEF B
    <2> QED
      BY <1>1, <2>1, Least
  <1>3. x \in 1..n /\ x - 1 \in T
    BY <1>2
  <1> QED
    BY <1>2, <1>3

(* A loop that turns a value of D into the next one, n times.              *)
Iterates(f, a, n, D, g) ==
    f \in [0..n -> D] /\ f[0] = a /\ \A i \in 1..n : f[i] = g[<<i, f[i - 1]>>]

LEMMA Iterate ==
  ASSUME NEW D, NEW a \in D, NEW n \in Nat, NEW g \in [(1..n) \X D -> D]
  PROVE  \E f : Iterates(f, a, n, D, g)
  <1> DEFINE Loop(f, m) == f[0] = a /\ \A i \in 1..m : f[i] = g[<<i, f[i - 1]>>]
             T == {m \in 0..n : \E f \in [0..m -> D] : Loop(f, m)}
  <1>1. 0 \in T
    <2> DEFINE z == [i \in 0..0 |-> a]
    <2>1. z \in [0..0 -> D] /\ Loop(z, 0)
      OBVIOUS
    <2>2. 0 \in 0..n
      OBVIOUS
    <2> HIDE DEF z, Loop
    <2> QED
      BY <2>1, <2>2
  <1>2. ASSUME NEW m \in 1..n, m - 1 \in T PROVE m \in T
    <2>1. PICK f \in [0..(m - 1) -> D] : Loop(f, m - 1)
      BY <1>2
    <2> DEFINE h == [i \in 0..m |-> IF i = m THEN g[<<m, f[m - 1]>>] ELSE f[i]]
    <2>2. f[m - 1] \in D /\ g[<<m, f[m - 1]>>] \in D
      BY <2>1
    <2>3. h \in [0..m -> D]
      BY <2>2
    <2>4. h[0] = a /\ h[m] = g[<<m, f[m - 1]>>]
          /\ \A i \in 0..m - 1 : h[i] = f[i]
      BY <2>1
    <2>5. ASSUME NEW i \in 1..m PROVE h[i] = g[<<i, h[i - 1]>>]
      <3> HIDE DEF h
      <3>1. h[i - 1] = f[i - 1]
        BY <2>4
      <3>2. CASE i = m
        BY <2>4, <3>1, <3>2
      <3>3. CASE i # m
        <4>1. i \in 1..m - 1 /\ i \in 0..m - 1
          BY <3>3
        <4> QED
          BY <2>1, <2>4, <3>1, <4>1
      <3> QED
        BY <3>2, <3>3
    <2>6. m \in 0..n
      OBVIOUS
    <2>7. Loop(h, m)
      <3> HIDE DEF h
      <3> QED
        BY <2>4, <2>5
    <2> HIDE DEF h, Loop
    <2> QED
      BY <2>3, <2>6, <2>7
  <1>3. n \in T
    <2>1. T \in SUBSET (0..n) /\ n \in 0..n
      OBVIOUS
    <2> HIDE DEF T
    <2> QED
      BY <1>1, <1>2, <2>1, Upwards
  <1> QED
    BY <1>3 DEF Iterates

LEMMA Appended ==
  ASSUME NEW s \in Seq(Nat), NEW w \in Nat
  PROVE  /\ Append(s, w) \in Seq(Nat)
         /\ \A u : Contains(Append(s, w), u) <=> Contains(s, u) \/ u = w
         /\ IsInjective(s) /\ ~Contains(s, w) => IsInjective(Append(s, w))
  <1> DEFINE t == Append(s, w)
  <1>1. /\ t \in Seq(Nat) /\ DOMAIN t = 1..(Len(s) + 1) /\ DOMAIN s = 1..Len(s)
        /\ Len(s) \in Nat
        /\ t[Len(s) + 1] = w /\ \A i \in 1..Len(s) : t[i] = s[i]
    OBVIOUS
  <1> HIDE DEF t
  <1>2. \A u : Contains(t, u) <=> Contains(s, u) \/ u = w
    BY <1>1 DEF Contains
  <1>3. IsInjective(s) /\ ~Contains(s, w) => IsInjective(t)
    <2> SUFFICES ASSUME IsInjective(s), ~Contains(s, w),
                        NEW i \in DOMAIN t, NEW j \in DOMAIN t, t[i] = t[j]
                 PROVE  i = j
      BY DEF IsInjective
    <2>1. \A l \in 1..Len(s) : s[l] # w
      BY <1>1 DEF Contains
    <2>2. CASE i \in 1..Len(s) /\ j \in 1..Len(s)
      BY <1>1, <2>2 DEF IsInjective
    <2>3. CASE i = Len(s) + 1 \/ j = Len(s) + 1
      BY <1>1, <2>1, <2>3
    <2> QED
      BY <1>1, <2>2, <2>3
  <1> QED
    BY <1>1, <1>2, <1>3 DEF t

(* The loops of Without and applyPolicy, from pass to pass.                *)
WithoutRun(ret, x, v) ==
    /\ Without(x, v) = ret[Len(x)]
    /\ ret[0] = <<>>
    /\ \A i \in 1..Len(x) :
         ret[i] = IF x[i] = v THEN ret[i - 1] ELSE Append(ret[i - 1], x[i])

LEMMA WithoutLoop ==
  ASSUME NEW x \in Seq(Nat), NEW v
  PROVE  \E ret : WithoutRun(ret, x, v)
  <1> DEFINE n == Len(x)
             Body(f) == [i \in 0..n |-> IF i = 0 THEN <<>>
                           ELSE IF x[i] = v THEN f[i - 1] ELSE Append(f[i - 1], x[i])]
             r == CHOOSE f : f = Body(f)
             g == [p \in (1..n) \X Seq(Nat) |->
                     IF x[p[1]] = v THEN p[2] ELSE Append(p[2], x[p[1]])]
  <1>1. Without(x, v) = r[n]
    BY DEF Without
  <1>2. n \in Nat /\ \A i \in 1..n : x[i] \in Nat
    OBVIOUS
  <1>3. g \in [(1..n) \X Seq(Nat) -> Seq(Nat)]
    BY <1>2
  <1>4. <<>> \in Seq(Nat)
    OBVIOUS
  <1>5. PICK f \in [0..n -> Seq(Nat)] :
          f[0] = <<>> /\ \A i \in 1..n : f[i] = g[<<i, f[i - 1]>>]
    <2> DEFINE D == Seq(Nat)
               e == <<>>
    <2>1. n \in Nat /\ e \in D /\ g \in [(1..n) \X D -> D]
      BY <1>2, <1>3, <1>4
    <2>2. \E f : Iterates(f, e, n, D, g)
      <3> HIDE DEF n, g, D, e
      <3> QED
        BY <2>1, Iterate
    <2> QED
      BY <2>2 DEF Iterates
  <1>6. ASSUME NEW i \in 1..n
        PROVE  f[i] = IF x[i] = v THEN f[i - 1] ELSE Append(f[i - 1], x[i])
    <2>1. i - 1 \in 0..n
      BY <1>2
    <2>2. f[i - 1] \in Seq(Nat) /\ f[i] = g[<<i, f[i - 1]>>]
      BY <1>5, <2>1
    <2> QED
      BY <2>2
  <1>7. f = Body(f)
    <2> HIDE DEF n, g
    <2>1. \A i \in 0..n : f[i] = Body(f)[i]
      <3> SUFFICES ASSUME NEW i \in 0..n PROVE f[i] = Body(f)[i]
        OBVIOUS
      <3>1. i = 0 \/ i \in 1..n
        BY <1>2
      <3> QED
        BY <1>5, <1>6, <3>1
    <2>2. DOMAIN f = 0..n /\ f = [i \in 0..n |-> f[i]]
      BY <1>5
    <2> QED
      BY <2>1, <2>2
  <1>8. r = Body(r)
    <2> HIDE DEF Body
    <2> QED
      BY <1>7, Zenon
  <1>9. /\ r[0] = <<>>
        /\ \A i \in 1..n : r[i] = IF x[i] = v THEN r[i - 1] ELSE Append(r[i - 1], x[i])
    <2> HIDE DEF r, n
    <2>1. \A i \in 0..n : r[i] = Body(r)[i]
      BY <1>8, Zenon
    <2>2. 0 \in 0..n /\ \A i \in 1..n : i \in 0..n /\ i # 0
      BY <1>2
    <2> QED
      BY <2>1, <2>2
  <1> HIDE DEF r
  <1> QED
    BY <1>1, <1>9 DEF WithoutRun

LEMMA WithoutFacts ==
  ASSUME NEW x \in Seq(Nat), NEW v
  PROVE  /\ Without(x, v) \in Seq(Nat)
         /\ \A w : Contains(Without(x, v), w) <=> Contains(x, w) /\ w # v
         /\ IsInjective(x) => IsInjective(Without(x, v))
  <1>0. PICK ret : WithoutRun(ret, x, v)
    BY WithoutLoop
  <1>1. /\ Without(x, v) = ret[Len(x)] /\ ret[0] = <<>>
        /\ \A i \in 1..Len(x) :
             ret[i] = IF x[i] = v THEN ret[i - 1] ELSE Append(ret[i - 1], x[i])
    BY <1>0 DEF WithoutRun
  <1> DEFINE n == Len(x)
             Done(i) == /\ ret[i] \in Seq(Nat)
                        /\ \A w : Contains(ret[i], w) <=> \E j \in 1..i : x[j] = w /\ w # v
                        /\ IsInjective(x) => IsInjective(ret[i])
             T == {i \in 0..n : Done(i)}
  <1>2. n \in Nat /\ (\A i \in 1..n : x[i] \in Nat) /\ DOMAIN x = 1..n
    OBVIOUS
  <1>3. Done(0)
    BY <1>1 DEF Contains, IsInjective
  <1>4. ASSUME NEW i \in 1..n, Done(i - 1) PROVE Done(i)
    <2> HIDE DEF n
    <2>0. i \in Nat /\ i - 1 \in Nat /\ 1..i = (1..i - 1) \cup {i}
      BY <1>2
    <2>1. CASE x[i] = v
      <3>1. ret[i] = ret[i - 1]
        BY <1>1, <2>1 DEF n
      <3> QED
        BY <1>4, <2>0, <2>1, <3>1
    <2>2. CASE x[i] # v
      <3>1. ret[i] = Append(ret[i - 1], x[i]) /\ x[i] \in Nat /\ ret[i - 1] \in Seq(Nat)
        BY <1>1, <1>2, <1>4, <2>2 DEF n
      <3>2. /\ ret[i] \in Seq(Nat)
            /\ \A u : Contains(ret[i], u) <=> Contains(ret[i - 1], u) \/ u = x[i]
            /\ IsInjective(ret[i - 1]) /\ ~Contains(ret[i - 1], x[i]) => IsInjective(ret[i])
        BY <3>1, Appended
      <3>3. \A w : Contains(ret[i], w) <=> \E j \in 1..i : x[j] = w /\ w # v
        BY <1>4, <2>0, <2>2, <3>2
      <3>4. ASSUME IsInjective(x) PROVE ~Contains(ret[i - 1], x[i])
        <4>1. \A j \in 1..i - 1 : j \in DOMAIN x /\ i \in DOMAIN x /\ j # i
          BY <1>2, <2>0
        <4> QED
          BY <1>4, <3>4, <4>1 DEF IsInjective
      <3> QED
        BY <1>4, <3>2, <3>3, <3>4
    <2> QED
      BY <2>1, <2>2
  <1>5. Done(n)
    <2> HIDE DEF n, Done
    <2>1. T \in SUBSET (0..n) /\ 0 \in T /\ n \in 0..n
      BY <1>2, <1>3
    <2>2. \A i \in 1..n : i - 1 \in T => i \in T
      BY <1>2, <1>4
    <2>3. T = 0..n
      <3> HIDE DEF T
      <3> QED
        BY <1>2, <2>1, <2>2, Upwards
    <2> QED
      BY <2>1, <2>3
  <1> QED
    BY <1>1, <1>2, <1>5 DEF Contains

LEMMA EditFacts ==
  ASSUME NEW s \in Seq(Nat), NEW v \in Nat, NEW c
  PROVE  /\ Edit(s, v, c) \in Seq(Nat)
         /\ \A w : Contains(Edit(s, v, c), w) <=>
                     IF w = v THEN ~FilteredOut(v, c) ELSE Contains(s, w)
         /\ IsInjective(s) => IsInjective(Edit(s, v, c))
  <1>1. CASE FilteredOut(v, c)
    <2>1. Edit(s, v, c) = Without(s, v)
      BY <1>1 DEF Edit
    <2> QED
      BY <1>1, <2>1, WithoutFacts
  <1>2. CASE ~FilteredOut(v, c) /\ Contains(s, v)
    BY <1>2 DEF Edit
  <1>3. CASE ~FilteredOut(v, c) /\ ~Contains(s, v)
    <2>1. Edit(s, v, c) = Append(s, v)
      BY <1>3 DEF Edit
    <2> QED
      BY <1>3, <2>1, Appended
  <1> QED
    BY <1>1, <1>2, <1>3

PortsRun(list, old, c) ==
    /\ Ports(old, c) = list[Len(c.ports)]
    /\ list[0] = old
    /\ \A i \in 1..Len(c.ports) : list[i] = Edit(list[i - 1], c.ports[i], c)

LEMMA PortsLoop ==
  ASSUME NEW c, c.ports \in Seq(Nat), NEW old \in Seq(Nat)
  PROVE  \E list : PortsRun(list, old, c)
  <1> DEFINE x == c.ports
             n == Len(x)
             Body(f) == [i \in 0..n |-> IF i = 0 THEN old ELSE Edit(f[i - 1], x[i], c)]
             r == CHOOSE f : f = Body(f)
             g == [p \in (1..n) \X Seq(Nat) |-> Edit(p[2], x[p[1]], c)]
  <1>1. Ports(old, c) = r[n]
    BY DEF Ports
  <1>2. n \in Nat /\ \A i \in 1..n : x[i] \in Nat
    OBVIOUS
  <1>3. g \in [(1..n) \X Seq(Nat) -> Seq(Nat)]
    BY <1>2, EditFacts
  <1>5. PICK f \in [0..n -> Seq(Nat)] :
          f[0] = old /\ \A i \in 1..n : f[i] = g[<<i, f[i - 1]>>]
    <2> DEFINE D == Seq(Nat)
    <2>1. n \in Nat /\ old \in D /\ g \in [(1..n) \X D -> D]
      BY <1>2, <1>3
    <2>2. \E f : Iterates(f, old, n, D, g)
      <3> HIDE DEF n, g, D
      <3> QED
        BY <2>1, Iterate
    <2> QED
      BY <2>2 DEF Iterates
  <1>6. ASSUME NEW i \in 1..n PROVE f[i] = Edit(f[i - 1], x[i], c)
    <2>1. i - 1 \in 0..n
      BY <1>2
    <2>2. f[i - 1] \in Seq(Nat) /\ f[i] = g[<<i, f[i - 1]>>]
      BY <1>5, <2>1
    <2> QED
      BY <2>2
  <1>7. f = Body(f)
    <2> HIDE DEF n, g
    <2>1. \A i \in 0..n : f[i] = Body(f)[i]
      <3> SUFFICES ASSUME NEW i \in 0..n PROVE f[i] = Body(f)[i]
        OBVIOUS
      <3>1. i = 0 \/ i \in 1..n
        BY <1>2
      <3> QED
        BY <1>5, <1>6, <3>1
    <2>2. DOMAIN f = 0..n /\ f = [i \in 0..n |-> f[i]]
      BY <1>5
    <2> QED
      BY <2>1, <2>2
  <1>8. r = Body(r)
    <2> HIDE DEF Body
    <2> QED
      BY <1>7, Zenon
  <1>9. r[0] = old /\ \A i \in 1..n : r[i] = Edit(r[i - 1], x[i], c)
    <2> HIDE DEF r, n
    <2>1. \A i \in 0..n : r[i] = Body(r)[i]
      BY <1>8, Zenon
    <2>2. 0 \in 0..n /\ \A i \in 1..n : i \in 0..n /\ i # 0
      BY <1>2
    <2> QED
      BY <2>1, <2>2
  <1> HIDE DEF r
  <1> QED
    BY <1>1, <1>9 DEF PortsRun

(* What applyPolicy makes of the list: a port of the Service is in it if   *)
(* and only if the filter lets it be, another one if it was there before.  *)
LEMMA PortsFacts ==
  ASSUME NEW c, c.ports \in Seq(Nat), NEW old \in Seq(Nat)
  PROVE  /\ Ports(old, c) \in Seq(Nat)
         /\ \A w : Contains(Ports(old, c), w) <=>
                     IF Contains(c.ports, w) THEN ~FilteredOut(w, c) ELSE Contains(old, w)
         /\ IsInjective(old) => IsInjective(Ports(old, c))
  <1> DEFINE x == c.ports
             n == Len(x)
  <1>0. PICK list : PortsRun(list, old, c)
    BY PortsLoop
  <1>1. /\ Ports(old, c) = list[n] /\ list[0] = old
        /\ \A i \in 1..n : list[i] = Edit(list[i - 1], x[i], c)
    BY <1>0 DEF PortsRun
  <1> DEFINE Done(i) ==
               /\ list[i] \in Seq(Nat)
               /\ \A w : Contains(list[i], w) <=>
                           IF \E j \in 1..i : x[j] = w THEN ~FilteredOut(w, c)
                           ELSE Contains(old, w)
               /\ IsInjective(old) => IsInjective(list[i])
             T == {i \in 0..n : Done(i)}
  <1>2. n \in Nat /\ (\A i \in 1..n : x[i] \in Nat) /\ DOMAIN x = 1..n
    OBVIOUS
  <1>3. Done(0)
    BY <1>1
  <1>4. ASSUME NEW i \in 1..n, Done(i - 1) PROVE Done(i)
    <2> HIDE DEF n, x
    <2>0. i \in Nat /\ i - 1 \in Nat /\ 1..i = (1..i - 1) \cup {i} /\ i \notin 1..i - 1
      BY <1>2
    <2>1. list[i] = Edit(list[i - 1], x[i], c) /\ x[i] \in Nat /\ list[i - 1] \in Seq(Nat)
      BY <1>1, <1>2, <1>4
    <2>2. /\ list[i] \in Seq(Nat)
          /\ \A w : Contains(list[i], w) <=>
                      IF w = x[i] THEN ~FilteredOut(x[i], c) ELSE Contains(list[i - 1], w)
          /\ IsInjective(list[i - 1]) => IsInjective(list[i])
      BY <2>1, EditFacts
    <2>3. ASSUME NEW w
          PROVE  Contains(list[i], w) <=> IF \E j \in 1..i : x[j] = w THEN ~FilteredOut(w, c)
                                          ELSE Contains(old, w)
      <3>1. CASE w = x[i]
        BY <2>0, <2>2, <3>1
      <3>2. CASE w # x[i]
        BY <1>4, <2>0, <2>2, <3>2
      <3> QED
        BY <3>1, <3>2
    <2> QED
      BY <1>4, <2>2, <2>3
  <1>5. Done(n)
    <2> HIDE DEF n, Done
    <2>1. T \in SUBSET (0..n) /\ 0 \in T /\ n \in 0..n
      BY <1>2, <1>3
    <2>2. \A i \in 1..n : i - 1 \in T => i \in T
      BY <1>2, <1>4
    <2>3. T = 0..n
      <3> HIDE DEF T
      <3> QED
        BY <1>2, <2>1, <2>2, Upwards
    <2> QED
      BY <2>1, <2>3
  <1>6. \A w : Contains(x, w) <=> \E j \in 1..n : x[j] = w
    BY <1>2 DEF Contains
  <1> QED
    BY <1>1, <1>5, <1>6

(* Lists that Equivalent takes for equal have the same elements when the   *)
(* second is without repetitions.                                          *)
LEMMA EquivalentSame ==
  ASSUME NEW x \in Seq(Nat), NEW y \in Seq(Nat), IsInjective(y), Equivalent(x, y)
  PROVE  \A v : Contains(x, v) <=> Contains(y, v)
  <1> DEFINE n == Len(x)
             X == Range(x)
             Y == Range(y)
  <1>1. /\ n \in Nat /\ Len(y) = n /\ DOMAIN x = 1..n /\ DOMAIN y = 1..n
        /\ x \in [1..n -> X] /\ y \in [1..n -> Y]
    BY DEF Equivalent, Range
  <1>2. IsFiniteSet(1..n) /\ Cardinality(1..n) = n
    <2> HIDE DEF n
    <2>1. 1 \in Int /\ n \in Int /\ n \in Nat
      BY <1>1
    <2>2. IsFiniteSet(1..n) /\ Cardinality(1..n) = IF 1 > n THEN 0 ELSE n - 1 + 1
      BY <2>1, FS_Interval
    <2> QED
      BY <2>1, <2>2
  <1>3. x \in Surjection(1..n, X) /\ y \in Surjection(1..n, Y) /\ y \in Injection(1..n, Y)
    BY <1>1 DEF Surjection, Injection, Range
  <1>4. IsFiniteSet(X) /\ Cardinality(X) <= n /\ IsFiniteSet(Y) /\ Cardinality(Y) = n
    <2> HIDE DEF n, X, Y
    <2> QED
      BY <1>2, <1>3, FS_Surjection
  <1>5. Y \in SUBSET X
    BY DEF Equivalent, Contains, Range
  <1>6. X = Y
    <2> HIDE DEF n, X, Y
    <2>1. Cardinality(X) \in Nat /\ Cardinality(Y) <= Cardinality(X)
      BY <1>4, <1>5, FS_CardinalityType, FS_Subset
    <2>2. Cardinality(X) = Cardinality(Y)
      BY <1>1, <1>4, <2>1
    <2> QED
      BY <1>4, <1>5, <2>2, FS_Subset
  <1> QED
    BY <1>6 DEF Contains, Range

-----------------------------------------------------------------------------
(* Ports.  A pass works on the spec that the API has as long as its copy   *)
(* is current, and what a pass of the Service controller read is what the  *)
(* informer has until another one is due.  Then what the last pass left is *)
(* in line with the Service, unless it knows that it missed a change.      *)
PortsKnown(o) == o.spec.ports \in Seq(Nat) /\ IsInjective(o.spec.ports)
SameSpec(o, q) == q.spec = o.spec /\ q.phase = o.phase
PassSpec == pc # "idle" /\ fresh => SameSpec(ozr, loc)

Asks(s) == s.phase = "live" /\ s.cfg.exposed
Reads == spc # "idle" =>
           /\ ~sdue => sloc.cfg = scache.cfg /\ sloc.phase = scache.phase
           /\ spc \in {"addFin", "expose"} <=> Asks(sloc)

InLine(list, c) ==
    \A v \in Range(c.ports) : Contains(list, v) <=> ~FilteredOut(v, c)
LeftInLine ==
    /\ spc = "idle" /\ ~sdue /\ ~missed
    /\ Asks(scache) /\ scache.cfg.pols # {} /\ scache.cfg.valid
    /\ ozr.phase = "live"
    => InLine(ozr.spec.ports, scache.cfg)

PortsInv == /\ PortsKnown(ozr) /\ PortsKnown(rcache) /\ PassSpec
            /\ spc \in {"idle", "addFin", "expose", "hide", "removeFin"}
            /\ sdue \in BOOLEAN /\ missed \in BOOLEAN
            /\ Reads /\ LeftInLine

LEMMA InLineSame ==
  ASSUME NEW x, NEW y, NEW c, InLine(y, c), \A v : Contains(x, v) <=> Contains(y, v)
  PROVE  InLine(x, c)
  BY DEF InLine

(* The ports of the spec that a Service asks for.                          *)
LEMMA NewPorts ==
  ASSUME NEW c \in Configs, NEW o, PortsKnown(o)
  PROVE  /\ NewSpec(o.spec, c).ports \in Seq(Nat)
         /\ IsInjective(NewSpec(o.spec, c).ports)
         /\ c.pols # {} => InLine(NewSpec(o.spec, c).ports, c)
  <1> DEFINE old == o.spec.ports
  <1>1. old \in Seq(Nat) /\ IsInjective(old) /\ c.ports \in Seq(Nat)
    BY ConfigsAssumption DEF PortsKnown
  <1>2. NewSpec(o.spec, c).ports = IF c.pols # {} THEN Ports(old, c)
                                   ELSE IF o.spec.pols # {} THEN <<>> ELSE old
    BY DEF NewSpec
  <1> HIDE DEF old
  <1>3. /\ Ports(old, c) \in Seq(Nat) /\ IsInjective(Ports(old, c))
        /\ \A w : Contains(Ports(old, c), w) <=>
                    IF Contains(c.ports, w) THEN ~FilteredOut(w, c) ELSE Contains(old, w)
    BY <1>1, PortsFacts
  <1>4. InLine(Ports(old, c), c)
    BY <1>3 DEF InLine, Range, Contains
  <1>5. <<>> \in Seq(Nat) /\ IsInjective(<<>>)
    BY DEF IsInjective
  <1> QED
    BY <1>1, <1>2, <1>3, <1>4, <1>5

(* What a step of the OZResource controller does to specs.                 *)
SpecStep ==
    /\ UNCHANGED rcache
    /\ \/ pc' # "idle" /\ UNCHANGED ozr /\ loc' = rcache /\ fresh' = (rcache = ozr)
       \/ pc # "idle" /\ UNCHANGED fresh /\ SameSpec(ozr, ozr') /\ SameSpec(loc, loc')
       \/ pc' = "idle" /\ SameSpec(ozr, ozr')
       \/ pc # "idle" /\ pc' = "idle" /\ fresh /\ ozr' = loc
       \/ pc' = "idle" /\ ozr' = Gone

LEMMA SpecSteps == ASSUME Shapes, RStep PROVE SpecStep
  <1> USE DEF SpecStep, kube, others
  <1>o. IsObject(ozr) /\ IsObject(loc) /\ SameSpec(ozr, ozr) /\ SameSpec(loc, loc)
    BY DEF Shapes, SameSpec
  <1>e. EndPass => pc' = "idle"
    BY DEF EndPass
  <1>1. CASE Start
    BY <1>1 DEF Start
  <1>2. CASE AddFinalizer
    <2>1. CASE ~fresh /\ EndPass /\ UNCHANGED ozr
      BY <1>2, <1>o, <1>e, <2>1 DEF AddFinalizer
    <2>2. CASE /\ ozr' = [ozr EXCEPT !.rfin = TRUE] /\ loc' = [loc EXCEPT !.rfin = TRUE]
               /\ UNCHANGED fresh
      <3>1. SameSpec(ozr, ozr') /\ SameSpec(loc, loc')
        BY <1>o, <2>2, HoldObject DEF SameSpec
      <3> QED
        BY <1>2, <2>2, <3>1 DEF AddFinalizer
    <2> QED
      BY <1>2, <2>1, <2>2 DEF AddFinalizer
  <1>3. CASE ReleaseGroups \/ ReleasePolicy \/ DeleteResource \/ ReleaseAllGroups
    <2>1. /\ pc # "idle" /\ UNCHANGED <<ozr, rcache>>
          /\ UNCHANGED <<loc, fresh>> \/ EndPass
      BY <1>3 DEF ReleaseGroups, ReleasePolicy, DeleteResource, ReleaseAllGroups, Goto
    <2> QED
      BY <1>o, <1>e, <2>1
  <1>4. CASE EnsureGroups
    <2>1. pc # "idle" /\ UNCHANGED <<ozr, rcache>>
      BY <1>4 DEF EnsureGroups
    <2>2. CASE UNCHANGED <<loc, fresh>>
      BY <1>o, <2>1, <2>2
    <2>3. CASE loc' = [loc EXCEPT !.ready = "false"] /\ UNCHANGED fresh
      <3>1. SameSpec(loc, loc')
        BY <1>o, <2>3, MarkObject DEF SameSpec
      <3> QED
        BY <1>o, <2>1, <2>3, <3>1
    <2>4. CASE EndPass
      BY <1>o, <1>e, <2>1, <2>4
    <2> QED
      BY <1>4, <2>2, <2>3, <2>4 DEF EnsureGroups
  <1>5. CASE SyncResource
    <2>1. pc # "idle" /\ UNCHANGED <<ozr, rcache, fresh>>
      BY <1>5 DEF SyncResource
    <2>2. CASE UNCHANGED loc
      BY <1>o, <2>1, <2>2
    <2>3. CASE \E i \in Ids \cup {None} : loc' = [loc EXCEPT !.sid = i]
      <3>1. SameSpec(loc, loc')
        BY <1>o, <2>3, IdObject DEF SameSpec
      <3> QED
        BY <1>o, <2>1, <3>1
    <2>4. CASE loc' = [loc EXCEPT !.ready = "dup"]
      <3>1. SameSpec(loc, loc')
        BY <1>o, <2>4, MarkObject DEF SameSpec
      <3> QED
        BY <1>o, <2>1, <3>1
    <2> QED
      BY <1>5, <2>2, <2>3, <2>4 DEF SyncResource
  <1>6. CASE HandlePolicy \/ RegisterPolicy
    <2>1. pc # "idle" /\ UNCHANGED <<ozr, rcache>>
      BY <1>6 DEF HandlePolicy, RegisterPolicy
    <2>2. CASE UNCHANGED <<loc, fresh>>
      BY <1>o, <2>1, <2>2
    <2>3. CASE EndPass
      BY <1>o, <1>e, <2>1, <2>3
    <2>4. CASE Listed(Policy)
      <3>1. SameSpec(loc, loc') /\ UNCHANGED fresh
        BY <1>o, <2>4, PortsObject DEF SameSpec, Listed
      <3> QED
        BY <1>o, <2>1, <3>1
    <2>5. CASE loc' = [loc EXCEPT !.map = @ \cup {Policy}] /\ UNCHANGED fresh
      <3>1. SameSpec(loc, loc')
        BY <1>o, <2>5, MapObject DEF SameSpec
      <3> QED
        BY <1>o, <2>1, <2>5, <3>1
    <2> QED
      BY <1>6, <2>2, <2>3, <2>4, <2>5 DEF HandlePolicy, RegisterPolicy, Register, PolicyError
  <1>7. CASE PoliciesDone
    BY <1>7, <1>o DEF PoliciesDone
  <1>8. CASE HandlePolicyDelete
    <2>1. pc # "idle" /\ UNCHANGED <<ozr, rcache>>
      BY <1>8 DEF HandlePolicyDelete
    <2>2. CASE UNCHANGED <<loc, fresh>>
      BY <1>o, <2>1, <2>2
    <2>3. CASE loc' = [loc EXCEPT !.map = @ \ {Policy}] /\ UNCHANGED fresh
      <3>1. SameSpec(loc, loc')
        BY <1>o, <2>3, MapObject DEF SameSpec
      <3> QED
        BY <1>o, <2>1, <2>3, <3>1
    <2>4. CASE EndPass
      BY <1>o, <1>e, <2>1, <2>4
    <2> QED
      BY <1>8, <2>2, <2>3, <2>4 DEF HandlePolicyDelete, PolicyError
  <1>9. CASE FinishPolicies
    <2>1. SameSpec(loc, loc')
      BY <1>o, <1>9, FinishObject DEF FinishPolicies, SameSpec
    <2> QED
      BY <1>9, <1>o, <2>1 DEF FinishPolicies
  <1>10. CASE SaveStatus
    BY <1>10, <1>o, <1>e DEF SaveStatus
  <1>11. CASE RemoveFinalizers
    BY <1>11, <1>o, <1>e DEF RemoveFinalizers
  <1> QED
    BY <1>1, <1>2, <1>3, <1>4, <1>5, <1>6, <1>7, <1>8, <1>9, <1>10, <1>11 DEF RStep

(* The OZResource, for a step that leaves the Service controller alone.    *)
LEMMA SpecStepKeeps ==
  ASSUME PortsInv, SpecStep, UNCHANGED <<spc, sloc, sdue, missed, scache>>
  PROVE  PortsInv'
  <1> USE DEF PortsInv
  <1>1. /\ spc' \in {"idle", "addFin", "expose", "hide", "removeFin"}
        /\ sdue' \in BOOLEAN /\ missed' \in BOOLEAN /\ Reads' /\ PortsKnown(rcache)'
    BY DEF Reads, Asks, SpecStep, PortsKnown
  <1>2. CASE UNCHANGED ozr /\ loc' = rcache /\ fresh' = (rcache = ozr)
    BY <1>1, <1>2 DEF PassSpec, SameSpec, PortsKnown, LeftInLine
  <1>3. CASE pc # "idle" /\ UNCHANGED fresh /\ SameSpec(ozr, ozr') /\ SameSpec(loc, loc')
    BY <1>1, <1>3 DEF PassSpec, SameSpec, PortsKnown, LeftInLine
  <1>4. CASE pc' = "idle" /\ SameSpec(ozr, ozr')
    BY <1>1, <1>4 DEF PassSpec, SameSpec, PortsKnown, LeftInLine
  <1>5. CASE pc # "idle" /\ pc' = "idle" /\ fresh /\ ozr' = loc
    <2>1. SameSpec(ozr, ozr')
      BY <1>5 DEF PassSpec
    <2> QED
      BY <1>4, <1>5, <2>1
  <1>6. CASE pc' = "idle" /\ ozr' = Gone
    <2>1. Gone.phase = "gone" /\ PortsKnown(Gone)
      <3>1. Gone.phase = "gone" /\ Gone.spec.ports = <<>>
        BY DEF Gone, New
      <3> QED
        BY <3>1 DEF PortsKnown, IsInjective
    <2> QED
      BY <1>1, <1>6, <2>1 DEF PassSpec, PortsKnown, LeftInLine
  <1> QED
    BY <1>2, <1>3, <1>4, <1>5, <1>6 DEF SpecStep

(* The Service controller, for a step that leaves the OZResource alone.    *)
Elsewhere == UNCHANGED <<ozr, rcache, pc, loc, fresh>>

LEMMA ServiceStepKeeps ==
  ASSUME PortsInv, Elsewhere,
         \/ SStart \/ SAddFinalizer \/ ExposeRouter \/ SRemoveFinalizer \/ SAbort
         \/ SCacheSync \/ RouterReady \/ UserChange
  PROVE  PortsInv'
  <1> USE DEF PortsInv
  <1>0. PortsKnown(ozr)' /\ PortsKnown(rcache)' /\ PassSpec'
    BY DEF Elsewhere, PortsKnown, PassSpec, SameSpec
  <1>1. CASE SStart
    <2>1. /\ spc' \in {"idle", "addFin", "expose", "hide", "removeFin"}
          /\ sdue' = FALSE /\ UNCHANGED <<scache, missed>>
      BY <1>1 DEF SStart
    <2>2. CASE scache.phase = "gone" /\ UNCHANGED <<spc, sloc>>
      BY <1>0, <1>1, <2>1, <2>2 DEF SStart, Reads, LeftInLine, Asks
    <2>3. CASE /\ scache.phase # "gone" /\ sloc' = scache
               /\ spc' = CASE scache.phase = "live" /\ scache.cfg.exposed ->
                                IF scache.fin THEN "expose" ELSE "addFin"
                           [] OTHER -> "hide"
      BY <1>0, <2>1, <2>3 DEF Reads, LeftInLine, Asks
    <2> QED
      BY <1>1, <2>2, <2>3 DEF SStart
  <1>2. CASE SAddFinalizer
    <2>1. CASE /\ sloc' = [sloc EXCEPT !.fin = TRUE] /\ spc' = "expose"
               /\ UNCHANGED sdue
      <3>1. sloc'.cfg = sloc.cfg /\ sloc'.phase = sloc.phase
        BY <2>1
      <3> QED
        BY <1>0, <1>2, <2>1, <3>1 DEF SAddFinalizer, Reads, LeftInLine, Asks
    <2>2. CASE SEnd(TRUE)
      BY <1>0, <1>2, <2>2 DEF SAddFinalizer, SEnd, Reads, LeftInLine
    <2> QED
      BY <1>2, <2>1, <2>2 DEF SAddFinalizer
  <1>3. CASE ExposeRouter \/ SAbort
    BY <1>0, <1>3 DEF ExposeRouter, SAbort, SEnd, Reads, LeftInLine
  <1>4. CASE SRemoveFinalizer
    <2>1. ~sdue => ~Asks(scache)
      BY <1>4 DEF SRemoveFinalizer, Reads, Asks
    <2>2. /\ spc' = "idle" /\ sdue' \in {sdue, TRUE} /\ UNCHANGED <<scache, missed>>
      BY <1>4 DEF SRemoveFinalizer, SEnd
    <2> QED
      BY <1>0, <2>1, <2>2 DEF Reads, LeftInLine, Asks
  <1>5. CASE SCacheSync
    BY <1>0, <1>5 DEF SCacheSync, Reads, LeftInLine, Asks
  <1>6. CASE RouterReady \/ UserChange
    BY <1>0, <1>6 DEF RouterReady, UserChange, Reads, LeftInLine, Asks, Elsewhere
  <1> QED
    BY <1>1, <1>2, <1>3, <1>4, <1>5, <1>6

(* The two writes.                                                         *)
LEMMA HidePortsKeeps ==
  ASSUME PortsInv, Shapes, HideResource
  PROVE  PortsInv'
  <1> USE DEF PortsInv
  <1>1. /\ spc = "hide" /\ UNCHANGED <<scache, rcache, pc, loc>>
        /\ missed' \in BOOLEAN
    BY DEF HideResource
  <1>2. \/ SGoto("removeFin") \/ SEnd(FALSE) \/ SEnd(TRUE)
    BY DEF HideResource
  <1>3. /\ ozr'.spec = ozr.spec
        /\ UNCHANGED <<ozr, fresh>> \/ fresh' = FALSE
    <2>1. CASE UNCHANGED <<ozr, fresh>>
      BY <2>1
    <2>2. CASE ozr' = [ozr EXCEPT !.phase = "deleting"] /\ Overtake
      BY <2>2, PhaseObject DEF Shapes, Overtake
    <2> QED
      BY <2>1, <2>2 DEF HideResource
  <1>4. PortsKnown(ozr)' /\ PortsKnown(rcache)' /\ PassSpec'
    BY <1>1, <1>3 DEF PortsKnown, PassSpec, SameSpec
  <1>5. CASE SGoto("removeFin")
    BY <1>1, <1>4, <1>5 DEF SGoto, Reads, LeftInLine, Asks
  <1>6. CASE SEnd(FALSE) \/ SEnd(TRUE)
    <2>1. ~sdue => ~Asks(scache)
      BY <1>1 DEF Reads, Asks
    <2>2. spc' = "idle" /\ sdue' \in {sdue, TRUE}
      BY <1>6 DEF SEnd
    <2> QED
      BY <1>1, <1>4, <2>1, <2>2 DEF Reads, LeftInLine, Asks
  <1> QED
    BY <1>2, <1>5, <1>6

LEMMA ExposeKeeps ==
  ASSUME PortsInv, Shapes, ServiceTypes, ExposeResource
  PROVE  PortsInv'
  <1> USE DEF PortsInv
  <1> DEFINE c == sloc.cfg
             spec == NewSpec(rcache.spec, c)
  <1>1. /\ spc = "expose" /\ UNCHANGED <<scache, rcache, pc, loc>>
        /\ c \in Configs
    BY DEF ExposeResource, ServiceTypes, Services
  <1>2. /\ spec.ports \in Seq(Nat) /\ IsInjective(spec.ports)
        /\ c.pols # {} => InLine(spec.ports, c)
    BY <1>1, NewPorts
  <1>3. IsSpec(spec)
    BY <1>1, NewSpecShape
  <1>4. ~sdue => c = scache.cfg
    BY <1>1 DEF Reads
  <1>5. \/ SEnd(TRUE) /\ UNCHANGED <<ozr, fresh, missed>>
        \/ /\ SEnd(FALSE) /\ UNCHANGED <<ozr, fresh>>
           /\ missed' = (ozr.phase # "live" \/ ~SpecEqual(ozr.spec, spec))
        \/ /\ IF rcache.phase = "gone" THEN ozr.phase = "gone" ELSE rcache = ozr
           /\ ozr' = IF rcache.phase = "gone" THEN New(spec)
                     ELSE [ozr EXCEPT !.spec = spec, !.rfin = FALSE]
           /\ SEnd(FALSE) /\ Overtake /\ missed' = (ozr'.phase # "live")
    BY DEF ExposeResource
  <1>6. PortsKnown(rcache)' /\ Reads' /\ spc' = "idle" /\ missed' \in BOOLEAN
        /\ sdue' \in BOOLEAN
    BY <1>1, <1>5 DEF PortsKnown, Reads, SEnd
  <1> HIDE DEF spec
  <1>7. CASE SEnd(TRUE) /\ UNCHANGED <<ozr, fresh, missed>>
    BY <1>1, <1>6, <1>7 DEF SEnd, PortsKnown, PassSpec, SameSpec, LeftInLine
  <1>8. CASE /\ SEnd(FALSE) /\ UNCHANGED <<ozr, fresh>>
             /\ missed' = (ozr.phase # "live" \/ ~SpecEqual(ozr.spec, spec))
    <2>1. PortsKnown(ozr)' /\ PassSpec'
      BY <1>1, <1>8 DEF PortsKnown, PassSpec, SameSpec
    <2>2. ASSUME ~sdue, ~missed', c.pols # {} PROVE InLine(ozr.spec.ports, scache.cfg)
      <3>1. Equivalent(ozr.spec.ports, spec.ports) /\ ozr.spec.ports \in Seq(Nat)
        BY <1>8, <2>2 DEF SpecEqual, PortsKnown
      <3> DEFINE x == ozr.spec.ports
                 y == spec.ports
      <3>2. x \in Seq(Nat) /\ y \in Seq(Nat) /\ IsInjective(y) /\ Equivalent(x, y)
        BY <1>2, <3>1
      <3>3. \A v : Contains(x, v) <=> Contains(y, v)
        <4> HIDE DEF x, y
        <4> QED
          BY <3>2, EquivalentSame
      <3>4. InLine(y, c)
        BY <1>2, <2>2
      <3> QED
        BY <1>4, <2>2, <3>3, <3>4, InLineSame
    <2> QED
      BY <1>1, <1>4, <1>6, <1>8, <2>1, <2>2 DEF SEnd, LeftInLine
  <1>9. CASE /\ IF rcache.phase = "gone" THEN ozr.phase = "gone" ELSE rcache = ozr
             /\ ozr' = IF rcache.phase = "gone" THEN New(spec)
                       ELSE [ozr EXCEPT !.spec = spec, !.rfin = FALSE]
             /\ SEnd(FALSE) /\ Overtake /\ missed' = (ozr'.phase # "live")
    <2>1. ozr'.spec = spec
      <3>1. CASE rcache.phase = "gone"
        BY <1>3, <1>9, <3>1, NewObject
      <3>2. CASE rcache.phase # "gone"
        BY <1>3, <1>9, <3>2, EditObject DEF Shapes
      <3> QED
        BY <3>1, <3>2
    <2>2. PortsKnown(ozr)' /\ PassSpec'
      BY <1>2, <1>9, <2>1 DEF PortsKnown, PassSpec, Overtake
    <2>3. ~sdue /\ c.pols # {} => InLine(ozr'.spec.ports, scache.cfg)
      BY <1>2, <1>4, <2>1
    <2> QED
      BY <1>1, <1>4, <1>6, <1>9, <2>2, <2>3 DEF SEnd, LeftInLine
  <1> QED
    BY <1>5, <1>7, <1>8, <1>9

(* reconcileNBResource and applyPolicy keep the ports in line for every    *)
(* list of ports, filter and order of passes, informers, edits and         *)
(* failures.  A list is edited where it stands and written only if         *)
(* Equivalent, which compares lengths and one direction of membership,     *)
(* says that it changed: that is enough, since a list starts empty and     *)
(* never gets a port twice.                                                *)
THEOREM PortsStayInLine == Spec => []PortsInLine
  <1>1. Init => PortsInv
    <2> SUFFICES ASSUME Init PROVE PortsInv
      OBVIOUS
    <2>1. Gone.phase = "gone" /\ PortsKnown(Gone)
      <3>1. Gone.phase = "gone" /\ Gone.spec.ports = <<>>
        BY DEF Gone, New
      <3> QED
        BY <3>1 DEF PortsKnown, IsInjective
    <2> QED
      BY <2>1 DEF Init, RInit, PortsInv, PassSpec, Reads, LeftInLine
  <1>2. PortsInv /\ ServiceTypes /\ Inv /\ [Next]_vars => PortsInv'
    <2> SUFFICES ASSUME PortsInv, ServiceTypes, Shapes, [Next]_vars PROVE PortsInv'
      BY DEF Inv
    <2> USE DEF ovars, kube, pass, others
    <2>o. SameService => UNCHANGED <<spc, sloc, sdue, missed, scache>>
      BY DEF SameService, service
    <2>s. SameSpec(ozr, ozr) /\ SameSpec(loc, loc)
      BY DEF SameSpec
    <2>1. CASE RStep /\ SameService
      BY <2>1, <2>o, SpecSteps, SpecStepKeeps
    <2>2. CASE Abort /\ SameService
      <3>1. SpecStep
        BY <2>2, <2>s DEF Abort, EndPass, SpecStep
      <3> QED
        BY <2>2, <2>o, <3>1, SpecStepKeeps
    <2>3. CASE CacheSync /\ SameService
      <3>1. /\ rcache' = ozr
            /\ UNCHANGED <<ozr, pc, loc, fresh, spc, sloc, sdue, missed, scache>>
        BY <2>3, <2>o DEF CacheSync
      <3> QED
        BY <3>1 DEF PortsInv, PortsKnown, PassSpec, SameSpec, Reads, Asks, LeftInLine
    <2>4. CASE \/ (OtherSync \/ OtherControllers \/ AdminRemoves) /\ SameService
               \/ UNCHANGED vars
      <3>1. /\ UNCHANGED <<ozr, rcache, pc, loc, fresh, spc, sloc, sdue, missed, scache>>
        BY <2>4, <2>o DEF OtherSync, GroupSync, PolicySync, OtherControllers, BindGroup,
           CollectGroup, PolicyGone, AdminRemoves, vars, service
      <3> QED
        BY <3>1 DEF PortsInv, PortsKnown, PassSpec, SameSpec, Reads, Asks, LeftInLine
    <2>5. CASE \/ SStart \/ SAddFinalizer \/ ExposeRouter \/ SRemoveFinalizer \/ SAbort
               \/ SCacheSync \/ RouterReady \/ UserChange
      <3>1. Elsewhere
        BY <2>5 DEF SStart, SAddFinalizer, ExposeRouter, SRemoveFinalizer, SAbort,
           SCacheSync, RouterReady, UserChange, Elsewhere
      <3> QED
        BY <2>5, <3>1, ServiceStepKeeps
    <2>6. CASE HideResource
      BY <2>6, HidePortsKeeps
    <2>7. CASE ExposeResource
      BY <2>7, ExposeKeeps
    <2> QED
      BY <2>1, <2>2, <2>3, <2>4, <2>5, <2>6, <2>7 DEF Next, SStep
  <1>3. PortsInv => PortsInLine
    <2> SUFFICES ASSUME PortsInv,
                        Exposed /\ svc.cfg.pols # {} /\ svc.cfg.valid,
                        spc = "idle" /\ ~sdue /\ scache = svc,
                        ozr.phase = "live" /\ rcache = ozr /\ ~missed,
                        NEW v \in Range(svc.cfg.ports)
                 PROVE  v \in Range(ozr.spec.ports) <=> v \in Allowed
      BY DEF PortsInLine
    <2>1. InLine(ozr.spec.ports, svc.cfg)
      BY DEF PortsInv, LeftInLine, Asks, Exposed
    <2>2. v \in Range(ozr.spec.ports) <=> Contains(ozr.spec.ports, v)
      BY DEF Range, Contains
    <2> QED
      BY <2>1, <2>2 DEF InLine, Allowed
  <1> QED
    BY <1>1, <1>2, <1>3, Invariance, PTL DEF Spec

-----------------------------------------------------------------------------
(* applyPolicy, whatever list it starts from: of the ports of the Service  *)
(* exactly those the annotation allows are open after it, and the ports    *)
(* the Service does not have are as they were.                             *)
THEOREM PortsEdited ==
  ASSUME NEW c \in Configs, NEW old \in Seq(Nat)
  PROVE  Range(Ports(old, c)) = (Range(old) \ Range(c.ports)) \cup
                                {v \in Range(c.ports) : ~FilteredOut(v, c)}
  <1>1. c.ports \in Seq(Nat)
    BY ConfigsAssumption
  <1>2. \A w : Contains(Ports(old, c), w) <=>
                 IF Contains(c.ports, w) THEN ~FilteredOut(w, c) ELSE Contains(old, w)
    BY <1>1, PortsFacts
  <1>3. \A f, w : w \in Range(f) <=> Contains(f, w)
    BY DEF Range, Contains
  <1> QED
    BY <1>2, <1>3

-----------------------------------------------------------------------------
(* The full types, now that the lists of ports are known to be lists.      *)
GroupRecords == [st : {"absent", "unbound", "bound"}, own : BOOLEAN, fin : BOOLEAN]

LEMMA ObjectEdits ==
  ASSUME NEW o \in Objects
  PROVE  /\ o.spec \in Specs /\ o.sid \in Ids \cup {None} /\ o.map \subseteq Policies
         /\ o.spols \subseteq Policies
         /\ [o EXCEPT !.rfin = TRUE] \in Objects
         /\ [o EXCEPT !.sports = o.spec.ports] \in Objects
         /\ [o EXCEPT !.spols = o.spec.pols, !.ready = "true"] \in Objects
         /\ [o EXCEPT !.phase = "deleting"] \in Objects
         /\ \A x \in {"none", "false", "dup", "true"} : [o EXCEPT !.ready = x] \in Objects
         /\ \A i \in Ids \cup {None} : [o EXCEPT !.sid = i] \in Objects
         /\ \A p \in Policies : /\ [o EXCEPT !.map = @ \cup {p}] \in Objects
                                /\ [o EXCEPT !.map = @ \ {p}] \in Objects
         /\ \A s \in Specs : [o EXCEPT !.spec = s, !.rfin = FALSE] \in Objects
  <1>1. o.spec.ports \in Seq(Nat) /\ o.spec.pols \subseteq Policies /\ o.spec \in Specs
    BY DEF Objects, Specs
  <1> QED
    BY <1>1 DEF Objects

LEMMA ObjectMade ==
  /\ \A s \in Specs : New(s) \in Objects
  /\ Gone \in Objects
  <1>1. \A s \in Specs : New(s) \in Objects
    BY DEF New, Objects
  <1> DEFINE s == [pols |-> {}, ports |-> <<>>, src |-> FALSE, groups |-> {}]
             o == New(s)
  <1>2. s \in Specs
    BY DEF Specs
  <1>3. o \in Objects /\ Gone = [o EXCEPT !.phase = "gone"]
    BY <1>1, <1>2 DEF Gone
  <1> HIDE DEF o
  <1>4. Gone \in Objects
    BY <1>3 DEF Objects
  <1> QED
    BY <1>1, <1>4

LEMMA NewSpecType ==
  ASSUME NEW c \in Configs, NEW old \in Specs
  PROVE  NewSpec(old, c) \in Specs
  <1>1. /\ c.pols \subseteq Policies /\ c.groups \subseteq Groups /\ c.src \in BOOLEAN
        /\ c.ports \in Seq(Nat)
    BY ConfigsAssumption
  <1>2. old.ports \in Seq(Nat) /\ old.src \in BOOLEAN
    BY DEF Specs
  <1> DEFINE x == old.ports
  <1>3. Ports(x, c) \in Seq(Nat)
    <2>1. x \in Seq(Nat)
      BY <1>2
    <2> HIDE DEF x
    <2> QED
      BY <1>1, <2>1, PortsFacts
  <1> DEFINE ports == IF c.pols # {} THEN Ports(x, c) ELSE IF old.pols # {} THEN <<>> ELSE x
             src == IF c.pols # {} THEN c.src ELSE old.src
  <1>4. ports \in Seq(Nat) /\ src \in BOOLEAN
    BY <1>1, <1>2, <1>3
  <1>5. NewSpec(old, c) = [pols |-> c.pols, ports |-> ports, src |-> src, groups |-> c.groups]
    BY DEF NewSpec
  <1> HIDE DEF ports, src
  <1> QED
    BY <1>1, <1>4, <1>5 DEF Specs

LEMMA GroupEdits ==
  ASSUME NEW r \in GroupRecords
  PROVE  /\ [r EXCEPT !.own = FALSE] \in GroupRecords
         /\ [r EXCEPT !.own = TRUE] \in GroupRecords
         /\ [r EXCEPT !.fin = FALSE] \in GroupRecords
         /\ [st |-> "unbound", own |-> TRUE, fin |-> TRUE] \in GroupRecords
  BY DEF GroupRecords

LEMMA GroupWrites ==
  ASSUME grp \in [Groups -> GroupRecords], NEW gs
  PROVE  (Release(gs) \/ Ensure(gs)) => grp' \in [Groups -> GroupRecords]
  <1>1. ASSUME NEW g \in Groups PROVE grp[g] \in GroupRecords
    OBVIOUS
  <1>2. ASSUME Release(gs) PROVE grp' \in [Groups -> GroupRecords]
    BY <1>1, <1>2, GroupEdits DEF Release
  <1>3. ASSUME Ensure(gs) PROVE grp' \in [Groups -> GroupRecords]
    BY <1>1, <1>3, GroupEdits DEF Ensure
  <1> QED
    BY <1>2, <1>3

Labels == {"idle", "fin", "groups", "ensure", "resource", "policy", "register",
           "unpolicy", "save", "delPol", "delGrp", "delFin"}
ObjectTypes == ozr \in Objects /\ rcache \in Objects /\ loc \in Objects
WorldTypes == /\ grp \in [Groups -> GroupRecords] /\ gcache \in [Groups -> GroupRecords]
              /\ pol \in [Policies -> PolicyRecords] /\ gen \in [Policies -> PolicyRecords]
              /\ pcache \in [Policies -> PolicyRecords] /\ ncache \in [Policies -> PolicyRecords]
              /\ up \in [Ids -> UpRecords]
PassTypes == /\ pc \in Labels /\ gids \subseteq Groups /\ todo \subseteq Policies
             /\ fresh \in BOOLEAN /\ due \in BOOLEAN /\ broken \in BOOLEAN
             /\ ungrouped \in BOOLEAN /\ overlooked \subseteq Policies
             /\ lapses \in 0..MaxEvents /\ events \in 0..MaxEvents

LEMMA TypeParts ==
  /\ RTypeOK <=> ObjectTypes /\ WorldTypes /\ PassTypes /\ autoPolicy \in BOOLEAN
  /\ RTypeOK' <=> ObjectTypes' /\ WorldTypes' /\ PassTypes' /\ autoPolicy' \in BOOLEAN
  BY DEF RTypeOK, ObjectTypes, WorldTypes, PassTypes, Labels, GroupRecords, PolicyRecords,
     UpRecords

LEMMA EndTypes ==
  /\ EndPass => /\ loc' = Gone /\ pc' \in Labels /\ gids' \subseteq Groups
                /\ todo' \subseteq Policies /\ fresh' \in BOOLEAN /\ due' \in BOOLEAN
  /\ \A l : Goto(l) => pc' = l /\ UNCHANGED <<loc, gids, todo, fresh, due>>
  BY DEF EndPass, Goto, Labels

LEMMA OneMore ==
  lapses \in 0..MaxEvents /\ events \in 0..MaxEvents /\ Eventful =>
      lapses + 1 \in 0..MaxEvents /\ events + 1 \in 0..MaxEvents
  BY DEF Eventful

(* A step of the OZResource controller.                                    *)
LEMMA ObjectStepTypes ==
  ASSUME ObjectTypes, PassTypes, RStep \/ Abort \/ CacheSync
  PROVE  ObjectTypes'
  <1> USE DEF kube, others, pass, ObjectTypes
  <1>o. Gone \in Objects /\ ozr \in Objects /\ rcache \in Objects /\ loc \in Objects
    BY ObjectMade
  <1>e. EndPass => loc' \in Objects
    BY <1>o, EndTypes
  <1>g. \A l : Goto(l) => loc' = loc
    BY EndTypes
  <1>1. CASE Start \/ CacheSync
    BY <1>1, <1>o DEF Start, CacheSync
  <1>2. CASE AddFinalizer
    BY <1>2, <1>o, <1>e, ObjectEdits DEF AddFinalizer
  <1>3. CASE ReleaseGroups \/ ReleasePolicy \/ DeleteResource \/ ReleaseAllGroups
    BY <1>3, <1>e, <1>g DEF ReleaseGroups, ReleasePolicy, DeleteResource, ReleaseAllGroups
  <1>4. CASE EnsureGroups
    BY <1>4, <1>e, ObjectEdits DEF EnsureGroups
  <1>5. CASE SyncResource
    <2>1. /\ [loc EXCEPT !.sid = None] \in Objects /\ [loc EXCEPT !.ready = "dup"] \in Objects
          /\ \A i \in Ids : [loc EXCEPT !.sid = i] \in Objects
      BY <1>o, ObjectEdits
    <2> QED
      BY <1>5, <2>1 DEF SyncResource
  <1>6. CASE HandlePolicy
    <2>1. Policy \in Policies
      BY <1>6, PolicyTodo DEF HandlePolicy, PassTypes
    <2>2. \A p : Listed(p) => loc' \in Objects
      BY <1>o, ObjectEdits DEF Listed
    <2>3. [loc EXCEPT !.map = @ \cup {Policy}] \in Objects
      BY <1>o, <2>1, ObjectEdits
    <2> QED
      BY <1>6, <1>e, <2>2, <2>3 DEF HandlePolicy, Register, PolicyError
  <1>7. CASE RegisterPolicy
    <2>2. \A p : Listed(p) => loc' \in Objects
      BY <1>o, ObjectEdits DEF Listed
    <2> QED
      BY <1>7, <1>e, <2>2 DEF RegisterPolicy, Register, PolicyError
  <1>8. CASE HandlePolicyDelete
    <2>1. Policy \in Policies
      BY <1>8, PolicyTodo DEF HandlePolicyDelete, PassTypes
    <2>3. [loc EXCEPT !.map = @ \ {Policy}] \in Objects
      BY <1>o, <2>1, ObjectEdits
    <2> QED
      BY <1>8, <1>e, <2>3 DEF HandlePolicyDelete, PolicyError
  <1>9. CASE PoliciesDone \/ FinishPolicies
    BY <1>9, ObjectEdits DEF PoliciesDone, FinishPolicies
  <1>10. CASE SaveStatus \/ RemoveFinalizers \/ Abort
    BY <1>10, <1>o, <1>e DEF SaveStatus, RemoveFinalizers, Abort
  <1> QED
    BY <1>1, <1>2, <1>3, <1>4, <1>5, <1>6, <1>7, <1>8, <1>9, <1>10 DEF RStep

LEMMA PassStepTypes ==
  ASSUME ObjectTypes, PassTypes, RStep \/ Abort \/ CacheSync
  PROVE  PassTypes'
  <1> USE DEF kube, others, pass, history, PassTypes
  <1>s. /\ loc.spec.pols \subseteq Policies /\ loc.spec.groups \subseteq Groups
        /\ loc.spols \subseteq Policies /\ rcache.spols \subseteq Policies
    BY DEF ObjectTypes, Objects, Specs
  <1>1. CASE Start
    <2>1. pc' \in Labels /\ todo' \subseteq Policies
          /\ UNCHANGED <<gids, due, events, history>>
      BY <1>1, <1>s DEF Start, Labels
    <2>2. lapses' \in 0..MaxEvents
      BY <1>1, OneMore DEF Start
    <2>3. fresh' \in BOOLEAN
      BY <1>1, Zenon DEF Start
    <2> QED
      BY <2>1, <2>2, <2>3
  <1>2. CASE AddFinalizer \/ SaveStatus \/ RemoveFinalizers
    BY <1>2, EndTypes DEF AddFinalizer, SaveStatus, RemoveFinalizers, Labels
  <1>3. CASE ReleaseGroups \/ DeleteResource \/ ReleaseAllGroups
    BY <1>3, EndTypes, OneMore DEF ReleaseGroups, DeleteResource, ReleaseAllGroups, Labels
  <1>10. CASE ReleasePolicy
    <2>1. Policy \in Policies
      BY <1>10, PolicyTodo DEF ReleasePolicy
    <2> QED
      BY <1>10, <2>1, EndTypes DEF ReleasePolicy, Unlist, Overlook
  <1>4. CASE EnsureGroups
    BY <1>4, <1>s, EndTypes, OneMore DEF EnsureGroups, Labels
  <1>5. CASE SyncResource
    BY <1>5, <1>s DEF SyncResource, Labels
  <1>6. CASE HandlePolicy \/ RegisterPolicy
    BY <1>6, EndTypes DEF HandlePolicy, RegisterPolicy, Register, Listed, PolicyError, Labels
  <1>7. CASE PoliciesDone \/ FinishPolicies
    BY <1>7, <1>s DEF PoliciesDone, FinishPolicies, Labels
  <1>11. CASE HandlePolicyDelete
    <2>1. Policy \in Policies
      BY <1>11, PolicyTodo DEF HandlePolicyDelete
    <2> QED
      BY <1>11, <2>1, EndTypes DEF HandlePolicyDelete, Unlist, Overlook, PolicyError
  <1>8. CASE Abort
    BY <1>8, EndTypes, OneMore DEF Abort
  <1>9. CASE CacheSync
    BY <1>9 DEF CacheSync
  <1> QED
    BY <1>1, <1>2, <1>3, <1>4, <1>5, <1>6, <1>7, <1>8, <1>9, <1>10, <1>11 DEF RStep

LEMMA WorldStepTypes ==
  ASSUME ObjectTypes, WorldTypes, PassTypes,
         RStep \/ Abort \/ CacheSync \/ OtherSync \/ OtherControllers \/ AdminRemoves
  PROVE  WorldTypes'
  <1> USE DEF kube, others, copies, pass, WorldTypes
  <1>1. CASE \/ Start \/ AddFinalizer \/ SaveStatus \/ Abort \/ CacheSync \/ PoliciesDone
             \/ FinishPolicies
    BY <1>1 DEF Start, AddFinalizer, SaveStatus, Abort, CacheSync, PoliciesDone, FinishPolicies
  <1>2. CASE ReleaseGroups \/ EnsureGroups \/ ReleaseAllGroups
    BY <1>2, GroupWrites DEF ReleaseGroups, EnsureGroups, ReleaseAllGroups
  <1>3. CASE SyncResource
    <2>1. \A i : /\ [up EXCEPT ![i].groups = gids] \in [Ids -> UpRecords]
                 /\ [up EXCEPT ![i] = [st |-> "live", groups |-> gids]]
                      \in [Ids -> UpRecords]
      BY DEF UpRecords, PassTypes
    <2>2. up' \in [Ids -> UpRecords]
      BY <1>3, <2>1 DEF SyncResource
    <2> QED
      BY <1>3, <2>2 DEF SyncResource
  <1>r. ASSUME NEW p, Register(p)
        PROVE  pol' \in [Policies -> PolicyRecords] /\ gen' \in [Policies -> PolicyRecords]
    <2>1. /\ [pol EXCEPT ![p].managed = TRUE] \in [Policies -> PolicyRecords]
          /\ [gen EXCEPT ![p].managed = TRUE] \in [Policies -> PolicyRecords]
      BY DEF PolicyRecords
    <2> QED
      BY <1>r, <2>1 DEF Register
  <1>4. CASE HandlePolicy \/ RegisterPolicy
    <2>1. /\ [gen EXCEPT ![Policy].st = "live"] \in [Policies -> PolicyRecords]
          /\ [gen EXCEPT ![Policy].st = gen[Policy].st] \in [Policies -> PolicyRecords]
      <3>1. gen \in [Policies -> PolicyRecords]
        OBVIOUS
      <3> QED
        BY <3>1 DEF PolicyRecords
    <2> QED
      BY <1>4, <1>r, <2>1 DEF HandlePolicy, RegisterPolicy, PolicyError
  <1>5. CASE DeleteResource
    <2>1. [up EXCEPT ![loc.sid].st = "deleted"] \in [Ids -> UpRecords]
      BY DEF UpRecords
    <2> QED
      BY <1>5, <2>1 DEF DeleteResource
  <1>6. CASE HandlePolicyDelete
    <2>1. /\ [pol EXCEPT ![Policy].managed = FALSE] \in [Policies -> PolicyRecords]
          /\ [gen EXCEPT ![Policy].st = "deleting"] \in [Policies -> PolicyRecords]
      BY DEF PolicyRecords
    <2> QED
      BY <1>6, <2>1 DEF HandlePolicyDelete, Unlist, Overlook, PolicyError
  <1>7. CASE ReleasePolicy
    <2>1. [pol EXCEPT ![Policy].managed = FALSE] \in [Policies -> PolicyRecords]
      BY DEF PolicyRecords
    <2> QED
      BY <1>7, <2>1 DEF ReleasePolicy, Unlist, Overlook
  <1>8. CASE AdminRemoves
    <2>1. PICK i : up' = [up EXCEPT ![i].st = "removed"]
      BY <1>8 DEF AdminRemoves
    <2>2. [up EXCEPT ![i].st = "removed"] \in [Ids -> UpRecords]
      BY DEF UpRecords
    <2> QED
      BY <1>8, <2>1, <2>2 DEF AdminRemoves
  <1>9. CASE RemoveFinalizers
    <2>1. \A g \in Groups : [grp[g] EXCEPT !.own = FALSE] \in GroupRecords
      BY GroupEdits
    <2>5. \A g \in Groups : [gcache[g] EXCEPT !.own = FALSE] \in GroupRecords
      BY GroupEdits
    <2>2. /\ grp' = grp \/ grp' = [g \in Groups |-> [grp[g] EXCEPT !.own = FALSE]]
          /\ gcache' = gcache \/ gcache' = [g \in Groups |-> [gcache[g] EXCEPT !.own = FALSE]]
          /\ UNCHANGED <<pol, gen, pcache, ncache, up>>
      BY <1>9 DEF RemoveFinalizers
    <2>3. grp' \in [Groups -> GroupRecords]
      <3>1. CASE grp' = grp
        BY <3>1
      <3>2. CASE grp' = [g \in Groups |-> [grp[g] EXCEPT !.own = FALSE]]
        BY <2>1, <3>2
      <3> QED
        BY <2>2, <3>1, <3>2
    <2>4. gcache' \in [Groups -> GroupRecords]
      <3>1. CASE gcache' = gcache
        BY <3>1
      <3>2. CASE gcache' = [g \in Groups |-> [gcache[g] EXCEPT !.own = FALSE]]
        BY <2>5, <3>2
      <3> QED
        BY <2>2, <3>1, <3>2
    <2> QED
      BY <2>2, <2>3, <2>4
  <1>11. CASE OtherSync
    BY <1>11 DEF OtherSync, GroupSync, PolicySync
  <1>10. CASE OtherControllers
    <2>1. ASSUME NEW g \in Groups, BindGroup(g) \/ CollectGroup(g) PROVE WorldTypes'
      <3>1. /\ [grp EXCEPT ![g].st = "bound"] \in [Groups -> GroupRecords]
            /\ [grp EXCEPT ![g].st = "absent"] \in [Groups -> GroupRecords]
        BY DEF GroupRecords
      <3> QED
        BY <2>1, <3>1 DEF BindGroup, CollectGroup
    <2>2. ASSUME NEW p \in Policies, PolicyGone(p) PROVE WorldTypes'
      <3>1. [gen EXCEPT ![p] = NoPolicy] \in [Policies -> PolicyRecords]
        BY DEF PolicyRecords, NoPolicy
      <3> QED
        BY <2>2, <3>1 DEF PolicyGone
    <2> QED
      BY <1>10, <2>1, <2>2 DEF OtherControllers
  <1> QED
    BY <1>1, <1>2, <1>3, <1>4, <1>5, <1>6, <1>7, <1>8, <1>9, <1>10, <1>11 DEF RStep

OtherTypes ==
    /\ ServiceTypes
    /\ spc \in {"idle", "addFin", "expose", "hide", "removeFin"}
    /\ rp \in {"absent", "pending", "ready"}
    /\ sfresh \in BOOLEAN /\ sdue \in BOOLEAN /\ missed \in BOOLEAN /\ clash \in BOOLEAN

LEMMA ExposureTypes ==
  ASSUME RTypeOK, OtherTypes,
         \/ SStart \/ SAddFinalizer \/ ExposeRouter \/ ExposeResource \/ HideResource
         \/ SRemoveFinalizer \/ SAbort \/ SCacheSync \/ RouterReady \/ UserChange,
         ServiceTypes'
  PROVE  RTypeOK' /\ OtherTypes'
  <1> USE DEF ovars, kube, others, copies, pass, history, OtherTypes
  <1>t. ObjectTypes /\ WorldTypes /\ PassTypes /\ autoPolicy \in BOOLEAN
    BY TypeParts
  <1>e. \A b \in BOOLEAN : SEnd(b) => spc' = "idle" /\ sfresh' \in BOOLEAN /\ sdue' \in BOOLEAN
    BY DEF SEnd
  <1>g. \A l : SGoto(l) => spc' = l /\ UNCHANGED <<sfresh, sdue>>
    BY DEF SGoto
  <1>w. Overtake => fresh' \in BOOLEAN /\ clash' \in BOOLEAN
    BY DEF Overtake
  <1>1. CASE \/ SStart \/ SAddFinalizer \/ ExposeRouter \/ SRemoveFinalizer \/ SCacheSync
             \/ RouterReady
    <2>1. RTypeOK'
      <3>1. UNCHANGED <<ovars, lapses, events, history>>
        BY <1>1 DEF SStart, SAddFinalizer, ExposeRouter, SRemoveFinalizer, SCacheSync,
           RouterReady
      <3> QED
        BY <3>1 DEF RTypeOK
    <2>2. CASE SStart
      <3>1. spc' \in {"idle", "addFin", "expose", "hide", "removeFin"} /\ sdue' \in BOOLEAN
        BY <2>2 DEF SStart
      <3>2. sfresh' \in BOOLEAN
        BY <2>2, Zenon DEF SStart
      <3> QED
        BY <2>1, <2>2, <3>1, <3>2 DEF SStart
    <2>3. CASE SAddFinalizer \/ ExposeRouter \/ SRemoveFinalizer \/ SCacheSync \/ RouterReady
      BY <2>1, <2>3, <1>e DEF SAddFinalizer, ExposeRouter, SRemoveFinalizer, SCacheSync,
         RouterReady
    <2> QED
      BY <1>1, <2>2, <2>3
  <1>2. CASE SAbort \/ UserChange
    <2>1. PassTypes' /\ OtherTypes'
      <3>1. lapses' \in 0..MaxEvents /\ events' \in 0..MaxEvents
        BY <1>2, <1>t, OneMore DEF SAbort, UserChange, PassTypes
      <3>2. UNCHANGED <<ovars, history>> /\ OtherTypes'
        BY <1>2, <1>e DEF SAbort, UserChange
      <3> QED
        BY <1>t, <3>1, <3>2 DEF PassTypes
    <2>2. ObjectTypes' /\ WorldTypes' /\ autoPolicy' \in BOOLEAN
      BY <1>2, <1>t DEF SAbort, UserChange, ObjectTypes, WorldTypes
    <2> QED
      BY <2>1, <2>2, TypeParts
  <1>3. CASE ExposeResource
    <2> DEFINE spec == NewSpec(rcache.spec, sloc.cfg)
    <2>1. spec \in Specs
      <3>1. sloc.cfg \in Configs
        BY DEF ServiceTypes, Services
      <3>2. rcache.spec \in Specs
        BY <1>t DEF ObjectTypes, Objects
      <3> QED
        BY <3>1, <3>2, NewSpecType
    <2>2. New(spec) \in Objects /\ [ozr EXCEPT !.spec = spec, !.rfin = FALSE] \in Objects
      BY <1>t, <2>1, ObjectMade, ObjectEdits DEF ObjectTypes
    <2> HIDE DEF spec
    <2>3. ozr' \in Objects /\ fresh' \in BOOLEAN
      BY <1>3, <1>t, <1>w, <2>2 DEF ExposeResource, ObjectTypes, PassTypes, spec
    <2>4. OtherTypes'
      BY <1>3, <1>e, <1>w DEF ExposeResource
    <2>5. ObjectTypes' /\ WorldTypes' /\ PassTypes' /\ autoPolicy' \in BOOLEAN
      BY <1>3, <1>t, <2>3 DEF ExposeResource, ObjectTypes, WorldTypes, PassTypes
    <2> QED
      BY <2>4, <2>5, TypeParts
  <1>4. CASE HideResource
    <2>2. [ozr EXCEPT !.phase = "deleting"] \in Objects
      BY <1>t, ObjectEdits DEF ObjectTypes
    <2>3. ozr' \in Objects /\ fresh' \in BOOLEAN
      BY <1>4, <1>t, <1>w, <2>2 DEF HideResource, ObjectTypes, PassTypes
    <2>4. OtherTypes'
      BY <1>4, <1>e, <1>g, <1>w DEF HideResource
    <2>5. ObjectTypes' /\ WorldTypes' /\ PassTypes' /\ autoPolicy' \in BOOLEAN
      BY <1>4, <1>t, <2>3 DEF HideResource, ObjectTypes, WorldTypes, PassTypes
    <2> QED
      BY <2>4, <2>5, TypeParts
  <1> QED
    BY <1>1, <1>2, <1>3, <1>4

(* Types.  Whatever users, passes, informers and failures do, every field  *)
(* of the OZResource and of the Service keeps its type; the lists of ports *)
(* that applyPolicy edits stay lists of ports.                             *)
THEOREM TypeCorrect == Spec => []TypeOK
  <1>1. Init => TypeOK
    <2> SUFFICES ASSUME Init PROVE TypeOK
      OBVIOUS
    <2>1. NoService \in Services /\ [phase |-> "live", fin |-> FALSE, cfg |-> First] \in Services
      BY ConfigsAssumption DEF NoService, Services
    <2>2. ObjectTypes /\ PassTypes
      <3>1. ObjectTypes
        BY ObjectMade DEF Init, RInit, ObjectTypes
      <3>2. 0 \in 0..MaxEvents
        OBVIOUS
      <3> QED
        BY <3>1, <3>2 DEF Init, RInit, PassTypes, Labels
    <2>3. autoPolicy \in BOOLEAN /\ pol \in [Policies -> PolicyRecords]
      <3>1. PICK s \in Setups : /\ autoPolicy = s.auto
                                /\ pol = [p \in Policies |-> IF p \in s.written
                                       THEN [NoPolicy EXCEPT !.st = "live"] ELSE NoPolicy]
        BY DEF Init, RInit
      <3>2. NoPolicy \in PolicyRecords /\ [NoPolicy EXCEPT !.st = "live"] \in PolicyRecords
        BY DEF NoPolicy, PolicyRecords
      <3> QED
        BY <3>1, <3>2, SetupsAssumption
    <2>4. grp \in [Groups -> GroupRecords] /\ up \in [Ids -> UpRecords]
      BY DEF Init, RInit, GroupRecords, UpRecords
    <2>5. gen \in [Policies -> PolicyRecords]
      BY DEF Init, RInit, NoPolicy, PolicyRecords
    <2> QED
      BY <2>1, <2>2, <2>3, <2>4, <2>5, TypeParts DEF Init, RInit, TypeOK, WorldTypes
  <1>2. TypeOK /\ [Next]_vars => TypeOK'
    <2> SUFFICES ASSUME TypeOK, [Next]_vars PROVE TypeOK'
      OBVIOUS
    <2>1. RTypeOK /\ OtherTypes
      BY DEF TypeOK, OtherTypes, ServiceTypes
    <2>2. ServiceTypes'
      BY <2>1, ServiceStepTypes DEF OtherTypes
    <2>3. RTypeOK' /\ OtherTypes'
      <3>1. CASE UNCHANGED vars
        BY <2>1, <3>1 DEF vars, ovars, kube, others, copies, pass, history, service, RTypeOK, OtherTypes,
           ServiceTypes
      <3>2. CASE SStep \/ SAbort \/ SCacheSync \/ RouterReady \/ UserChange
        BY <2>1, <2>2, <3>2, ExposureTypes DEF SStep
      <3>3. CASE SameService /\ (RStep \/ Abort \/ CacheSync)
        <4>1. ObjectTypes /\ WorldTypes /\ PassTypes /\ autoPolicy \in BOOLEAN
          BY <2>1, TypeParts
        <4>2. ObjectTypes' /\ WorldTypes' /\ PassTypes'
          BY <3>3, <4>1, ObjectStepTypes, WorldStepTypes, PassStepTypes
        <4>3. autoPolicy' \in BOOLEAN /\ OtherTypes'
          BY <2>1, <2>2, <3>3, <4>1 DEF SameService, service, OtherTypes
        <4> QED
          BY <4>2, <4>3, TypeParts
      <3>4. CASE SameService /\ (OtherSync \/ OtherControllers \/ AdminRemoves)
        <4>1. ObjectTypes /\ WorldTypes /\ PassTypes /\ autoPolicy \in BOOLEAN
          BY <2>1, TypeParts
        <4>2. WorldTypes'
          BY <3>4, <4>1, WorldStepTypes
        <4>3. autoPolicy' \in BOOLEAN /\ OtherTypes'
          BY <2>1, <2>2, <3>4, <4>1 DEF SameService, service, OtherTypes
        <4>4. ObjectTypes' /\ PassTypes'
          <5>1. CASE OtherControllers \/ AdminRemoves
            BY <4>1, <5>1, OneMore DEF OtherControllers, BindGroup, CollectGroup, PolicyGone,
               AdminRemoves, kube, pass, history, ObjectTypes, PassTypes
          <5>2. CASE OtherSync
            <6>1. UNCHANGED <<kube, pass, lapses, events, history>>
              BY <5>2 DEF OtherSync, GroupSync, PolicySync
            <6>2. due' \in BOOLEAN
              BY <4>1, <5>2, Zenon DEF OtherSync, GroupSync, PolicySync, PassTypes
            <6> QED
              BY <4>1, <6>1, <6>2 DEF kube, pass, history, ObjectTypes, PassTypes
          <5> QED
            BY <3>4, <5>1, <5>2
        <4> QED
          BY <4>2, <4>3, <4>4, TypeParts
      <3> QED
        BY <3>1, <3>2, <3>3, <3>4 DEF Next
    <2> QED
      BY <2>3 DEF TypeOK, OtherTypes, ServiceTypes
  <1> QED
    BY <1>1, <1>2, PTL DEF Spec
=============================================================================
