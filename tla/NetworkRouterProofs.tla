------------------------- MODULE NetworkRouterProofs -------------------------
(***************************************************************************)
(* Proofs about NetworkRouter, composed with the Group controller, for     *)
(* every set of ids and every bound: type correctness, the accounting of   *)
(* the networks and of the groups left behind, and that the NetworkRouter  *)
(* implements Handle with the network id of its status.                    *)
(***************************************************************************)
EXTENDS NetworkRouter, FiniteSetTheorems, TLAPS

USE GroupsAssumption, NamesAssumption, BoundsAssumption, GroupNamesAssumption

-----------------------------------------------------------------------------
(* The Group controller's invariant.                                       *)

Upserts == {"finalizer", "update", "create", "patch"}
Deletes == {"delete", "delFin"}

(* No status names a group that was never created, and a pass that creates *)
(* a group has found the one of the status missing.                        *)
GroupIds ==
    /\ \A o \in {grp, gcache, gloc} : o.gid # None => gup[o.gid] # "unused"
    /\ gpc = "idle" => gloc = GAbsent
    /\ gpc = "patch" => gnew # None /\ gup[gnew] # "unused"
    /\ gpc = "update" => gloc.gid # None
    /\ gloc.gid # None /\ (\/ gpc \in {"create", "delFin"}
                           \/ gpc = "patch" /\ gnew # gloc.gid) =>
         gup[gloc.gid] # "live"

(* The finalizer is on the Group before there is anything to clean up.     *)
GroupFinalizer ==
    /\ grp.phase = "gone" => grp.gid = None /\ ~grp.fin
    /\ grp.phase = "deleting" => grp.fin
    /\ grp.gid # None => grp.fin
    /\ gcache.phase = "live" /\ gcache.fin => grp.fin
    /\ gpc = "finalizer" /\ gloc.fin => grp.fin
    /\ gpc \in {"update", "create", "patch"} => grp.fin

(* A Group seen deleting is deleting, or gone and perhaps applied anew: in *)
(* that case nobody has put the finalizer on it yet.                       *)
GroupDeleting ==
    /\ gcache.phase = "deleting" \/ gpc \in Deletes =>
         grp.phase = "deleting" \/ ~grp.fin
    /\ gpc \in Deletes => ~(gcache.phase = "live" /\ gcache.fin)
    /\ gpc \in Upserts /\ gcache.phase = "deleting" => grp.phase = "deleting"

GInv == GroupIds /\ GroupFinalizer /\ GroupDeleting

(* The groups a lapse may cost: those left behind, and the one a pass that *)
(* read an old status is about to lose.                                    *)
GroupDoomed ==
    {g \in Groups : \/ /\ gup[g] = "live" /\ g # grp.gid
                       /\ ~(gpc = "patch" /\ g = gnew /\ gnew # gloc.gid)
                    \/ g = grp.gid /\ g # gloc.gid /\ gpc # "idle"}

-----------------------------------------------------------------------------
(* The NetworkRouter controller's invariant.                               *)

Early == {"zone", "network", "createNet", "patchNet"}
Later == {"group", "getGroup", "key", "router", "createRtr", "patchRtr",
          "deployment", "patchReady"}
Teardown == {"delRtr", "delNet", "delFin"}

(* The same for the network ids.                                           *)
NetIds ==
    /\ \A o \in {api, cache, loc} : o.nid # None => net[o.nid] # "unused"
    /\ pc = "idle" => loc = Absent
    /\ pc = "network" => loc.nid # None
    /\ pc = "patchNet" => cur.net # None /\ net[cur.net] # "unused"
    /\ loc.nid # None /\ (\/ pc \in {"createNet", "delFin"}
                          \/ pc = "patchNet" /\ cur.net # loc.nid) =>
         net[loc.nid] # "live"

(* The finalizer reaches the API with the first network id.                *)
NetFinalizer ==
    /\ \A o \in {api, cache, loc} : o.nid # None => o.fin
    /\ api.phase = "gone" => api.nid = None
    /\ cache.phase = "deleting" => api.phase # "live"
    /\ pc \in Teardown => api.phase # "live"

NInv == NetIds /\ NetFinalizer

(* The networks a lapse may cost.  None stands for the network that a pass *)
(* may yet create for an object that is gone.                              *)
NetDoomed ==
    {n \in Nets : \/ /\ net[n] = "live" /\ n # api.nid
                     /\ ~(pc = "patchNet" /\ n = cur.net /\ n # loc.nid)
                  \/ n = api.nid /\ n # loc.nid /\ pc \in Early \cup Teardown}
    \cup (IF api.phase = "gone" /\ pc \in Early THEN {None} ELSE {})

(* Networks are handed out in order, and the one in hand is newer than the *)
(* one of the status.                                                      *)
NetOrder ==
    /\ \A m, n \in Nets : net[m] # "unused" /\ net[n] = "unused" => m < n
    /\ pc = "patchNet" /\ cur.net # loc.nid /\ api.nid # None => api.nid < cur.net

-----------------------------------------------------------------------------
(* Types.                                                                  *)

(* Objects, and the writes that keep them objects.                         *)
LEMMA LiteralObjects ==
  Absent \in Objects /\ Created \in Objects /\ GAbsent \in GObjects
  BY DEF Absent, Created, Objects, GAbsent, GObjects

LEMMA ObjectWrites ==
  ASSUME NEW o \in Objects, NEW n \in Nets \cup {None}, NEW r \in Routers \cup {None}
  PROVE  /\ [o EXCEPT !.phase = "deleting"] \in Objects
         /\ [o EXCEPT !.fin = TRUE, !.nid = n] \in Objects
         /\ [o EXCEPT !.rid = r] \in Objects
         /\ [o EXCEPT !.ready = TRUE] \in Objects
         /\ o.nid \in Nets \cup {None} /\ o.rid \in Routers \cup {None}
  BY DEF Objects

LEMMA GObjectWrites ==
  ASSUME NEW o \in GObjects, NEW g \in Groups \cup {None}, NEW n \in Names \cup {None},
         NEW b \in BOOLEAN
  PROVE  /\ [o EXCEPT !.phase = "deleting"] \in GObjects
         /\ [o EXCEPT !.fin = b] \in GObjects
         /\ [o EXCEPT !.gid = g] \in GObjects
         /\ [o EXCEPT !.name = n] \in GObjects
         /\ [phase |-> "live", fin |-> FALSE, gid |-> None, name |-> n] \in GObjects
         /\ o.gid \in Groups \cup {None} /\ o.name \in Names \cup {None}
  BY DEF GObjects

(* The variables of the NetworkRouter controller and the bounds.           *)
RouterPeers == [st : UpStates, net : Nets \cup {None}, grp : Groups \cup {None}]
Obtained == [net : Nets \cup {None}, gid : Groups \cup {None},
             rid : Routers \cup {None}]
Pcs == {"idle", "zone", "network", "createNet", "patchNet", "group",
        "getGroup", "key", "router", "createRtr", "patchRtr", "deployment",
        "patchReady", "delRtr", "delNet", "delFin"}
RTypeOK ==
    /\ api \in Objects /\ cache \in Objects /\ loc \in Objects
    /\ net \in [Nets -> UpStates]
    /\ rtr \in [Routers -> RouterPeers]
    /\ key \in {"absent", "pending", "ready"}
    /\ dep \in {"absent", "rolling", "ready"}
    /\ pc \in Pcs
    /\ cur \in Obtained
    /\ due \in BOOLEAN
Counts == lapses \in 0..MaxLapses /\ events \in 0..MaxEvents

LEMMA TypeParts == TypeOK <=> GTypeOK /\ RTypeOK /\ Counts
  BY DEF TypeOK, RTypeOK, Counts, RouterPeers, Obtained, Pcs

(* Writes into what a pass has obtained and into a routing peer.           *)
LEMMA RecordWrites ==
  /\ Nothing \in Obtained
  /\ \A c \in Obtained : /\ c.net \in Nets \cup {None}
                         /\ c.gid \in Groups \cup {None}
                         /\ c.rid \in Routers \cup {None}
  /\ \A c \in Obtained, n \in Nets \cup {None} : [c EXCEPT !.net = n] \in Obtained
  /\ \A c \in Obtained, g \in Groups \cup {None} : [c EXCEPT !.gid = g] \in Obtained
  /\ \A c \in Obtained, r \in Routers \cup {None} : [c EXCEPT !.rid = r] \in Obtained
  /\ \A r \in RouterPeers, g \in Groups \cup {None} : [r EXCEPT !.grp = g] \in RouterPeers
  /\ \A r \in RouterPeers, u \in UpStates : [r EXCEPT !.st = u] \in RouterPeers
  /\ \A n \in Nets \cup {None}, g \in Groups \cup {None} :
       [st |-> "live", net |-> n, grp |-> g] \in RouterPeers
  BY DEF Nothing, Obtained, RouterPeers, UpStates

(* A step leaves the counters alone or adds one to one of them.            *)
Tally == /\ \/ lapses' = lapses
            \/ lapses < MaxLapses /\ lapses' = lapses + 1
         /\ \/ events' = events
            \/ events < MaxEvents /\ events' = events + 1

LEMMA StepTally == [Next]_vars => Tally
  <1> SUFFICES ASSUME [Next]_vars PROVE Tally
    OBVIOUS
  <1> USE DEF Tally
  <1>1. CASE Start
    BY <1>1 DEF Start
  <1>2. CASE Step /\ ~Start
    BY <1>2 DEF Step, GetZone, UpdateNetwork, CreateNetwork, PatchNetwork,
       ApplyGroup, GetGroup, EnsureKey, UpdateRouter, CreateRouter,
       PatchRouter, EnsureDeployment, PatchReady, DeleteRouter, DeleteNetwork,
       RemoveFinalizer
  <1>3. CASE Abort \/ GAbort \/ Restart
    BY <1>3 DEF Abort, GAbort, Restart
  <1>4. CASE GStart
    BY <1>4 DEF GStart
  <1>5. CASE GStep /\ ~GStart
    BY <1>5 DEF GStep, GAddFinalizer, GUpdate, GCreate, GPatch, GDelete,
       GRemoveFinalizer
  <1>6. CASE Environment
    BY <1>6 DEF Environment, CacheSync, GroupSync, KeySync, DeploymentSync,
       UserDelete, DeleteGroup, AdminRemovesNetwork, AdminRemovesRouter,
       AdminRemovesGroup
  <1>7. CASE Done \/ UNCHANGED vars
    BY <1>7 DEF Done, vars
  <1> QED
    BY <1>1, <1>2, <1>3, <1>4, <1>5, <1>6, <1>7 DEF Next, GroupStep

(* The counters stay within their bounds.                                  *)
LEMMA StepCounts ==
  ASSUME Counts, [Next]_vars PROVE Counts'
  <1>1. Tally
    BY StepTally
  <1>2. lapses' \in 0..MaxLapses
    BY <1>1 DEF Counts, Tally
  <1>3. events' \in 0..MaxEvents
    BY <1>1 DEF Counts, Tally
  <1> QED
    BY <1>2, <1>3 DEF Counts

(* Steps by what they do to the Group and its controller.                  *)
GroupAction == GStep \/ GAbort \/ \E g \in Groups : AdminRemovesGroup(g)

LEMMA GroupKinds ==
  ASSUME [Next]_vars
  PROVE  \/ GroupAction /\ UNCHANGED rvars
         \/ ApplyGroup \/ DeleteGroup \/ GroupSync \/ Restart
         \/ UNCHANGED gvars
  <1>1. CASE Step
    BY <1>1 DEF Step, Start, GetZone, UpdateNetwork, CreateNetwork, PatchNetwork,
       GetGroup, EnsureKey, UpdateRouter, CreateRouter, PatchRouter,
       EnsureDeployment, PatchReady, DeleteRouter, DeleteNetwork,
       RemoveFinalizer
  <1>2. CASE Abort \/ Restart
    BY <1>2 DEF Abort
  <1>3. CASE GroupStep \/ (GAbort /\ UNCHANGED rvars)
    BY <1>3 DEF GroupStep, GroupAction
  <1>4. CASE Environment
    BY <1>4 DEF Environment, CacheSync, KeySync, DeploymentSync, UserDelete,
       AdminRemovesNetwork, AdminRemovesRouter, GroupAction
  <1>5. CASE Done \/ UNCHANGED vars
    BY <1>5 DEF Done, vars
  <1> QED
    BY <1>1, <1>2, <1>3, <1>4, <1>5 DEF Next

(* Every step keeps the types of the Group controller.                     *)
LEMMA StepGType ==
  ASSUME GTypeOK, RTypeOK, [Next]_vars PROVE GTypeOK'
  <1> USE LiteralObjects
  <1>o. /\ grp \in GObjects /\ gcache \in GObjects /\ gloc \in GObjects
        /\ gloc.gid \in Groups \cup {None} /\ gloc.name \in Names \cup {None}
    BY GObjectWrites DEF GTypeOK
  <1>1. CASE GStart
    BY <1>1, <1>o DEF GStart, GTypeOK
  <1>2. CASE GAddFinalizer
    <2>1. [grp EXCEPT !.fin = TRUE] \in GObjects
      BY <1>o, GObjectWrites
    <2>2. grp' \in GObjects /\ gloc' \in GObjects
      BY <1>2, <1>o, <2>1 DEF GAddFinalizer, GGoto, GEnd
    <2>3. gdue' \in BOOLEAN /\ gnew' \in Groups \cup {None}
      BY <1>2 DEF GAddFinalizer, GGoto, GEnd, GTypeOK
    <2> QED
      BY <1>2, <1>o, <2>2, <2>3 DEF GAddFinalizer, GTypeOK, GGoto, GEnd
  <1>3. CASE GUpdate
    BY <1>3, <1>o DEF GUpdate, GTypeOK, GGoto
  <1>4. CASE GCreate
    BY <1>4, <1>o DEF GCreate, GTypeOK, GGoto, UpStates
  <1>5. CASE GPatch
    <2>1. gnew \in Groups \cup {None}
      BY DEF GTypeOK
    <2>2. [grp EXCEPT !.gid = gnew] \in GObjects
      BY <1>o, <2>1, GObjectWrites
    <2>3. grp' \in GObjects /\ gloc' \in GObjects
      BY <1>5, <1>o, <2>2 DEF GPatch, GEnd
    <2>4. gdue' \in BOOLEAN /\ gnew' \in Groups \cup {None}
      BY <1>5 DEF GPatch, GEnd, GTypeOK
    <2> QED
      BY <1>5, <1>o, <2>3, <2>4 DEF GPatch, GTypeOK, GEnd
  <1>6. CASE GDelete
    BY <1>6, <1>o DEF GDelete, GTypeOK, GGoto, UpStates
  <1>7. CASE GRemoveFinalizer
    BY <1>7, <1>o, GObjectWrites DEF GRemoveFinalizer, GTypeOK, GEnd
  <1>8. CASE GAbort \/ Restart
    BY <1>8, <1>o DEF GAbort, Restart, GTypeOK, GEnd
  <1>9. CASE \E g \in Groups : AdminRemovesGroup(g)
    BY <1>9 DEF AdminRemovesGroup, GTypeOK, UpStates
  <1>10. CASE ApplyGroup
    <2>1. cur.net \in Names \cup {None}
      BY RecordWrites DEF RTypeOK
    <2>2. grp' \in GObjects
      BY <1>10, <1>o, <2>1, GObjectWrites DEF ApplyGroup
    <2> QED
      BY <1>10, <2>2 DEF ApplyGroup, GTypeOK
  <1>11. CASE DeleteGroup
    BY <1>11, <1>o, GObjectWrites DEF DeleteGroup, GTypeOK
  <1>12. CASE GroupSync
    BY <1>12, <1>o DEF GroupSync, GTypeOK
  <1>13. CASE UNCHANGED gvars
    BY <1>13 DEF gvars, GTypeOK
  <1> QED
    BY <1>1, <1>2, <1>3, <1>4, <1>5, <1>6, <1>7, <1>8, <1>9, <1>10, <1>11,
       <1>12, <1>13, GroupKinds DEF GroupAction, GStep

(* Every step keeps the types of the NetworkRouter controller.             *)
LEMMA StepRType ==
  ASSUME GTypeOK, RTypeOK, [Next]_vars PROVE RTypeOK'
  <1> USE LiteralObjects, RecordWrites DEF RTypeOK
  <1>o. /\ loc.nid \in Nets \cup {None} /\ loc.rid \in Routers \cup {None}
        /\ api.nid \in Nets \cup {None} /\ api.rid \in Routers \cup {None}
        /\ gcache.gid \in Groups \cup {None}
        /\ cur.net \in Nets \cup {None} /\ cur.gid \in Groups \cup {None}
        /\ cur.rid \in Routers \cup {None}
    BY ObjectWrites, GObjectWrites DEF GTypeOK
  <1>1. CASE Start
    BY <1>1 DEF Start, Pcs
  <1>2. CASE GetZone
    BY <1>2 DEF GetZone, Goto, Pcs
  <1>3. CASE UpdateNetwork
    BY <1>3, <1>o DEF UpdateNetwork, Pcs
  <1>4. CASE CreateNetwork
    BY <1>4 DEF CreateNetwork, UpStates, Pcs
  <1>5. CASE PatchNetwork
    <2>1. [api EXCEPT !.fin = TRUE,
                      !.nid = IF cur.net = loc.nid THEN @ ELSE cur.net] \in Objects
      BY <1>o DEF Objects
    <2>2. api' \in Objects /\ loc' \in Objects /\ cur' \in Obtained
      BY <1>5, <2>1 DEF PatchNetwork, Goto, EndPass
    <2>3. due' \in BOOLEAN
      BY <1>5 DEF PatchNetwork, Goto, EndPass
    <2> QED
      BY <1>5, <2>2, <2>3 DEF PatchNetwork, Goto, EndPass, Pcs
  <1>6. CASE ApplyGroup
    BY <1>6 DEF ApplyGroup, Goto, Pcs
  <1>7. CASE GetGroup
    <2>1. loc' \in Objects /\ cur' \in Obtained
      BY <1>7, <1>o DEF GetGroup, EndPass
    <2>2. due' \in BOOLEAN
      BY <1>7 DEF GetGroup, EndPass
    <2> QED
      BY <1>7, <2>1, <2>2 DEF GetGroup, EndPass, Pcs
  <1>8. CASE EnsureKey
    BY <1>8 DEF EnsureKey, EndPass, Goto, Pcs
  <1>9. CASE UpdateRouter
    <2>1. rtr' \in [Routers -> RouterPeers]
      BY <1>9, <1>o DEF UpdateRouter
    <2> QED
      BY <1>9, <1>o, <2>1 DEF UpdateRouter, Pcs
  <1>10. CASE CreateRouter
    <2>1. [st |-> "live", net |-> cur.net, grp |-> cur.gid] \in RouterPeers
      BY <1>o
    <2>2. rtr' \in [Routers -> RouterPeers]
      BY <1>10, <2>1 DEF CreateRouter
    <2>3. loc' \in Objects /\ cur' \in Obtained
      BY <1>10 DEF CreateRouter, EndPass
    <2>4. due' \in BOOLEAN
      BY <1>10 DEF CreateRouter, EndPass
    <2> QED
      BY <1>10, <2>2, <2>3, <2>4 DEF CreateRouter, EndPass, Pcs
  <1>11. CASE PatchRouter
    <2>1. [api EXCEPT !.rid = IF cur.rid = loc.rid THEN @ ELSE cur.rid] \in Objects
      BY <1>o DEF Objects
    <2>2. api' \in Objects /\ loc' \in Objects /\ cur' \in Obtained
      BY <1>11, <2>1 DEF PatchRouter, Goto, EndPass
    <2>3. due' \in BOOLEAN
      BY <1>11 DEF PatchRouter, Goto, EndPass
    <2> QED
      BY <1>11, <2>2, <2>3 DEF PatchRouter, Goto, EndPass, Pcs
  <1>12. CASE EnsureDeployment
    BY <1>12 DEF EnsureDeployment, Goto, EndPass, Pcs
  <1>13. CASE PatchReady
    BY <1>13, <1>o, ObjectWrites DEF PatchReady, EndPass, Pcs
  <1>14. CASE DeleteRouter
    <2>1. rtr' \in [Routers -> RouterPeers]
      BY <1>14, <1>o DEF DeleteRouter, UpStates
    <2> QED
      BY <1>14, <2>1 DEF DeleteRouter, Goto, Pcs
  <1>15. ASSUME NEW n, NEW how \in {"removed", "deleted"}, LoseNetwork(n, how)
         PROVE  net' \in [Nets -> UpStates] /\ rtr' \in [Routers -> RouterPeers]
    BY <1>15 DEF LoseNetwork, UpStates
  <1>16. CASE DeleteNetwork
    BY <1>15, <1>16 DEF DeleteNetwork, Goto, Pcs
  <1>17. CASE RemoveFinalizer \/ Abort \/ Restart
    BY <1>17 DEF RemoveFinalizer, Abort, Restart, EndPass, Pcs
  <1>18. CASE CacheSync \/ GroupSync \/ KeySync \/ DeploymentSync
    BY <1>18 DEF CacheSync, GroupSync, KeySync, DeploymentSync
  <1>19. CASE UserDelete
    BY <1>19, <1>o, ObjectWrites DEF UserDelete
  <1>20. CASE \E n \in Nets : AdminRemovesNetwork(n)
    BY <1>15, <1>20 DEF AdminRemovesNetwork
  <1>21. CASE \E r \in Routers : AdminRemovesRouter(r)
    <2>1. PICK r \in Routers : AdminRemovesRouter(r)
      BY <1>21
    <2>2. rtr[r] \in RouterPeers /\ [rtr[r] EXCEPT !.st = "removed"] \in RouterPeers
      BY DEF UpStates
    <2>3. rtr' \in [Routers -> RouterPeers]
      BY <2>1, <2>2 DEF AdminRemovesRouter
    <2> QED
      BY <2>1, <2>3 DEF AdminRemovesRouter
  <1>22. CASE UNCHANGED rvars
    BY <1>22 DEF rvars
  <1>23. DeleteGroup \/ Done \/ UNCHANGED vars => UNCHANGED rvars
    BY DEF DeleteGroup, Done, vars
  <1> QED
    BY <1>1, <1>2, <1>3, <1>4, <1>5, <1>6, <1>7, <1>8, <1>9, <1>10, <1>11,
       <1>12, <1>13, <1>14, <1>16, <1>17, <1>18, <1>19, <1>20, <1>21, <1>22,
       <1>23 DEF Next, Step, GroupStep, Environment

(* The initial state has the right types.                                  *)
LEMMA InitType == Init => TypeOK
  <1> SUFFICES ASSUME Init PROVE GTypeOK /\ RTypeOK /\ Counts
    BY TypeParts
  <1> USE DEF Init
  <1>1. GTypeOK
    BY LiteralObjects DEF GInit, GTypeOK, UpStates
  <1>2. /\ api \in Objects /\ cache \in Objects /\ loc \in Objects
        /\ cur \in Obtained
    BY LiteralObjects, RecordWrites
  <1>3. Unused \in RouterPeers
    BY DEF Unused, RouterPeers, UpStates
  <1>4. net \in [Nets -> UpStates] /\ rtr \in [Routers -> RouterPeers]
    BY <1>3 DEF UpStates
  <1>5. Counts
    BY DEF Counts
  <1> QED
    BY <1>1, <1>2, <1>4, <1>5 DEF RTypeOK, Pcs

(* Every step keeps the types.                                             *)
LEMMA StepType == TypeOK /\ [Next]_vars => TypeOK'
  <1> SUFFICES ASSUME TypeOK, [Next]_vars PROVE TypeOK'
    OBVIOUS
  <1>1. GTypeOK /\ RTypeOK /\ Counts
    BY TypeParts
  <1>2. GTypeOK' /\ RTypeOK' /\ Counts'
    BY <1>1, StepGType, StepRType, StepCounts
  <1> QED
    BY <1>2, TypeParts DEF TypeOK, RTypeOK, Counts, RouterPeers, Obtained, Pcs

(* Type correctness of the NetworkRouter and Group controllers.            *)
THEOREM TypeCorrect == Spec => []TypeOK
  BY InitType, StepType, PTL DEF Spec

-----------------------------------------------------------------------------
(* The Group controller keeps its invariant.                               *)

(* The fields of a Group, and of an absent one.                            *)
LEMMA GroupFields ==
  ASSUME NEW o \in GObjects
  PROVE  /\ o.phase \in {"live", "deleting", "gone"} /\ o.fin \in BOOLEAN
         /\ o.gid \in Groups \cup {None}
  BY DEF GObjects

LEMMA GAbsentFields ==
  GAbsent.phase = "gone" /\ GAbsent.gid = None /\ ~GAbsent.fin
  BY DEF GAbsent

(* What the writes to the Group do to its phase, finalizer and id.         *)
LEMMA GroupWrites ==
  ASSUME GTypeOK
  PROVE  /\ GAddFinalizer => /\ grp'.phase = grp.phase /\ grp'.gid = grp.gid
                             /\ grp.fin => grp'.fin
                             /\ ~gloc.fin /\ grp.phase # "gone" => grp'.fin
                             /\ grp.phase = "gone" => grp' = grp
         /\ GPatch => /\ grp'.phase = grp.phase /\ grp'.fin = grp.fin
                      /\ grp'.gid = IF gnew = gloc.gid \/ grp.phase = "gone"
                                      THEN grp.gid ELSE gnew
         /\ ApplyGroup => /\ grp'.phase = IF grp.phase = "gone" THEN "live" ELSE grp.phase
                          /\ grp'.gid = IF grp.phase = "gone" THEN None ELSE grp.gid
                          /\ grp.phase = "gone" => ~grp'.fin
                          /\ grp.phase # "gone" => grp'.fin = grp.fin
         /\ DeleteGroup => /\ grp'.phase = IF grp.fin THEN "deleting" ELSE "gone"
                           /\ grp'.gid = IF grp.fin THEN grp.gid ELSE None
                           /\ grp.fin => grp'.fin
                           /\ ~grp.fin => ~grp'.fin
  <1>o. grp \in GObjects
    BY DEF GTypeOK
  <1>1. ASSUME GAddFinalizer
        PROVE  /\ grp'.phase = grp.phase /\ grp'.gid = grp.gid
               /\ grp.fin => grp'.fin
               /\ ~gloc.fin /\ grp.phase # "gone" => grp'.fin
               /\ grp.phase = "gone" => grp' = grp
    <2>1. \/ grp' = grp /\ (gloc.fin \/ grp.phase = "gone")
          \/ grp' = [grp EXCEPT !.fin = TRUE] /\ grp.phase # "gone"
      BY <1>1 DEF GAddFinalizer
    <2> QED
      BY <1>o, <2>1 DEF GObjects
  <1>2. ASSUME GPatch
        PROVE  /\ grp'.phase = grp.phase /\ grp'.fin = grp.fin
               /\ grp'.gid = IF gnew = gloc.gid \/ grp.phase = "gone"
                               THEN grp.gid ELSE gnew
    <2>1. \/ grp' = grp /\ (gnew = gloc.gid \/ grp.phase = "gone")
          \/ /\ grp' = [grp EXCEPT !.gid = gnew]
             /\ gnew # gloc.gid /\ grp.phase # "gone"
      BY <1>2 DEF GPatch
    <2> QED
      BY <1>o, <2>1 DEF GObjects
  <1>3. ASSUME ApplyGroup
        PROVE  /\ grp'.phase = IF grp.phase = "gone" THEN "live" ELSE grp.phase
               /\ grp'.gid = IF grp.phase = "gone" THEN None ELSE grp.gid
               /\ grp.phase = "gone" => ~grp'.fin
               /\ grp.phase # "gone" => grp'.fin = grp.fin
    <2>1. \/ /\ grp.phase = "gone"
             /\ grp' = [phase |-> "live", fin |-> FALSE, gid |-> None, name |-> cur.net]
          \/ grp.phase # "gone" /\ grp' = [grp EXCEPT !.name = cur.net]
      BY <1>3 DEF ApplyGroup
    <2> QED
      BY <1>o, <2>1 DEF GObjects
  <1>4. ASSUME DeleteGroup
        PROVE  /\ grp'.phase = IF grp.fin THEN "deleting" ELSE "gone"
               /\ grp'.gid = IF grp.fin THEN grp.gid ELSE None
               /\ grp.fin => grp'.fin
               /\ ~grp.fin => ~grp'.fin
    <2>1. CASE grp.fin
      <3>1. grp' = [grp EXCEPT !.phase = "deleting"]
        BY <1>4, <2>1 DEF DeleteGroup
      <3> QED
        BY <1>o, <2>1, <3>1 DEF GObjects
    <2>2. CASE ~grp.fin
      BY <1>4, <2>2, GAbsentFields DEF DeleteGroup
    <2> QED
      BY <2>1, <2>2
  <1> QED
    BY <1>1, <1>2, <1>3, <1>4

(* At the start there is no Group.                                         *)
LEMMA InitGInv == Init => GInv
  BY GAbsentFields DEF Init, GInit, GInv, GroupIds, GroupFinalizer,
     GroupDeleting, Upserts, Deletes

(* Every step keeps it.                                                    *)
LEMMA StepGInv ==
  ASSUME GTypeOK, GInv, [Next]_vars PROVE GInv'
  <1> USE GAbsentFields DEF GInv, GroupIds, GroupFinalizer, GroupDeleting, Upserts, Deletes
  <1>o. /\ grp \in GObjects /\ gcache \in GObjects /\ gloc \in GObjects
        /\ gup \in [Groups -> UpStates] /\ gnew \in Groups \cup {None}
    BY DEF GTypeOK
  <1>f. /\ grp.gid \in Groups \cup {None} /\ gcache.gid \in Groups \cup {None}
        /\ gloc.gid \in Groups \cup {None}
        /\ grp.fin \in BOOLEAN /\ gcache.fin \in BOOLEAN /\ gloc.fin \in BOOLEAN
        /\ grp.phase \in {"live", "deleting", "gone"}
    BY <1>o, GroupFields
  <1>1. CASE GStart
    BY <1>1 DEF GStart
  <1>2. CASE GAddFinalizer
    <2>1. CASE ~gloc.fin /\ grp.phase = "gone"
      BY <1>2, <2>1 DEF GAddFinalizer, GEnd
    <2>2. CASE gloc.fin \/ grp.phase # "gone"
      <3>1. grp'.phase = grp.phase /\ grp'.gid = grp.gid /\ grp'.fin
        BY <1>2, <2>2, GroupWrites DEF GAddFinalizer
      <3>2. /\ gpc = "finalizer" /\ UNCHANGED <<gcache, gup, gloc>>
            /\ gpc' = IF gloc.gid = None THEN "create" ELSE "update"
        BY <1>2, <2>2 DEF GAddFinalizer, GGoto
      <3>3. GroupIds'
        BY <1>f, <3>1, <3>2
      <3>4. grp.phase # "gone"
        BY <2>2, <3>2
      <3>5. GroupFinalizer'
        BY <3>1, <3>2, <3>4
      <3>6. GroupDeleting'
        BY <3>1, <3>2
      <3> QED
        BY <3>3, <3>5, <3>6
    <2> QED
      BY <2>1, <2>2
  <1>3. CASE GUpdate
    BY <1>3, <1>f DEF GUpdate, GGoto
  <1>4. CASE GCreate
    BY <1>4, <1>o, <1>f DEF GCreate, GGoto
  <1>5. CASE GPatch
    <2>1. grp'.phase = grp.phase /\ grp'.gid \in {grp.gid, gnew} /\ grp'.fin = grp.fin
      BY <1>5, GroupWrites
    <2>2. gpc = "patch" /\ gpc' = "idle" /\ gloc' = GAbsent /\ UNCHANGED <<gcache, gup>>
      BY <1>5 DEF GPatch, GEnd
    <2> QED
      BY <2>1, <2>2
  <1>6. CASE GDelete
    BY <1>6, <1>o, <1>f DEF GDelete, GGoto
  <1>7. CASE GRemoveFinalizer
    <2>1. /\ grp'.phase = IF grp.phase = "deleting" THEN "gone" ELSE grp.phase
          /\ grp'.gid = IF grp.phase = "deleting" THEN None ELSE grp.gid
          /\ ~grp'.fin
      BY <1>7, <1>o, GroupFields DEF GRemoveFinalizer
    <2>2. gpc = "delFin" /\ gpc' = "idle" /\ gloc' = GAbsent /\ UNCHANGED <<gcache, gup>>
      BY <1>7 DEF GRemoveFinalizer, GEnd
    <2> QED
      BY <2>1, <2>2, <1>f
  <1>8. CASE GAbort
    BY <1>8 DEF GAbort, GEnd
  <1>9. CASE \E g \in Groups : AdminRemovesGroup(g)
    BY <1>9, <1>o, <1>f DEF AdminRemovesGroup
  <1>10. CASE ApplyGroup
    <2>1. /\ grp'.phase = IF grp.phase = "gone" THEN "live" ELSE grp.phase
          /\ grp'.gid = grp.gid /\ (grp'.fin <=> grp.fin)
      BY <1>10, GroupWrites
    <2>2. UNCHANGED <<gcache, gup, gpc, gloc, gnew>>
      BY <1>10 DEF ApplyGroup
    <2> QED
      BY <2>1, <2>2
  <1>11. CASE DeleteGroup
    <2>1. /\ grp.phase = "live"
          /\ grp'.phase = IF grp.fin THEN "deleting" ELSE "gone"
          /\ grp'.gid = grp.gid /\ (grp'.fin <=> grp.fin)
      BY <1>11, <1>f, GroupWrites DEF DeleteGroup
    <2>2. UNCHANGED <<gcache, gup, gpc, gloc, gnew>>
      BY <1>11 DEF DeleteGroup
    <2> QED
      BY <2>1, <2>2
  <1>12. CASE GroupSync
    BY <1>12, <1>f DEF GroupSync
  <1>13. CASE Restart
    BY <1>13, <1>f DEF Restart
  <1>14. CASE UNCHANGED gvars
    BY <1>14 DEF gvars
  <1> QED
    BY <1>1, <1>2, <1>3, <1>4, <1>5, <1>6, <1>7, <1>8, <1>9, <1>10, <1>11,
       <1>12, <1>13, <1>14, GroupKinds DEF GroupAction, GStep

(* No step dooms a group unless it is a lapse, and a lapse dooms one.      *)
LEMMA StepGroupDoomed ==
  ASSUME GTypeOK, GInv, [Next]_vars
  PROVE  \/ GroupDoomed' \subseteq GroupDoomed
         \/ /\ lapses' = lapses + 1
            /\ \E x : GroupDoomed' \subseteq GroupDoomed \cup {x}
  <1> USE GAbsentFields DEF GInv, GroupIds, GroupFinalizer
  <1>o. /\ grp \in GObjects /\ gcache \in GObjects /\ gloc \in GObjects
        /\ gup \in [Groups -> UpStates] /\ gnew \in Groups \cup {None}
        /\ grp.fin \in BOOLEAN
    BY GroupFields DEF GTypeOK
  <1>1. CASE GStart
    <2>1. CASE gcache.gid = grp.gid
      BY <1>1, <2>1 DEF GStart, GroupDoomed
    <2>2. CASE gcache.gid # grp.gid
      <3>1. GroupDoomed' \subseteq GroupDoomed \cup {grp.gid}
        BY <1>1 DEF GStart, GroupDoomed
      <3> QED
        BY <1>1, <2>2, <3>1 DEF GStart
    <2> QED
      BY <2>1, <2>2
  <1>2. CASE GAddFinalizer
    <2>1. grp'.gid = grp.gid /\ gup' = gup /\ gpc = "finalizer"
      BY <1>2, GroupWrites DEF GAddFinalizer
    <2>2. gpc' = "idle" \/ (gpc' \in {"create", "update"} /\ gloc' = gloc)
      BY <1>2 DEF GAddFinalizer, GGoto, GEnd
    <2> QED
      BY <2>1, <2>2 DEF GroupDoomed
  <1>3. CASE GUpdate
    BY <1>3 DEF GUpdate, GGoto, GroupDoomed
  <1>4. CASE GCreate
    <2>1. PICK g \in Groups : /\ gup[g] = "unused"
                             /\ gup' = [gup EXCEPT ![g] = "live"]
                             /\ gnew' = g
      BY <1>4 DEF GCreate
    <2>2. gpc = "create" /\ gpc' = "patch" /\ UNCHANGED <<grp, gloc>>
      BY <1>4 DEF GCreate, GGoto
    <2>3. g # grp.gid /\ g # gloc.gid
      BY <2>1
    <2> QED
      BY <1>o, <2>1, <2>2, <2>3 DEF GroupDoomed
  <1>5. CASE GPatch
    <2>1. gpc = "patch" /\ gpc' = "idle" /\ gup' = gup
      BY <1>5 DEF GPatch, GEnd
    <2>2. grp'.gid = IF gnew = gloc.gid THEN grp.gid ELSE gnew
      BY <1>5, <2>1, GroupWrites
    <2> QED
      BY <2>1, <2>2 DEF GroupDoomed
  <1>6. CASE GDelete
    BY <1>6, <1>o DEF GDelete, GGoto, GroupDoomed
  <1>7. CASE GRemoveFinalizer
    <2>1. grp'.gid \in {None, grp.gid}
      BY <1>7, <1>o, GroupFields DEF GRemoveFinalizer
    <2>2. gpc = "delFin" /\ gpc' = "idle" /\ gup' = gup
      BY <1>7 DEF GRemoveFinalizer, GEnd
    <2> QED
      BY <2>1, <2>2 DEF GroupDoomed
  <1>8. CASE GAbort \/ Restart
    <2>1. lapses' = lapses + 1 /\ gpc' = "idle" /\ UNCHANGED <<grp, gup>>
      BY <1>8 DEF GAbort, Restart, GEnd
    <2>2. GroupDoomed' \subseteq GroupDoomed \cup {gnew}
      BY <2>1 DEF GroupDoomed
    <2> QED
      BY <2>1, <2>2
  <1>9. CASE \E g \in Groups : AdminRemovesGroup(g)
    BY <1>9, <1>o DEF AdminRemovesGroup, GroupDoomed
  <1>10. CASE ApplyGroup \/ DeleteGroup
    <2>1. grp'.gid = grp.gid
      BY <1>10, GroupWrites
    <2>2. UNCHANGED <<gup, gpc, gloc, gnew>>
      BY <1>10 DEF ApplyGroup, DeleteGroup
    <2> QED
      BY <2>1, <2>2 DEF GroupDoomed
  <1>11. CASE GroupSync
    BY <1>11 DEF GroupSync, GroupDoomed
  <1>12. CASE UNCHANGED gvars
    BY <1>12 DEF gvars, GroupDoomed
  <1> QED
    BY <1>1, <1>2, <1>3, <1>4, <1>5, <1>6, <1>7, <1>8, <1>9, <1>10, <1>11,
       <1>12, GroupKinds DEF GroupAction, GStep

-----------------------------------------------------------------------------
(* Counting.                                                               *)

(* Shrinking a bounded set keeps the bound, and so does exchanging an      *)
(* element; one more element raises it by one.                             *)
LEMMA Shrink ==
  ASSUME NEW A, NEW B, NEW n \in Nat, IsFiniteSet(A), Cardinality(A) <= n,
         B \subseteq A
  PROVE  IsFiniteSet(B) /\ Cardinality(B) <= n
  BY FS_Subset, FS_CardinalityType

LEMMA Grow ==
  ASSUME NEW A, NEW B, NEW x, NEW n \in Nat, IsFiniteSet(A),
         Cardinality(A) <= n, B \subseteq A \cup {x}
  PROVE  IsFiniteSet(B) /\ Cardinality(B) <= n + 1
  <1>1. Cardinality(A) \in Nat
    BY FS_CardinalityType
  <1>2. /\ IsFiniteSet(A \cup {x})
        /\ Cardinality(A \cup {x}) \in {Cardinality(A), Cardinality(A) + 1}
    BY FS_AddElement
  <1>3. Cardinality(A \cup {x}) <= n + 1 /\ Cardinality(A \cup {x}) \in Nat
    BY <1>1, <1>2
  <1> QED
    BY <1>2, <1>3, Shrink

LEMMA Exchange ==
  ASSUME NEW A, NEW B, NEW a \in A, NEW x, NEW n \in Nat, IsFiniteSet(A),
         Cardinality(A) <= n, B \subseteq (A \ {a}) \cup {x}
  PROVE  IsFiniteSet(B) /\ Cardinality(B) <= n
  <1>1. IsFiniteSet(A \ {a}) /\ Cardinality(A \ {a}) = Cardinality(A) - 1
    BY FS_RemoveElement
  <1>2. Cardinality(A) \in Nat /\ Cardinality(A \ {a}) \in Nat
    BY <1>1, FS_CardinalityType
  <1>3. n - 1 \in Nat /\ Cardinality(A \ {a}) <= n - 1
    BY <1>1, <1>2
  <1>4. IsFiniteSet(B) /\ Cardinality(B) <= (n - 1) + 1
    BY <1>1, <1>3, Grow
  <1> QED
    BY <1>4

(* The groups left behind are at most as many as the lapses.               *)
GroupBound == /\ TypeOK /\ GInv
              /\ IsFiniteSet(GroupDoomed) /\ Cardinality(GroupDoomed) <= lapses

LEMMA InitGroupBound == Init => GroupBound
  <1> SUFFICES ASSUME Init PROVE GroupBound
    OBVIOUS
  <1>1. GroupDoomed = {}
    BY GAbsentFields DEF Init, GInit, GroupDoomed
  <1> QED
    BY <1>1, InitType, InitGInv, FS_EmptySet DEF GroupBound, Init

LEMMA StepGroupBound == GroupBound /\ [Next]_vars => GroupBound'
  <1> SUFFICES ASSUME GroupBound, [Next]_vars PROVE GroupBound'
    OBVIOUS
  <1>1. TypeOK /\ GTypeOK /\ Counts /\ GInv
    BY TypeParts DEF GroupBound
  <1>2. TypeOK' /\ GInv' /\ Tally
    BY <1>1, StepType, StepGInv, StepTally
  <1>3. lapses \in Nat /\ lapses' \in Nat /\ lapses <= lapses'
    BY <1>1, <1>2 DEF Counts, Tally
  <1>4. IsFiniteSet(GroupDoomed) /\ Cardinality(GroupDoomed) <= lapses
    BY DEF GroupBound
  <1>5. CASE GroupDoomed' \subseteq GroupDoomed
    <2>1. IsFiniteSet(GroupDoomed') /\ Cardinality(GroupDoomed') <= lapses
      BY <1>3, <1>4, <1>5, Shrink
    <2>2. Cardinality(GroupDoomed') \in Nat
      BY <2>1, FS_CardinalityType
    <2>3. Cardinality(GroupDoomed') <= lapses'
      BY <1>3, <2>1, <2>2
    <2> QED
      BY <1>2, <2>1, <2>3 DEF GroupBound
  <1>6. CASE lapses' = lapses + 1 /\ \E x : GroupDoomed' \subseteq GroupDoomed \cup {x}
    BY <1>2, <1>3, <1>4, <1>6, Grow DEF GroupBound
  <1> QED
    BY <1>1, <1>5, <1>6, StepGroupDoomed

(* At most one group is left behind per lapse, across deletions and        *)
(* re-creations of the Group: GroupsAccounted for every number of groups   *)
(* and lapses.                                                             *)
THEOREM GroupsBounded == Spec => []GroupsAccounted
  <1>1. GroupBound => GroupsAccounted
    <2> SUFFICES ASSUME GroupBound PROVE GroupsAccounted
      OBVIOUS
    <2>1. lapses \in Nat
      BY TypeParts DEF GroupBound, Counts
    <2>2. GroupOrphans \subseteq GroupDoomed
      BY DEF GroupOrphans, GroupDoomed
    <2> QED
      BY <2>1, <2>2, Shrink DEF GroupBound, GroupsAccounted
  <1> QED
    BY <1>1, InitGroupBound, StepGroupBound, PTL DEF Spec

-----------------------------------------------------------------------------
(* The NetworkRouter controller keeps its invariant.                       *)

(* The fields of a NetworkRouter, and of an absent one.                    *)
LEMMA RouterFields ==
  ASSUME NEW o \in Objects
  PROVE  /\ o.phase \in {"live", "deleting", "gone"} /\ o.fin \in BOOLEAN
         /\ o.nid \in Nets \cup {None}
  BY DEF Objects

LEMMA AbsentFields ==
  Absent.phase = "gone" /\ Absent.nid = None /\ ~Absent.fin
  BY DEF Absent

(* What the writes to the NetworkRouter do to its phase, finalizer and id. *)
LEMMA RouterWrites ==
  ASSUME RTypeOK
  PROVE  /\ PatchNetwork => /\ api'.phase = api.phase
                            /\ api'.nid = IF cur.net = loc.nid \/ api.phase = "gone"
                                            THEN api.nid ELSE cur.net
                            /\ api.fin => api'.fin
                            /\ cur.net # loc.nid /\ api.phase # "gone" => api'.fin
         /\ PatchRouter \/ PatchReady =>
              api'.phase = api.phase /\ api'.nid = api.nid /\ api'.fin = api.fin
         /\ UserDelete => /\ api'.phase = IF api.fin THEN "deleting" ELSE "gone"
                          /\ api'.nid = IF api.fin THEN api.nid ELSE None
                          /\ api.fin => api'.fin
  <1>o. api \in Objects
    BY DEF RTypeOK
  <1>1. ASSUME PatchNetwork
        PROVE  /\ api'.phase = api.phase
               /\ api'.nid = IF cur.net = loc.nid \/ api.phase = "gone"
                               THEN api.nid ELSE cur.net
               /\ api.fin => api'.fin
               /\ cur.net # loc.nid /\ api.phase # "gone" => api'.fin
    <2>1. \/ api' = api /\ (cur.net = loc.nid \/ api.phase = "gone")
          \/ /\ api.phase # "gone"
             /\ api' = [api EXCEPT !.fin = TRUE,
                                   !.nid = IF cur.net = loc.nid THEN @ ELSE cur.net]
      BY <1>1 DEF PatchNetwork
    <2> QED
      BY <1>o, <2>1 DEF Objects
  <1>2. ASSUME PatchRouter \/ PatchReady
        PROVE  api'.phase = api.phase /\ api'.nid = api.nid /\ api'.fin = api.fin
    <2>1. \/ api' = api
          \/ api' = [api EXCEPT !.ready = TRUE]
          \/ api' = [api EXCEPT !.rid = IF cur.rid = loc.rid THEN @ ELSE cur.rid]
      BY <1>2 DEF PatchRouter, PatchReady
    <2> QED
      BY <1>o, <2>1 DEF Objects
  <1>3. ASSUME UserDelete
        PROVE  /\ api'.phase = IF api.fin THEN "deleting" ELSE "gone"
               /\ api'.nid = IF api.fin THEN api.nid ELSE None
               /\ api.fin => api'.fin
    <2>1. CASE api.fin
      <3>1. api' = [api EXCEPT !.phase = "deleting"]
        BY <1>3, <2>1 DEF UserDelete
      <3> QED
        BY <1>o, <2>1, <3>1 DEF Objects
    <2>2. CASE ~api.fin
      BY <1>3, <2>2, AbsentFields DEF UserDelete
    <2> QED
      BY <2>1, <2>2
  <1> QED
    BY <1>1, <1>2, <1>3

(* A step that concerns neither the network nor what the pass knows of it. *)
Aside ==
    /\ UNCHANGED <<cache, net>>
    /\ api'.phase = api.phase /\ api'.nid = api.nid /\ api'.fin = api.fin
    /\ \/ UNCHANGED <<pc, loc, cur>>
       \/ pc \in Later /\ pc' \in Later /\ loc' = loc
       \/ pc \in Later /\ pc' = "idle" /\ loc' = Absent
       \/ pc = "delRtr" /\ pc' = "delNet" /\ loc' = loc

LEMMA NetKinds ==
  ASSUME RTypeOK, [Next]_vars
  PROVE  \/ Start \/ GetZone \/ UpdateNetwork \/ CreateNetwork \/ PatchNetwork
         \/ DeleteNetwork \/ RemoveFinalizer \/ Abort \/ Restart
         \/ CacheSync \/ UserDelete \/ \E n \in Nets : AdminRemovesNetwork(n)
         \/ Aside
  <1>1. CASE ApplyGroup \/ GetGroup \/ EnsureKey
    BY <1>1 DEF ApplyGroup, GetGroup, EnsureKey, Goto, EndPass, Aside, Later
  <1>2. CASE UpdateRouter \/ CreateRouter
    BY <1>2 DEF UpdateRouter, CreateRouter, EndPass, Aside, Later
  <1>3. CASE PatchRouter
    <2>1. api'.phase = api.phase /\ api'.nid = api.nid /\ api'.fin = api.fin
      BY <1>3, RouterWrites
    <2> QED
      BY <1>3, <2>1 DEF PatchRouter, Goto, EndPass, Aside, Later
  <1>4. CASE EnsureDeployment
    BY <1>4 DEF EnsureDeployment, Goto, EndPass, Aside, Later
  <1>5. CASE PatchReady
    <2>1. api'.phase = api.phase /\ api'.nid = api.nid /\ api'.fin = api.fin
      BY <1>5, RouterWrites
    <2> QED
      BY <1>5, <2>1 DEF PatchReady, EndPass, Aside, Later
  <1>6. CASE DeleteRouter
    BY <1>6 DEF DeleteRouter, Goto, Aside
  <1>7. CASE GroupSync \/ KeySync \/ DeploymentSync
    BY <1>7 DEF GroupSync, KeySync, DeploymentSync, Aside
  <1>8. CASE \E r \in Routers : AdminRemovesRouter(r)
    BY <1>8 DEF AdminRemovesRouter, Aside
  <1>9. CASE UNCHANGED rvars
    BY <1>9 DEF rvars, Aside
  <1>10. DeleteGroup \/ Done \/ UNCHANGED vars => UNCHANGED rvars
    BY DEF DeleteGroup, Done, vars
  <1> QED
    BY <1>1, <1>2, <1>3, <1>4, <1>5, <1>6, <1>7, <1>8, <1>9, <1>10
       DEF Next, Step, GroupStep, Environment

(* At the start there is no network.                                       *)
LEMMA InitNInv == Init => NInv /\ NetOrder
  BY AbsentFields DEF Init, Created, NInv, NetIds, NetFinalizer, NetOrder, Teardown

(* A network that is lost is no longer live, and stays used.               *)
LEMMA NetsAfterLoss ==
  ASSUME net \in [Nets -> UpStates], NEW n \in Nets, NEW how \in {"removed", "deleted"},
         net[n] = "live", net' = [net EXCEPT ![n] = how]
  PROVE  \A m \in Nets : /\ (net'[m] = "unused") <=> (net[m] = "unused")
                         /\ net'[m] = "live" => net[m] = "live"
  <1> SUFFICES ASSUME NEW m \in Nets
               PROVE  /\ (net'[m] = "unused") <=> (net[m] = "unused")
                      /\ net'[m] = "live" => net[m] = "live"
    OBVIOUS
  <1>1. CASE m = n
    BY <1>1
  <1>2. CASE m # n
    BY <1>2
  <1> QED
    BY <1>1, <1>2

(* Every step keeps it.                                                    *)
LEMMA StepNInv ==
  ASSUME RTypeOK, NInv, [Next]_vars PROVE NInv'
  <1> USE AbsentFields DEF NInv, NetIds, NetFinalizer, Teardown
  <1>o. /\ api \in Objects /\ cache \in Objects /\ loc \in Objects
        /\ net \in [Nets -> UpStates] /\ cur \in Obtained
        /\ cur.net \in Nets \cup {None}
    BY RecordWrites DEF RTypeOK
  <1>f. /\ api.nid \in Nets \cup {None} /\ cache.nid \in Nets \cup {None}
        /\ loc.nid \in Nets \cup {None}
        /\ api.fin \in BOOLEAN /\ cache.fin \in BOOLEAN /\ loc.fin \in BOOLEAN
        /\ api.phase \in {"live", "deleting", "gone"}
    BY <1>o, RouterFields
  <1>c. \A n : [cur EXCEPT !.net = n].net = n
    BY <1>o DEF Obtained
  <1>1. CASE Start
    BY <1>1 DEF Start
  <1>2. CASE GetZone
    BY <1>2 DEF GetZone, Goto
  <1>3. CASE UpdateNetwork
    <2>1. /\ pc = "network" /\ UNCHANGED <<api, cache, loc, net>>
          /\ \/ net[loc.nid] = "live" /\ pc' = "patchNet" /\ cur'.net = loc.nid
             \/ net[loc.nid] # "live" /\ pc' = "createNet"
      BY <1>3, <1>c DEF UpdateNetwork
    <2> QED
      BY <2>1, <1>f
  <1>4. CASE CreateNetwork
    <2>1. PICK n \in Nets : /\ net[n] = "unused"
                            /\ net' = [net EXCEPT ![n] = "live"]
                            /\ cur'.net = n
      BY <1>4, <1>c DEF CreateNetwork
    <2>2. pc = "createNet" /\ pc' = "patchNet" /\ UNCHANGED <<api, cache, loc>>
      BY <1>4 DEF CreateNetwork
    <2>3. \A m \in Nets \ {n} : net'[m] = net[m]
      BY <1>o, <2>1
    <2>4. net'[n] = "live" /\ n # None
      BY <1>o, <2>1
    <2> QED
      BY <1>f, <2>1, <2>2, <2>3, <2>4
  <1>5. CASE PatchNetwork
    <2>1. /\ pc = "patchNet" /\ UNCHANGED <<cache, net>>
          /\ \/ pc' = "group" /\ loc' = loc
             \/ pc' = "idle" /\ loc' = Absent
      BY <1>5 DEF PatchNetwork, Goto, EndPass
    <2>2. /\ api'.phase = api.phase /\ (api.fin => api'.fin)
          /\ \/ api'.nid = api.nid
             \/ api.phase # "gone" /\ api'.nid = cur.net /\ api'.fin
      BY <1>5, RouterWrites
    <2> QED
      BY <1>f, <2>1, <2>2
  <1>6. CASE DeleteNetwork
    <2>1. /\ pc = "delNet" /\ pc' = "delFin" /\ UNCHANGED <<api, cache, loc>>
          /\ \/ /\ loc.nid # None /\ net[loc.nid] = "live"
                /\ net' = [net EXCEPT ![loc.nid] = "deleted"]
             \/ ~(loc.nid # None /\ net[loc.nid] = "live") /\ net' = net
      BY <1>6 DEF DeleteNetwork, LoseNetwork, Goto
    <2> QED
      BY <1>o, <1>f, <2>1
  <1>7. CASE RemoveFinalizer
    BY <1>7 DEF RemoveFinalizer, EndPass
  <1>8. CASE Abort \/ Restart
    BY <1>8, <1>f DEF Abort, Restart, EndPass
  <1>9. CASE CacheSync
    BY <1>9, <1>f DEF CacheSync
  <1>10. CASE UserDelete
    <2>1. /\ api.phase = "live" /\ api'.phase \in {"deleting", "gone"}
          /\ api'.nid = api.nid /\ (api.fin => api'.fin)
          /\ api'.phase = "gone" => api'.nid = None
      BY <1>10, <1>f, RouterWrites DEF UserDelete
    <2>2. UNCHANGED <<cache, net, pc, loc, cur>>
      BY <1>10 DEF UserDelete
    <2> QED
      BY <2>1, <2>2
  <1>11. CASE \E n \in Nets : AdminRemovesNetwork(n)
    <2>1. PICK n \in Nets : net[n] = "live" /\ net' = [net EXCEPT ![n] = "removed"]
      BY <1>11 DEF AdminRemovesNetwork, LoseNetwork
    <2>2. UNCHANGED <<api, cache, pc, loc, cur>>
      BY <1>11 DEF AdminRemovesNetwork
    <2>3. \A m \in Nets : /\ (net'[m] = "unused") <=> (net[m] = "unused")
                          /\ net'[m] = "live" => net[m] = "live"
      BY <1>o, <2>1, NetsAfterLoss
    <2>4. cur.net \in Nets \cup {None}
      BY <1>o
    <2>5. NetIds'
      BY <1>f, <2>2, <2>3, <2>4
    <2> QED
      BY <2>2, <2>5
  <1>12. CASE Aside
    BY <1>12 DEF Aside, Later
  <1> QED
    BY <1>1, <1>2, <1>3, <1>4, <1>5, <1>6, <1>7, <1>8, <1>9, <1>10, <1>11,
       <1>12, NetKinds

(* Every step keeps the order of the ids.                                  *)
LEMMA StepNetOrder ==
  ASSUME RTypeOK, NInv, NetOrder, [Next]_vars PROVE NetOrder'
  <1> USE NetsAssumption DEF NetOrder
  <1>o. /\ api \in Objects /\ net \in [Nets -> UpStates] /\ cur \in Obtained
        /\ api.nid \in Nets \cup {None}
    BY RouterFields DEF RTypeOK
  <1>c. \A n : [cur EXCEPT !.net = n].net = n
    BY <1>o DEF Obtained
  <1>1. CASE CreateNetwork
    <2>1. PICK n \in Nets : /\ net[n] = "unused"
                            /\ \A m \in Nets : net[m] = "unused" => n <= m
                            /\ net' = [net EXCEPT ![n] = "live"]
                            /\ cur'.net = n
      BY <1>1, <1>c DEF CreateNetwork
    <2>2. api' = api
      BY <1>1 DEF CreateNetwork
    <2>3. ASSUME NEW i \in Nets, NEW j \in Nets, net'[i] # "unused", net'[j] = "unused"
          PROVE  i < j
      <3>1. net[j] = "unused" /\ j # n /\ n <= j
        BY <1>o, <2>1, <2>3
      <3>2. CASE i = n
        BY <3>1, <3>2
      <3>3. CASE i # n
        BY <1>o, <2>1, <2>3, <3>1, <3>3
      <3> QED
        BY <3>2, <3>3
    <2>4. api.nid # None => api.nid < cur'.net
      BY <1>o, <2>1 DEF NInv, NetIds
    <2> QED
      BY <2>2, <2>3, <2>4
  <1>2. ASSUME NEW n \in Nets, NEW how \in {"removed", "deleted"},
               net[n] = "live", net' = [net EXCEPT ![n] = how]
        PROVE  \A m \in Nets : (net'[m] = "unused") <=> (net[m] = "unused")
    BY <1>o, <1>2
  <1>3. CASE DeleteNetwork
    <2>1. /\ pc' = "delFin"
          /\ \/ /\ loc.nid # None /\ net[loc.nid] = "live"
                /\ net' = [net EXCEPT ![loc.nid] = "deleted"]
             \/ net' = net
      BY <1>3 DEF DeleteNetwork, LoseNetwork, Goto
    <2>2. loc.nid \in Nets \cup {None}
      BY RouterFields DEF RTypeOK
    <2>3. \A m \in Nets : (net'[m] = "unused") <=> (net[m] = "unused")
      BY <1>2, <2>1, <2>2
    <2> QED
      BY <2>1, <2>3
  <1>4. CASE \E n \in Nets : AdminRemovesNetwork(n)
    <2>1. PICK n \in Nets : net[n] = "live" /\ net' = [net EXCEPT ![n] = "removed"]
      BY <1>4 DEF AdminRemovesNetwork, LoseNetwork
    <2>2. UNCHANGED <<api, pc, loc, cur>>
      BY <1>4 DEF AdminRemovesNetwork
    <2>3. \A m \in Nets : (net'[m] = "unused") <=> (net[m] = "unused")
      BY <1>2, <2>1
    <2> QED
      BY <2>2, <2>3
  <1>5. CASE Start
    BY <1>5 DEF Start
  <1>6. CASE GetZone
    BY <1>6 DEF GetZone, Goto
  <1>7. CASE UpdateNetwork
    <2>1. UNCHANGED <<net, loc>> /\ (pc' = "patchNet" => cur'.net = loc.nid)
      BY <1>7, <1>c DEF UpdateNetwork
    <2> QED
      BY <2>1
  <1>8. CASE PatchNetwork \/ RemoveFinalizer \/ Abort \/ Restart
    <2>1. net' = net /\ pc' # "patchNet"
      BY <1>8 DEF PatchNetwork, RemoveFinalizer, Abort, Restart, Goto, EndPass
    <2> QED
      BY <2>1
  <1>9. CASE CacheSync
    BY <1>9 DEF CacheSync
  <1>10. CASE UserDelete
    <2>1. api'.nid \in {api.nid, None} /\ UNCHANGED <<net, pc, loc, cur>>
      BY <1>10, RouterWrites DEF UserDelete
    <2> QED
      BY <2>1
  <1>11. CASE Aside
    BY <1>11 DEF Aside, Later
  <1> QED
    BY <1>1, <1>3, <1>4, <1>5, <1>6, <1>7, <1>8, <1>9, <1>10, <1>11, NetKinds

(* No step dooms a network unless it is a lapse, which dooms one, or the   *)
(* patch that finds the object gone: it loses the network it has created   *)
(* instead of the one it might have created.                               *)
LEMMA StepNetDoomed ==
  ASSUME RTypeOK, NInv, [Next]_vars
  PROVE  \/ NetDoomed' \subseteq NetDoomed
         \/ /\ lapses' = lapses + 1
            /\ \E x : NetDoomed' \subseteq NetDoomed \cup {x}
         \/ \E a \in NetDoomed : \E x : NetDoomed' \subseteq (NetDoomed \ {a}) \cup {x}
  <1> USE AbsentFields DEF NInv, NetIds, NetFinalizer, Early, Teardown
  <1>o. /\ api \in Objects /\ cache \in Objects /\ loc \in Objects
        /\ net \in [Nets -> UpStates] /\ cur \in Obtained
        /\ cur.net \in Nets \cup {None}
    BY RecordWrites DEF RTypeOK
  <1>f. /\ api.nid \in Nets \cup {None} /\ loc.nid \in Nets \cup {None}
        /\ api.fin \in BOOLEAN
    BY <1>o, RouterFields
  <1>c. \A n : [cur EXCEPT !.net = n].net = n
    BY <1>o DEF Obtained
  <1>1. CASE Start
    <2>1. /\ pc = "idle" /\ UNCHANGED <<api, net>>
          /\ \/ pc' = "idle"
             \/ pc' = "zone" /\ loc' = cache /\ cache.phase = "live"
             \/ pc' = "delRtr" /\ loc' = cache
      BY <1>1 DEF Start
    <2>2. CASE lapses' = lapses + 1
      <3>1. NetDoomed' \subseteq NetDoomed \cup {api.nid}
        BY <2>1 DEF NetDoomed
      <3> QED
        BY <2>2, <3>1
    <2>3. CASE /\ cache.nid = api.nid
               /\ ~(cache.phase = "live" /\ api.phase = "gone")
      BY <2>1, <2>3 DEF NetDoomed
    <2>4. \/ lapses' = lapses + 1
          \/ cache.nid = api.nid /\ ~(cache.phase = "live" /\ api.phase = "gone")
      BY <1>1 DEF Start
    <2> QED
      BY <2>2, <2>3, <2>4
  <1>2. CASE GetZone
    <2>1. /\ pc = "zone" /\ pc' \in {"createNet", "network"}
          /\ UNCHANGED <<api, net, loc, cur>>
      BY <1>2 DEF GetZone, Goto
    <2> QED
      BY <2>1 DEF NetDoomed
  <1>3. CASE UpdateNetwork
    <2>1. /\ pc = "network" /\ UNCHANGED <<api, net, loc>>
          /\ \/ pc' = "patchNet" /\ cur'.net = loc.nid
             \/ pc' = "createNet"
      BY <1>3, <1>c DEF UpdateNetwork
    <2> QED
      BY <2>1 DEF NetDoomed
  <1>4. CASE CreateNetwork
    <2>1. PICK n \in Nets : /\ net[n] = "unused"
                            /\ net' = [net EXCEPT ![n] = "live"]
                            /\ cur'.net = n
      BY <1>4, <1>c DEF CreateNetwork
    <2>2. pc = "createNet" /\ pc' = "patchNet" /\ UNCHANGED <<api, loc>>
      BY <1>4 DEF CreateNetwork
    <2>3. \A m \in Nets \ {n} : net'[m] = net[m]
      BY <1>o, <2>1
    <2>4. n # loc.nid /\ n # api.nid
      BY <2>1
    <2> QED
      BY <2>1, <2>2, <2>3, <2>4 DEF NetDoomed
  <1>5. CASE PatchNetwork
    <2>1. /\ pc = "patchNet" /\ net' = net /\ pc' \in {"group", "idle"}
      BY <1>5 DEF PatchNetwork, Goto, EndPass
    <2>2. CASE cur.net = loc.nid
      <3>1. api'.nid = api.nid /\ api'.phase = api.phase
        BY <1>5, <2>2, RouterWrites
      <3> QED
        BY <2>1, <2>2, <3>1 DEF NetDoomed
    <2>3. CASE cur.net # loc.nid /\ api.phase # "gone"
      <3>1. api'.nid = cur.net /\ api'.phase = api.phase
        BY <1>5, <2>3, RouterWrites
      <3>2. loc.nid # None => net[loc.nid] # "live"
        BY <2>1, <2>3
      <3> QED
        BY <2>1, <2>3, <3>1, <3>2 DEF NetDoomed
    <2>4. CASE cur.net # loc.nid /\ api.phase = "gone"
      <3>1. api' = api /\ pc' = "idle"
        BY <1>5, <2>4 DEF PatchNetwork, EndPass
      <3>2. None \in NetDoomed
        BY <2>1, <2>4 DEF NetDoomed
      <3>3. NetDoomed' \subseteq (NetDoomed \ {None}) \cup {cur.net}
        BY <2>1, <3>1, GroupNamesAssumption, NamesAssumption DEF NetDoomed
      <3> QED
        BY <3>2, <3>3
    <2> QED
      BY <2>2, <2>3, <2>4
  <1>6. CASE DeleteNetwork
    <2>1. /\ pc = "delNet" /\ pc' = "delFin" /\ UNCHANGED <<api, loc>>
          /\ net' = net \/ (loc.nid \in Nets /\ net' = [net EXCEPT ![loc.nid] = "deleted"])
      BY <1>6, <1>f DEF DeleteNetwork, LoseNetwork, Goto
    <2>2. \A m \in Nets : net'[m] = "live" => net[m] = "live"
      BY <1>o, <2>1
    <2> QED
      BY <2>1, <2>2 DEF NetDoomed
  <1>7. CASE RemoveFinalizer
    <2>1. /\ pc = "delFin" /\ pc' = "idle" /\ net' = net /\ api' = Absent
      BY <1>7 DEF RemoveFinalizer, EndPass
    <2> QED
      BY <2>1 DEF NetDoomed
  <1>8. CASE Abort \/ Restart
    <2>1. lapses' = lapses + 1 /\ pc' = "idle" /\ UNCHANGED <<api, net>>
      BY <1>8 DEF Abort, Restart, EndPass
    <2>2. NetDoomed' \subseteq NetDoomed \cup {cur.net}
      BY <2>1 DEF NetDoomed
    <2> QED
      BY <2>1, <2>2
  <1>9. CASE CacheSync
    BY <1>9 DEF CacheSync, NetDoomed
  <1>10. CASE UserDelete
    <2>1. api.phase = "live" /\ UNCHANGED <<net, pc, loc, cur>>
      BY <1>10 DEF UserDelete
    <2>2. api'.nid = api.nid
      BY <1>10, <1>f, RouterWrites
    <2>3. CASE api'.phase = "gone" /\ pc # "idle"
      <3>1. lapses' = lapses + 1
        BY <1>10, <2>3, RouterWrites DEF UserDelete
      <3>2. NetDoomed' \subseteq NetDoomed \cup {None}
        BY <2>1, <2>2 DEF NetDoomed
      <3> QED
        BY <3>1, <3>2
    <2>4. CASE ~(api'.phase = "gone" /\ pc # "idle")
      BY <2>1, <2>2, <2>4 DEF NetDoomed
    <2> QED
      BY <2>3, <2>4
  <1>11. CASE \E n \in Nets : AdminRemovesNetwork(n)
    <2>1. PICK n \in Nets : net[n] = "live" /\ net' = [net EXCEPT ![n] = "removed"]
      BY <1>11 DEF AdminRemovesNetwork, LoseNetwork
    <2>2. UNCHANGED <<api, pc, loc, cur>>
      BY <1>11 DEF AdminRemovesNetwork
    <2>3. \A m \in Nets : net'[m] = "live" => net[m] = "live"
      BY <1>o, <2>1
    <2> QED
      BY <2>2, <2>3 DEF NetDoomed
  <1>12. CASE Aside
    BY <1>12 DEF Aside, Later, NetDoomed
  <1> QED
    BY <1>1, <1>2, <1>3, <1>4, <1>5, <1>6, <1>7, <1>8, <1>9, <1>10, <1>11,
       <1>12, NetKinds

(* The networks left behind are at most as many as the lapses.             *)
NetBound == /\ TypeOK /\ NInv /\ NetOrder
            /\ IsFiniteSet(NetDoomed) /\ Cardinality(NetDoomed) <= lapses

LEMMA InitNetBound == Init => NetBound
  <1> SUFFICES ASSUME Init PROVE NetBound
    OBVIOUS
  <1>1. NetDoomed = {}
    BY DEF Init, Created, NetDoomed, Early, Teardown
  <1> QED
    BY <1>1, InitType, InitNInv, FS_EmptySet DEF NetBound, Init

LEMMA StepNetBound == NetBound /\ [Next]_vars => NetBound'
  <1> SUFFICES ASSUME NetBound, [Next]_vars PROVE NetBound'
    OBVIOUS
  <1>1. TypeOK /\ RTypeOK /\ Counts /\ NInv /\ NetOrder
    BY TypeParts DEF NetBound
  <1>2. TypeOK' /\ NInv' /\ NetOrder' /\ Tally
    BY <1>1, StepType, StepNInv, StepNetOrder, StepTally
  <1>3. lapses \in Nat /\ lapses' \in Nat /\ lapses <= lapses'
    BY <1>1, <1>2 DEF Counts, Tally
  <1>4. IsFiniteSet(NetDoomed) /\ Cardinality(NetDoomed) <= lapses
    BY DEF NetBound
  <1>5. ASSUME IsFiniteSet(NetDoomed'), Cardinality(NetDoomed') <= lapses
        PROVE  NetBound'
    <2>1. Cardinality(NetDoomed') \in Nat
      BY <1>5, FS_CardinalityType
    <2>2. Cardinality(NetDoomed') <= lapses'
      BY <1>3, <1>5, <2>1
    <2> QED
      BY <1>2, <1>5, <2>2 DEF NetBound
  <1>6. CASE NetDoomed' \subseteq NetDoomed
    BY <1>3, <1>4, <1>5, <1>6, Shrink
  <1>7. CASE lapses' = lapses + 1 /\ \E x : NetDoomed' \subseteq NetDoomed \cup {x}
    BY <1>2, <1>3, <1>4, <1>7, Grow DEF NetBound
  <1>8. CASE \E a \in NetDoomed : \E x : NetDoomed' \subseteq (NetDoomed \ {a}) \cup {x}
    BY <1>3, <1>4, <1>5, <1>8, Exchange
  <1> QED
    BY <1>1, <1>6, <1>7, <1>8, StepNetDoomed

(* At most one network is left behind per lapse: NetworksAccounted for     *)
(* every number of networks and lapses, although the finalizer reaches the *)
(* API only with the first network id.                                     *)
THEOREM NetworksBounded == Spec => []NetworksAccounted
  <1>1. NetBound => NetworksAccounted
    <2> SUFFICES ASSUME NetBound PROVE NetworksAccounted
      OBVIOUS
    <2>1. lapses \in Nat
      BY TypeParts DEF NetBound, Counts
    <2>2. NetworkOrphans \subseteq NetDoomed
      BY DEF NetworkOrphans, NetDoomed
    <2> QED
      BY <2>1, <2>2, Shrink DEF NetBound, NetworksAccounted
  <1> QED
    BY <1>1, InitNetBound, StepNetBound, PTL DEF Spec

-----------------------------------------------------------------------------
(* The NetworkRouter implements Handle.                                    *)

(* A step that loses one network and touches neither id nor phase is       *)
(* Disappear.                                                              *)
LEMMA NetworkLost ==
  ASSUME RTypeOK, NEW n \in Nets, net[n] = "live", NEW how \in {"removed", "deleted"},
         net' = [net EXCEPT ![n] = how], UNCHANGED <<api>>
  PROVE  Published!HandleNext
  <1>1. Published!Disappear(n)
    BY DEF Published!Disappear, RTypeOK, UpStates
  <1> QED
    BY <1>1 DEF Published!HandleNext

(* Every step is a step of Handle or leaves what Handle sees unchanged.    *)
LEMMA StepHandle ==
  NetBound /\ [Next]_vars => [Published!HandleNext]_(Published!hvars)
  <1> SUFFICES ASSUME NetBound, [Next]_vars
               PROVE  Published!HandleNext \/ UNCHANGED Published!hvars
    OBVIOUS
  <1>t. RTypeOK /\ NInv /\ NetOrder
    BY TypeParts DEF NetBound
  <1>o. /\ api \in Objects /\ api.nid \in Nets \cup {None} /\ api.fin \in BOOLEAN
        /\ net \in [Nets -> UpStates] /\ cur \in Obtained
        /\ cur.net \in Nets \cup {None} /\ loc.nid \in Nets \cup {None}
    BY <1>t, RouterFields, RecordWrites DEF RTypeOK
  <1>s. ASSUME api'.nid = api.nid, api'.phase = api.phase, net' = net
        PROVE  UNCHANGED Published!hvars
    BY <1>s DEF Published!hvars
  <1>1. CASE CreateNetwork
    <2>1. PICK n \in Nets : net[n] = "unused" /\ net' = [net EXCEPT ![n] = "live"]
      BY <1>1 DEF CreateNetwork
    <2>2. api' = api
      BY <1>1 DEF CreateNetwork
    <2>3. Published!Appear(n)
      BY <1>o, <2>1, <2>2 DEF Published!Appear
    <2> QED
      BY <2>3 DEF Published!HandleNext
  <1>2. CASE PatchNetwork
    <2>1. CASE cur.net = loc.nid \/ api.phase = "gone"
      <3>1. api'.nid = api.nid /\ api'.phase = api.phase /\ net' = net
        BY <1>2, <1>t, <2>1, RouterWrites DEF PatchNetwork
      <3> QED
        BY <1>s, <3>1
    <2>2. CASE cur.net # loc.nid /\ api.phase # "gone"
      <3>1. cur.net \in Nets /\ net[cur.net] # "unused"
        BY <1>2, <1>o, <1>t DEF PatchNetwork, NInv, NetIds
      <3>2. api.nid # None => api.nid < cur.net
        BY <1>2, <1>t, <2>2 DEF PatchNetwork, NetOrder
      <3>3. api'.nid = cur.net /\ api'.phase = api.phase /\ net' = net
        BY <1>2, <1>t, <2>2, RouterWrites DEF PatchNetwork
      <3>4. Published!Publish(cur.net)
        BY <1>o, <2>2, <3>1, <3>2, <3>3 DEF Published!Publish, UpStates
      <3> QED
        BY <3>1, <3>4 DEF Published!HandleNext
    <2> QED
      BY <2>1, <2>2
  <1>3. CASE DeleteNetwork
    <2>1. CASE loc.nid # None /\ net[loc.nid] = "live"
      <3>1. net' = [net EXCEPT ![loc.nid] = "deleted"] /\ api' = api
        BY <1>3, <2>1 DEF DeleteNetwork, LoseNetwork
      <3> QED
        BY <1>o, <1>t, <2>1, <3>1, NetworkLost
    <2>2. CASE ~(loc.nid # None /\ net[loc.nid] = "live")
      BY <1>3, <1>s, <2>2 DEF DeleteNetwork
    <2> QED
      BY <2>1, <2>2
  <1>4. CASE \E n \in Nets : AdminRemovesNetwork(n)
    <2>1. PICK n \in Nets : AdminRemovesNetwork(n)
      BY <1>4
    <2>2. net[n] = "live" /\ net' = [net EXCEPT ![n] = "removed"] /\ api' = api
      BY <2>1 DEF AdminRemovesNetwork, LoseNetwork
    <2> QED
      BY <1>t, <2>2, NetworkLost
  <1>5. CASE RemoveFinalizer
    <2>1. api' = Absent /\ net' = net /\ api.phase # "live"
      BY <1>5, <1>t DEF RemoveFinalizer, NInv, NetFinalizer, Teardown
    <2>2. CASE api.phase = "gone"
      <3>1. api.nid = None
        BY <1>t, <2>2 DEF NInv, NetFinalizer
      <3> QED
        BY <1>s, <2>1, <2>2, <3>1, AbsentFields
    <2>3. CASE api.phase = "deleting"
      <3>1. Published!Withdraw
        BY <2>1, <2>3, AbsentFields DEF Published!Withdraw
      <3> QED
        BY <3>1 DEF Published!HandleNext
    <2> QED
      BY <1>o, <2>1, <2>2, <2>3, RouterFields
  <1>6. CASE UserDelete
    <2>1. api.phase = "live" /\ net' = net
      BY <1>6 DEF UserDelete
    <2>2. CASE api.fin
      <3>1. api'.phase = "deleting" /\ api'.nid = api.nid
        BY <1>6, <1>t, <2>2, RouterWrites
      <3>2. Published!Close
        BY <2>1, <3>1 DEF Published!Close
      <3> QED
        BY <3>2 DEF Published!HandleNext
    <2>3. CASE ~api.fin
      <3>1. api' = Absent
        BY <1>6, <2>3 DEF UserDelete
      <3>2. api.nid = None
        BY <1>t, <2>3 DEF NInv, NetFinalizer
      <3>3. Published!Withdraw
        BY <2>1, <3>1, <3>2, AbsentFields DEF Published!Withdraw
      <3> QED
        BY <3>3 DEF Published!HandleNext
    <2> QED
      BY <2>2, <2>3
  <1>7. CASE Start \/ GetZone \/ UpdateNetwork \/ Abort \/ Restart \/ CacheSync
    BY <1>7, <1>s DEF Start, GetZone, UpdateNetwork, Abort, Restart, CacheSync
  <1>8. CASE Aside
    BY <1>8, <1>s DEF Aside
  <1> QED
    BY <1>1, <1>2, <1>3, <1>4, <1>5, <1>6, <1>7, <1>8, <1>t, NetKinds

(* The NetworkRouter implements Handle with the network id of its status,  *)
(* NetworkIsHandle: the id is only ever replaced by a newer one, and never *)
(* dropped before a user has asked for the deletion.                       *)
THEOREM ImplementsHandle == Spec => NetworkIsHandle
  <1>1. Init => Published!HandleInit
    BY DEF Init, Created, Published!HandleInit
  <1> QED
    BY <1>1, InitNetBound, StepNetBound, StepHandle, PTL
       DEF Spec, NetworkIsHandle, Published!HandleSpec

=============================================================================
