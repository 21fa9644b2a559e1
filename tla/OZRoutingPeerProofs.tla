------------------------- MODULE OZRoutingPeerProofs -------------------------
(***************************************************************************)
(* Proofs about OZRoutingPeer for any number of routing peers, networks,   *)
(* setup keys and resources and for every bound: type correctness, that    *)
(* there are never two networks of the name, that every leaked setup key   *)
(* is paid for by a pass that could not save, and that a deletion whose    *)
(* passes saved leaves nothing behind.                                     *)
(***************************************************************************)
EXTENDS OZRoutingPeer, FiniteSetTheorems, TLAPS

USE NoneAssumption, BoundsAssumption

-----------------------------------------------------------------------------
(* The inductive invariant.                                                *)

(* Calls that only a pass of a live copy, or of a deleting one, makes.     *)
LivePcs == {"network", "createNet", "group", "key", "create", "secret",
            "revoked", "checkSecret", "lostKey", "router", "exempt",
            "setExempt", "deployment"}
DeletePcs == {"delDeployment", "delKey", "listResources", "delResources",
              "delNetwork", "release", "unexempt", "setUnexempt", "dropFin"}

(* Calls between the read of the OZGroup and the write of it.              *)
HoldsGroup == {"listResources", "delResources", "delNetwork", "release"}

(* A running pass has a routing peer.                                      *)
Running == pc # "idle" => cur \in Peers

(* What the pass knows of its routing peer by the call it is about to      *)
(* make.                                                                   *)
PassState ==
    /\ pc = "idle" => loc.net = None /\ loc.key = None
    /\ pc \in {"network", "createNet"} => loc.net = None
    /\ pc = "create" => loc.key = None
    /\ pc \in DeletePcs \ {"delDeployment", "delKey"} => loc.key = None
    /\ pc = "dropFin" => loc.net = None

(* There are never two networks of the name, and none between the list     *)
(* that showed none and the call that creates one.                         *)
SingleNet == /\ \A m, n \in LiveNets : m = n
             /\ pc = "createNet" => LiveNets = {}

(* Caches lag, but phases only move on, so a pass runs for a routing peer  *)
(* that has come at least as far as the copy it read.                      *)
Phases ==
    /\ \A p \in Peers : /\ cache[p].phase = "deleting" => api[p].phase # "live"
                        /\ cache[p].phase = "live" => api[p].phase # "gone"
                        /\ p \in synced => cache[p] = api[p]
                        /\ api[p].phase = "gone" => api[p] = Absent
    /\ pc \in LivePcs => api[cur].phase # "gone"
    /\ pc \in DeletePcs => api[cur].phase # "live" /\ cache[cur].phase # "live"
    /\ pc # "idle" /\ fresh => api[cur].phase # "gone"

(* A pass whose status update will be accepted has the API's ids in hand,  *)
(* or has made them void itself.                                           *)
KeyInHand ==
    pc # "idle" /\ fresh =>
        \/ api[cur].key \in {None, loc.key}
        \/ key[api[cur].key] = "gone"
NetInHand ==
    pc # "idle" /\ fresh =>
        \/ api[cur].net \in {None, loc.net}
        \/ net[api[cur].net] = "gone"

(* A network id, cached or in the hands of a pass, is void or belongs to a *)
(* routing peer that still exists.                                         *)
NetIds ==
    /\ \A p \in Peers : cache[p].net # None =>
         \/ net[cache[p].net] = "gone"
         \/ api[p].net = cache[p].net /\ api[p].phase # "gone"
    /\ pc # "idle" /\ loc.net # None =>
         net[loc.net] = "gone" \/ api[cur].phase # "gone"

(* While no pass was lost, every network is in a status or in the running  *)
(* pass's hands.                                                           *)
NetTracked ==
    lapses = 0 => \A n \in LiveNets :
        loc.net = n \/ \E p \in Peers : api[p].phase # "gone" /\ api[p].net = n

(* An OZGroup comes with its finalizer, is bound once and released once:   *)
(* what a copy shows of it, however old, still holds.                      *)
CopyOf(c, g) ==
    /\ c.state = "none" => ~c.fin
    /\ c.state # "none" => g.state # "none"
    /\ c.state = "bound" => g.state = "bound"
    /\ c.state # "none" /\ ~c.fin => ~g.fin
GroupCopies ==
    /\ \A p \in Peers : CopyOf(group[p], group[p]) /\ CopyOf(gcache[p], group[p])
    /\ pc \in HoldsGroup => CopyOf(gloc, group[cur])

(* A routing peer's Deployment, and its finalizer on the OZGroup, go       *)
(* before its own finalizer, unless the informers did not show them.       *)
OwnedReleased ==
    /\ \A p \in Peers : api[p].phase = "gone" /\ p \notin missed =>
         p \notin dep /\ ~group[p].fin
    /\ fresh /\ cur \notin missed =>
         /\ pc \in DeletePcs \ {"delDeployment"} => cur \notin dep
         /\ pc \in HoldsGroup /\ gloc.state = "none" => group[cur].state = "none"
         /\ pc \in {"unexempt", "setUnexempt", "dropFin"} => ~group[cur].fin

(* The group is on the exempt list only while a routing peer that can take *)
(* it off again exists: one that exists and whose informer copy is bound.  *)
CanUnexempt(p) == api[p].phase # "gone" /\ gcache[p].state = "bound"
ExemptOwned ==
    /\ Group \in exempt => \E p \in Peers : CanUnexempt(p)
    /\ \/ pc = "dropFin"
       \/ pc \in HoldsGroup /\ gloc.state # "bound"
       => (Group \in exempt => \E p \in Peers \ {cur} : CanUnexempt(p))
    /\ pc \in LivePcs \ {"network", "createNet", "group"} =>
         gcache[cur].state = "bound"

Inv == /\ TypeOK /\ Running /\ PassState /\ SingleNet /\ Phases /\ KeyInHand
       /\ NetInHand /\ NetIds /\ NetTracked /\ GroupCopies /\ OwnedReleased
       /\ ExemptOwned
-----------------------------------------------------------------------------
(* Types.                                                                  *)

(* The two object literals of the module are objects.                      *)
LEMMA LiteralObjects == Absent \in Objects /\ Created \in Objects
  BY DEF Absent, Created, Objects

(* Writing a Boolean into a Boolean field keeps an object an object.       *)
LEMMA BooleanFields ==
  ASSUME NEW o \in Objects, NEW b \in BOOLEAN
  PROVE  /\ [o EXCEPT !.exempt = b] \in Objects
         /\ [o EXCEPT !.ready = b] \in Objects
         /\ [o EXCEPT !.key = None, !.ready = b] \in Objects
         /\ o.exempt \in BOOLEAN /\ o.ready \in BOOLEAN
  BY DEF Objects

(* So do a deletion and a status update.                                   *)
LEMMA DeletingType ==
  ASSUME NEW o \in Objects PROVE [o EXCEPT !.phase = "deleting"] \in Objects
  BY DEF Objects

LEMMA StatusType ==
  ASSUME NEW o \in Objects, NEW c \in Objects
  PROVE  [o EXCEPT !.net = c.net, !.key = c.key, !.router = c.router,
                   !.ready = c.ready] \in Objects
  BY DEF Objects

LEMMA ReleaseType ==
  ASSUME NEW o \in GroupObjects PROVE [o EXCEPT !.fin = FALSE] \in GroupObjects
  BY DEF GroupObjects

(* The initial state has the right types.                                  *)
LEMMA InitType == Init => TypeOK
  <1> SUFFICES ASSUME Init PROVE TypeOK
    OBVIOUS
  <1> USE DEF Init
  <1>1. api \in [Peers -> Objects] /\ cache \in [Peers -> Objects] /\ loc \in Objects
    BY LiteralObjects
  <1>2. group \in [Peers -> GroupObjects] /\ gcache \in [Peers -> GroupObjects]
        /\ gloc \in GroupObjects
    BY DEF GroupObjects, NoGroup
  <1>3. secret \in [Peers -> Keys \cup {None}] /\ scache \in [Peers -> Keys \cup {None}]
    OBVIOUS
  <1>4. res \in [AllResources -> ResStates] /\ rcache \in [AllResources -> ResStates]
    BY DEF ResStates
  <1>5. /\ net \in [Nets -> {"unused", "live", "gone"}]
        /\ router \in [Nets -> {"none", "ok", "changed"}]
        /\ key \in [Keys -> {"unused", "valid", "revoked", "gone"}]
    OBVIOUS
  <1>6. /\ synced \subseteq Peers /\ dep \subseteq Peers /\ dcache \subseteq Peers
        /\ missed \subseteq Peers /\ todo \subseteq AllResources
        /\ exempt \subseteq Manual \cup {Group} /\ acct \subseteq Manual \cup {Group}
        /\ pc \in Pcs /\ cur \in Peers \cup {None} /\ fresh \in BOOLEAN
    BY DEF Pcs
  <1>7. lapses \in Nat /\ fails \in 0..MaxFaults /\ events \in 0..MaxEvents
    OBVIOUS
  <1> QED
    BY <1>1, <1>2, <1>3, <1>4, <1>5, <1>6, <1>7 DEF TypeOK

(* A pass that fails goes on with an object, to the status update.         *)
LEMMA FailedType ==
  ASSUME TypeOK, Failed
  PROVE  loc' \in Objects /\ pc' = "save" /\ UNCHANGED <<cur, fresh, acct, gloc, todo>>
  <1>1. PICK r \in {FALSE, loc.ready} : With([loc EXCEPT !.ready = r], "save")
    BY DEF Failed
  <1>2. r \in BOOLEAN
    BY DEF TypeOK, Objects
  <1> QED
    BY <1>1, <1>2 DEF With, TypeOK, Objects

(* A user's write of an object keeps the types.                            *)
LEMMA UserWritesType ==
  ASSUME TypeOK, NEW p \in Peers, NEW o \in Objects, UserWrites(p, o)
  PROVE  TypeOK'
  <1>1. events' \in 0..MaxEvents
    BY DEF UserWrites, Event, TypeOK
  <1> QED
    BY <1>1 DEF UserWrites, Event, TypeOK, upstream

(* Every step leaves a running pass its routing peer.                      *)
LEMMA StepRunning == Running /\ [Next]_vars => Running'
  <1> SUFFICES ASSUME Running, [Next]_vars PROVE Running'
    OBVIOUS
  <1> USE DEF Running, EndPass, Goto, With, Failed, pass, Event
  <1>1. CASE \E p \in Peers : Start(p)
    BY <1>1 DEF Start
  <1>2. CASE Work
    BY <1>2 DEF Work, ListNetworks, CreateNetwork, HandleGroup, CreateKey, WriteSecret,
       CheckKey, CheckSecret, DeleteBadKey, HandleRouter, ReadExempt,
       UpdateExempt, HandleDeployment, SaveStatus, DeleteDeployment,
       DeleteKey, ReadGroup, ListResources, DeleteResources, DeleteNetwork,
       ReleaseGroup, ReadUnexempt, UpdateUnexempt, DropFinalizer
  <1>3. CASE Fail \/ Abort
    BY <1>3 DEF Fail, Abort
  <1>4. CASE Delivery
    BY <1>4 DEF Delivery, CacheSync, SecretSync, GroupSync, DeploymentSync,
       ResourceSync, GroupBinds, ResourceGone
  <1>5. CASE Environment
    BY <1>5 DEF Environment, UserDelete, UserToggles, UserWrites,
       UserDeletesSecret, ServiceExposes, ResourceDeleted, AdminChangesKey,
       AdminChangesRouter, AdminEditsAccount
  <1>6. CASE Done \/ UNCHANGED vars
    BY <1>6 DEF Done, vars
  <1> QED
    BY <1>1, <1>2, <1>3, <1>4, <1>5, <1>6 DEF Next

(* Every step keeps the types.                                             *)
LEMMA StepType == TypeOK /\ Running /\ [Next]_vars => TypeOK'
  <1> SUFFICES ASSUME TypeOK, Running, [Next]_vars PROVE TypeOK'
    OBVIOUS
  <1> USE LiteralObjects
      DEF EndPass, Goto, With, objects, owned, cluster, upstream, pass, bounds
  <1>1. CASE \E p \in Peers : Start(p)
    BY <1>1 DEF Start, TypeOK, Pcs
  <1>2. CASE ListNetworks \/ CreateNetwork
    <2>1. net' \in [Nets -> {"unused", "live", "gone"}]
      BY <1>2 DEF ListNetworks, CreateNetwork, TypeOK
    <2>2. \/ \E n \in Nets : With([loc EXCEPT !.net = n], "group")
          \/ Goto("createNet")
      BY <1>2 DEF ListNetworks, CreateNetwork, LiveNets
    <2>3. /\ loc' \in Objects /\ pc' \in Pcs
          /\ UNCHANGED <<cur, fresh, acct, gloc, todo>>
      BY <2>2 DEF TypeOK, Objects, Pcs
    <2> QED
      BY <1>2, <2>1, <2>3 DEF ListNetworks, CreateNetwork, TypeOK
  <1>3. CASE HandleGroup
    <2>1. [state |-> "new", fin |-> TRUE] \in GroupObjects
      BY DEF GroupObjects
    <2>2. group' \in [Peers -> GroupObjects]
      BY <1>3, <2>1 DEF HandleGroup, TypeOK
    <2>3. /\ loc' \in Objects /\ pc' \in Pcs
          /\ UNCHANGED <<cur, fresh, acct, gloc, todo>>
      BY <1>3, FailedType DEF HandleGroup, TypeOK, Pcs
    <2> QED
      BY <1>3, <2>2, <2>3 DEF HandleGroup, TypeOK
  <1>4. CASE CreateKey
    <2>1. /\ loc' \in Objects
          /\ key' \in [Keys -> {"unused", "valid", "revoked", "gone"}]
      BY <1>4 DEF CreateKey, TypeOK, Objects
    <2> QED
      BY <1>4, <2>1 DEF CreateKey, TypeOK, Pcs
  <1>5. CASE WriteSecret
    <2>1. /\ loc' \in Objects /\ pc' \in {"save", "router"}
          /\ UNCHANGED <<cur, fresh, acct, gloc, todo>>
      BY <1>5, FailedType DEF WriteSecret, TypeOK
    <2>2. secret' \in [Peers -> Keys \cup {None}]
      BY <1>5 DEF WriteSecret, TypeOK, Objects
    <2>3. fails' \in 0..MaxFaults
      BY <1>5 DEF WriteSecret, Faulty, TypeOK
    <2> QED
      BY <1>5, <2>1, <2>2, <2>3 DEF WriteSecret, TypeOK, Pcs
  <1>6. CASE CheckKey
    <2>1. loc' \in Objects /\ pc' \in Pcs /\ UNCHANGED <<cur, fresh, acct, gloc, todo>>
      BY <1>6 DEF CheckKey, TypeOK, Objects, Pcs
    <2> QED
      BY <1>6, <2>1 DEF CheckKey, TypeOK
  <1>7. CASE CheckSecret
    <2>1. fails' \in 0..MaxFaults
      BY <1>7 DEF CheckSecret, Faulty, TypeOK
    <2> QED
      BY <1>7, <2>1 DEF CheckSecret, TypeOK, Pcs
  <1>8. CASE DeleteBadKey
    <2>1. /\ loc' \in Objects /\ pc' \in Pcs /\ UNCHANGED <<cur, fresh, acct, gloc, todo>>
      <3>1. CASE key[loc.key] = "gone"
        BY <1>8, <3>1, FailedType DEF DeleteBadKey, Pcs
      <3>2. CASE key[loc.key] # "gone"
        <4>1. (loc.ready /\ pc = "revoked") \in BOOLEAN
          OBVIOUS
        <4>2. [loc EXCEPT !.key = None, !.ready = (@ /\ pc = "revoked")] \in Objects
          BY <4>1, BooleanFields DEF TypeOK
        <4> QED
          BY <1>8, <3>2, <4>2 DEF DeleteBadKey, Pcs
      <3> QED
        BY <3>1, <3>2
    <2>2. key' \in [Keys -> {"unused", "valid", "revoked", "gone"}]
      BY <1>8 DEF DeleteBadKey, TypeOK
    <2> QED
      BY <1>8, <2>1, <2>2 DEF DeleteBadKey, TypeOK
  <1>9. CASE HandleRouter
    <2>1. /\ loc' \in Objects /\ pc' \in Pcs /\ UNCHANGED <<cur, fresh, acct, gloc, todo>>
      BY <1>9, FailedType DEF HandleRouter, TypeOK, Objects, Pcs
    <2>2. router' \in [Nets -> {"none", "ok", "changed"}]
      BY <1>9 DEF HandleRouter, TypeOK
    <2> QED
      BY <1>9, <2>1, <2>2 DEF HandleRouter, TypeOK
  <1>10. CASE ReadExempt \/ UpdateExempt
    BY <1>10 DEF ReadExempt, UpdateExempt, TypeOK, Pcs
  <1>11. CASE HandleDeployment
    <2>1. loc' \in Objects /\ pc' = "save" /\ UNCHANGED <<cur, fresh, acct, gloc, todo>>
      <3>1. CASE cur \in dep \ dcache
        BY <1>11, <3>1, FailedType DEF HandleDeployment
      <3>2. CASE cur \notin dep \ dcache
        <4>1. [loc EXCEPT !.ready = TRUE] \in Objects
          BY BooleanFields DEF TypeOK
        <4> QED
          BY <1>11, <3>2, <4>1 DEF HandleDeployment
      <3> QED
        BY <3>1, <3>2
    <2>2. dep' \subseteq Peers
      BY <1>11 DEF HandleDeployment, TypeOK, Running
    <2> QED
      BY <1>11, <2>1, <2>2 DEF HandleDeployment, TypeOK, Pcs
  <1>12. CASE SaveStatus
    <2> DEFINE o == [api[cur] EXCEPT !.net = loc.net, !.key = loc.key,
                            !.router = loc.router, !.ready = loc.ready]
    <2>0. o \in Objects
      BY <1>12, StatusType DEF SaveStatus, Running, TypeOK
    <2>1. api' \in [Peers -> Objects]
      <3>1. api' = [api EXCEPT ![cur] = o] \/ api' = api
        BY <1>12 DEF SaveStatus
      <3> HIDE DEF o
      <3> QED
        BY <2>0, <3>1 DEF TypeOK
    <2>2. lapses' \in Nat
      BY <1>12 DEF SaveStatus, TypeOK
    <2>3. NoGroup \in GroupObjects
      BY DEF NoGroup, GroupObjects
    <2> QED
      BY <1>12, <2>1, <2>2, <2>3 DEF SaveStatus, TypeOK, Pcs
  <1>13. CASE DeleteDeployment \/ ReadUnexempt \/ UpdateUnexempt \/ DropFinalizer
    <2>1. CASE DeleteDeployment
      <3>1. /\ loc' \in Objects /\ pc' \in Pcs
            /\ UNCHANGED <<cur, fresh, acct, gloc, todo>>
        BY <2>1, FailedType DEF DeleteDeployment, TypeOK, Pcs
      <3>2. dep' \subseteq Peers /\ missed' \subseteq Peers
        BY <2>1 DEF DeleteDeployment, TypeOK
      <3> QED
        BY <2>1, <3>1, <3>2 DEF DeleteDeployment, TypeOK
    <2>2. CASE ReadUnexempt
      BY <2>2 DEF ReadUnexempt, AfterExempt, TypeOK, Pcs
    <2>3. CASE UpdateUnexempt
      BY <2>3 DEF UpdateUnexempt, AfterExempt, TypeOK, Pcs
    <2>4. CASE DropFinalizer
      <3>1. NoGroup \in GroupObjects
        BY DEF NoGroup, GroupObjects
      <3> QED
        BY <2>4, <3>1 DEF DropFinalizer, TypeOK, Pcs
    <2> QED
      BY <1>13, <2>1, <2>2, <2>3, <2>4
  <1>14. CASE DeleteKey
    <2>1. /\ loc' \in Objects
          /\ key' \in [Keys -> {"unused", "valid", "revoked", "gone"}]
      BY <1>14 DEF DeleteKey, ReadGroup, TypeOK, Objects
    <2>2. gloc' \in GroupObjects /\ missed' \subseteq Peers
      BY <1>14 DEF DeleteKey, ReadGroup, TypeOK, Running
    <2> QED
      BY <1>14, <2>1, <2>2 DEF DeleteKey, ReadGroup, TypeOK, Pcs
  <1>15. CASE ListResources
    BY <1>15 DEF ListResources, Listed, TypeOK, Pcs
  <1>32. CASE DeleteResources
    <2>1. res' \in [AllResources -> ResStates]
      BY <1>32 DEF DeleteResources, TypeOK, ResStates
    <2>2. /\ loc' \in Objects /\ pc' \in Pcs /\ todo' \subseteq AllResources
          /\ UNCHANGED <<cur, fresh, acct, gloc>>
      BY <1>32, FailedType DEF DeleteResources, TypeOK, Pcs
    <2> QED
      BY <1>32, <2>1, <2>2 DEF DeleteResources, TypeOK
  <1>16. CASE DeleteNetwork
    <2>1. loc' \in Objects
      BY <1>16 DEF DeleteNetwork, TypeOK, Objects
    <2>2. /\ net' \in [Nets -> {"unused", "live", "gone"}]
          /\ router' \in [Nets -> {"none", "ok", "changed"}]
      BY <1>16 DEF DeleteNetwork, TypeOK
    <2> QED
      BY <1>16, <2>1, <2>2 DEF DeleteNetwork, TypeOK, Pcs
  <1>17. CASE ReleaseGroup
    <2>1. group' \in [Peers -> GroupObjects]
      <3>1. [group[cur] EXCEPT !.fin = FALSE] \in GroupObjects
        BY <1>17, ReleaseType DEF ReleaseGroup, Running, TypeOK
      <3> QED
        BY <1>17, <3>1 DEF ReleaseGroup, TypeOK
    <2>2. /\ loc' \in Objects /\ pc' \in Pcs
          /\ UNCHANGED <<cur, fresh, acct, gloc, todo>>
      BY <1>17, FailedType DEF ReleaseGroup, AfterGroup, AfterExempt, TypeOK, Pcs
    <2> QED
      BY <1>17, <2>1, <2>2 DEF ReleaseGroup, TypeOK
  <1>18. CASE Fail
    <2>1. fails' \in 0..MaxFaults
      BY <1>18 DEF Fail, Faulty, TypeOK
    <2> QED
      BY <1>18, <2>1, FailedType DEF Fail, TypeOK, Pcs
  <1>19. CASE Abort
    <2>1. lapses' \in Nat
      BY <1>19 DEF Abort, TypeOK
    <2>2. NoGroup \in GroupObjects
      BY DEF NoGroup, GroupObjects
    <2> QED
      BY <1>19, <2>1, <2>2 DEF Abort, TypeOK, Pcs
  <1>20. ASSUME NEW p \in Peers, CacheSync(p) \/ SecretSync(p) \/ GroupSync(p)
         PROVE  TypeOK'
    BY <1>20 DEF CacheSync, SecretSync, GroupSync, TypeOK
  <1>33. CASE DeploymentSync \/ ResourceSync
    BY <1>33 DEF DeploymentSync, ResourceSync, TypeOK
  <1>21. ASSUME NEW p \in Peers, GroupBinds(p) PROVE TypeOK'
    <2>1. group' \in [Peers -> GroupObjects]
      BY <1>21 DEF GroupBinds, TypeOK, GroupObjects
    <2> QED
      BY <1>21, <2>1 DEF GroupBinds, TypeOK
  <1>22. ASSUME NEW r \in AllResources, ResourceGone(r) PROVE TypeOK'
    <2>1. res' \in [AllResources -> ResStates]
      BY <1>22 DEF ResourceGone, TypeOK, ResStates
    <2> QED
      BY <1>22, <2>1 DEF ResourceGone, TypeOK
  <1>23. ASSUME Event PROVE events' \in 0..MaxEvents
    BY <1>23 DEF Event, TypeOK
  <1>24. ASSUME NEW p \in Peers, NEW r \in Resources, ServiceExposes(p, r)
         PROVE  TypeOK'
    <2>1. res' \in [AllResources -> ResStates]
      BY <1>24 DEF ServiceExposes, TypeOK, ResStates, Objects, AllResources
    <2> QED
      BY <1>23, <1>24, <2>1 DEF ServiceExposes, Event, TypeOK
  <1>25. ASSUME NEW r \in AllResources, ResourceDeleted(r) PROVE TypeOK'
    <2>1. res' \in [AllResources -> ResStates]
      BY <1>25 DEF ResourceDeleted, TypeOK, ResStates
    <2> QED
      BY <1>23, <1>25, <2>1 DEF ResourceDeleted, Event, TypeOK
  <1>26. ASSUME NEW p \in Peers, UserDelete(p) \/ UserToggles(p) PROVE TypeOK'
    <2>1. [api[p] EXCEPT !.phase = "deleting"] \in Objects
      BY DeletingType DEF TypeOK
    <2>2. (~api[p].exempt) \in BOOLEAN
      OBVIOUS
    <2>3. [api[p] EXCEPT !.exempt = ~@] \in Objects
      BY <2>2, BooleanFields DEF TypeOK
    <2> QED
      BY <1>26, <2>1, <2>3, UserWritesType DEF UserDelete, UserToggles
  <1>27. ASSUME NEW p \in Peers, UserDeletesSecret(p) PROVE TypeOK'
    BY <1>23, <1>27 DEF UserDeletesSecret, Event, TypeOK
  <1>28. ASSUME NEW k \in Keys, NEW s \in {"revoked", "gone"},
                AdminChangesKey(k, s)
         PROVE  TypeOK'
    BY <1>23, <1>28 DEF AdminChangesKey, Event, TypeOK
  <1>29. ASSUME NEW n \in Nets, NEW s \in {"none", "changed"},
                AdminChangesRouter(n, s)
         PROVE  TypeOK'
    BY <1>23, <1>29 DEF AdminChangesRouter, Event, TypeOK
  <1>30. ASSUME NEW m \in Manual, AdminEditsAccount(m) PROVE TypeOK'
    BY <1>23, <1>30 DEF AdminEditsAccount, Event, TypeOK
  <1>31. CASE Done \/ UNCHANGED vars
    BY <1>31 DEF Done, vars, TypeOK
  <1> QED
    BY <1>1, <1>2, <1>3, <1>4, <1>5, <1>6, <1>7, <1>8, <1>9, <1>10, <1>11,
       <1>12, <1>13, <1>14, <1>15, <1>16, <1>17, <1>18, <1>19, <1>20, <1>21,
       <1>22, <1>24, <1>25, <1>26, <1>27, <1>28, <1>29, <1>30, <1>31, <1>32,
       <1>33
    DEF Next, Work, Delivery, Environment

(* Type correctness of the OZRoutingPeer controller's passes and writes.   *)
THEOREM TypeCorrect == Spec => []TypeOK
  <1>1. Init => Running
    BY DEF Init, Running
  <1> QED
    BY <1>1, InitType, StepRunning, StepType, PTL DEF Spec

-----------------------------------------------------------------------------
(* Kinds of steps.                                                         *)

(* A call of the running pass other than the update that ends it.          *)
Call == \/ ListNetworks \/ CreateNetwork \/ HandleGroup \/ CreateKey
        \/ WriteSecret \/ CheckKey \/ CheckSecret \/ DeleteBadKey
        \/ HandleRouter \/ ReadExempt \/ UpdateExempt \/ HandleDeployment
        \/ DeleteDeployment \/ DeleteKey \/ ListResources \/ DeleteResources
        \/ DeleteNetwork \/ ReleaseGroup \/ ReadUnexempt \/ UpdateUnexempt
        \/ Fail

(* Steps of others that leave the OZRoutingPeers alone.                    *)
Outside == \/ \E p \in Peers : \/ SecretSync(p) \/ GroupSync(p) \/ GroupBinds(p)
                               \/ UserDeletesSecret(p)
                               \/ \E r \in Resources : ServiceExposes(p, r)
           \/ \E r \in AllResources : ResourceGone(r) \/ ResourceDeleted(r)
           \/ \E k \in Keys, s \in {"revoked", "gone"} : AdminChangesKey(k, s)
           \/ \E n \in Nets, s \in {"none", "changed"} : AdminChangesRouter(n, s)
           \/ \E m \in Manual : AdminEditsAccount(m)
           \/ DeploymentSync \/ ResourceSync \/ Done \/ UNCHANGED vars

LEMMA StepKinds ==
  ASSUME [Next]_vars
  PROVE  \/ \E p \in Peers : Start(p)
         \/ Call \/ SaveStatus \/ DropFinalizer \/ Abort
         \/ \E p \in Peers : CacheSync(p) \/ UserDelete(p) \/ UserToggles(p)
         \/ Outside
  BY DEF Next, Work, Delivery, Environment, Call, Outside

LEMMA OutsideKeeps ==
  ASSUME Outside
  PROVE  UNCHANGED <<objects, pass, dep, net, lapses, missed>>
  BY DEF Outside, SecretSync, GroupSync,
     DeploymentSync, ResourceSync, GroupBinds, UserDeletesSecret, ServiceExposes,
     ResourceGone, ResourceDeleted, AdminChangesKey, AdminChangesRouter,
     AdminEditsAccount, Done, Event, vars, objects, owned, cluster, upstream,
     pass, bounds

(* A pass that fails keeps the ids it has collected.                       *)
LEMMA FailedKeeps ==
  ASSUME TypeOK, Failed
  PROVE  /\ loc'.net = loc.net /\ loc'.key = loc.key /\ pc' = "save"
         /\ UNCHANGED <<cur, fresh, acct, gloc, todo>>
  BY DEF Failed, With, TypeOK, Objects

(* A call leaves the OZRoutingPeers alone; a pass of a live copy makes     *)
(* only the calls of reconciliation, one of a deleting copy only those of  *)
(* handleDelete, and both may end in the status update.                    *)
LEMMA CallKeeps ==
  ASSUME TypeOK, Call
  PROVE  /\ UNCHANGED <<objects, cur, fresh, lapses>>
         /\ pc # "idle" /\ pc' # "idle"
         /\ pc' \in LivePcs => pc \in LivePcs
         /\ pc' \in DeletePcs => pc \in DeletePcs
  <1> USE DEF objects, bounds, LivePcs, DeletePcs, Goto, With
  <1>1. CASE ListNetworks \/ CreateNetwork \/ CreateKey
    BY <1>1 DEF ListNetworks, CreateNetwork, CreateKey
  <1>2. CASE HandleGroup \/ WriteSecret
    BY <1>2, FailedKeeps DEF HandleGroup, WriteSecret
  <1>3. CASE CheckKey \/ CheckSecret
    BY <1>3 DEF CheckKey, CheckSecret
  <1>4. CASE DeleteBadKey
    BY <1>4, FailedKeeps DEF DeleteBadKey
  <1>5. CASE HandleRouter
    BY <1>5, FailedKeeps DEF HandleRouter
  <1>6. CASE ReadExempt \/ UpdateExempt \/ HandleDeployment
    BY <1>6, FailedKeeps DEF ReadExempt, UpdateExempt, HandleDeployment
  <1>7. CASE \/ DeleteDeployment \/ DeleteKey \/ ListResources \/ DeleteResources
             \/ DeleteNetwork
    BY <1>7, FailedKeeps DEF DeleteDeployment, DeleteKey, ReadGroup, ListResources,
       DeleteResources, DeleteNetwork
  <1>8. CASE ReleaseGroup \/ ReadUnexempt \/ UpdateUnexempt
    BY <1>8, FailedKeeps DEF ReleaseGroup, ReadUnexempt, UpdateUnexempt, AfterGroup,
       AfterExempt
  <1>9. CASE Fail
    BY <1>9, FailedKeeps DEF Fail
  <1> QED
    BY <1>1, <1>2, <1>3, <1>4, <1>5, <1>6, <1>7, <1>8, <1>9 DEF Call

(* What the status update writes.                                          *)
LEMMA SaveWrites ==
  ASSUME TypeOK, Running, SaveStatus, fresh
  PROVE  \E o \in Objects : /\ o.phase = api[cur].phase
                            /\ o.net = loc.net /\ o.key = loc.key
                            /\ api' = [api EXCEPT ![cur] = o]
  <1> DEFINE o == [api[cur] EXCEPT !.net = loc.net, !.key = loc.key,
                          !.router = loc.router, !.ready = loc.ready]
  <1>1. api[cur] \in Objects /\ loc \in Objects
    BY DEF TypeOK, Running, SaveStatus
  <1>2. o \in Objects
    BY <1>1, StatusType
  <1>3. o.phase = api[cur].phase /\ o.net = loc.net /\ o.key = loc.key
    BY <1>1 DEF Objects
  <1>4. api' = [api EXCEPT ![cur] = o]
    BY DEF SaveStatus
  <1> QED
    BY <1>2, <1>3, <1>4

(* What a user's write does.                                               *)
LEMMA UserKeeps ==
  ASSUME TypeOK, NEW p \in Peers, UserDelete(p) \/ UserToggles(p)
  PROVE  /\ \E o \in Objects : /\ o.phase # "gone"
                               /\ o.net = api[p].net /\ o.key = api[p].key
                               /\ api' = [api EXCEPT ![p] = o]
         /\ api[p].phase = "live"
         /\ synced' = synced \ {p}
         /\ fresh' = (fresh /\ p # cur)
         /\ UNCHANGED <<cache, pc, cur, loc, gloc, owned, res, upstream, lapses,
                         missed>>
  <1>1. CASE UserDelete(p)
    <2> DEFINE o == [api[p] EXCEPT !.phase = "deleting"]
    <2>1. o \in Objects /\ o.phase # "gone" /\ o.net = api[p].net /\ o.key = api[p].key
      BY DeletingType DEF TypeOK, Objects
    <2>2. api' = [api EXCEPT ![p] = o]
      BY <1>1 DEF UserDelete, UserWrites
    <2> QED
      BY <1>1, <2>1, <2>2 DEF UserDelete, UserWrites, Event, owned
  <1>2. CASE UserToggles(p)
    <2> DEFINE b == ~api[p].exempt
    <2> DEFINE o == [api[p] EXCEPT !.exempt = b]
    <2>1. b \in BOOLEAN /\ api[p] \in Objects /\ api[p].phase = "live"
      BY <1>2 DEF TypeOK, UserToggles, UserWrites
    <2>2. o \in Objects
      BY <2>1, BooleanFields
    <2>3. o.phase # "gone" /\ o.net = api[p].net /\ o.key = api[p].key
      BY <2>1 DEF Objects
    <2>4. api' = [api EXCEPT ![p] = o]
      BY <1>2 DEF UserToggles, UserWrites
    <2> QED
      BY <1>2, <2>2, <2>3, <2>4 DEF UserToggles, UserWrites, Event, owned
  <1> QED
    BY <1>1, <1>2

-----------------------------------------------------------------------------
(* The steps of the inductive invariant.                                   *)

(* What is gone upstream does not come back under its id.                  *)
LEMMA GoneStays ==
  ASSUME TypeOK, [Next]_vars
  PROVE  /\ \A k \in Keys : key[k] = "gone" => key'[k] = "gone"
         /\ \A n \in Nets : net[n] = "gone" => net'[n] = "gone"
  <1> USE DEF TypeOK, upstream
  <1>1. CASE Call
    BY <1>1 DEF Call, ListNetworks, CreateNetwork, HandleGroup, CreateKey, WriteSecret,
       CheckKey, CheckSecret, DeleteBadKey, HandleRouter, ReadExempt,
       UpdateExempt, HandleDeployment, DeleteDeployment, DeleteKey,
       ListResources, DeleteResources, DeleteNetwork, ReleaseGroup, ReadUnexempt,
       UpdateUnexempt, Fail, Next1
  <1>2. CASE Outside
    BY <1>2 DEF Outside, SecretSync, GroupSync,
     DeploymentSync, ResourceSync, GroupBinds, UserDeletesSecret,
       ServiceExposes, ResourceGone, ResourceDeleted, AdminChangesKey,
       AdminChangesRouter, AdminEditsAccount, Done, vars
  <1>3. CASE \/ (\E p \in Peers : Start(p)) \/ SaveStatus \/ DropFinalizer \/ Abort
             \/ \E p \in Peers : CacheSync(p) \/ UserDelete(p) \/ UserToggles(p)
    BY <1>3 DEF Start, SaveStatus, DropFinalizer, Abort, CacheSync,
       UserDelete, UserToggles, UserWrites
  <1> QED
    BY <1>1, <1>2, <1>3, StepKinds

(* What a pass knows of its routing peer.                                  *)
LEMMA StepPass ==
  ASSUME TypeOK, PassState, [Next]_vars PROVE PassState'
  <1> USE DEF TypeOK, PassState, DeletePcs
  <1>abs. Absent.net = None /\ Absent.key = None
    BY DEF Absent, Created
  <1>1. CASE \E p \in Peers : Start(p)
    BY <1>1 DEF Start
  <1>2. CASE ListNetworks \/ CreateNetwork \/ CreateKey
    BY <1>2 DEF ListNetworks, CreateNetwork, CreateKey, Goto, With
  <1>3. CASE HandleGroup \/ WriteSecret
    BY <1>3, FailedKeeps DEF HandleGroup, WriteSecret, Goto
  <1>4. CASE CheckKey \/ CheckSecret
    BY <1>4 DEF CheckKey, CheckSecret, Goto, With
  <1>5. CASE DeleteBadKey
    BY <1>5, FailedKeeps DEF DeleteBadKey, With
  <1>6. CASE HandleRouter
    BY <1>6, FailedKeeps DEF HandleRouter, With
  <1>7. CASE ReadExempt \/ UpdateExempt \/ HandleDeployment
    BY <1>7, FailedKeeps DEF ReadExempt, UpdateExempt, HandleDeployment, Goto, With
  <1>8. CASE DeleteDeployment \/ ListResources \/ DeleteResources
    BY <1>8, FailedKeeps DEF DeleteDeployment, ListResources, DeleteResources, Goto
  <1>9. CASE DeleteKey
    BY <1>9 DEF DeleteKey, ReadGroup, Objects
  <1>10. CASE DeleteNetwork
    BY <1>10 DEF DeleteNetwork, With, Objects
  <1>11. CASE ReleaseGroup \/ ReadUnexempt \/ UpdateUnexempt
    BY <1>11, FailedKeeps DEF ReleaseGroup, ReadUnexempt, UpdateUnexempt, AfterGroup,
       AfterExempt, Goto
  <1>12. CASE Fail
    BY <1>12, FailedKeeps DEF Fail
  <1>13. CASE SaveStatus \/ DropFinalizer \/ Abort
    BY <1>abs, <1>13 DEF SaveStatus, DropFinalizer, Abort, EndPass
  <1>14. CASE \E p \in Peers : CacheSync(p)
    BY <1>14 DEF CacheSync, pass
  <1>15. CASE \E p \in Peers : UserDelete(p) \/ UserToggles(p)
    BY <1>15, UserKeeps
  <1>16. CASE Outside
    BY <1>16, OutsideKeeps DEF pass
  <1> QED
    BY <1>1, <1>2, <1>3, <1>4, <1>5, <1>6, <1>7, <1>8, <1>9, <1>10, <1>11,
       <1>12, <1>13, <1>14, <1>15, <1>16, StepKinds DEF Call

(* Only CreateNetwork creates a network, and only after a list that showed *)
(* none; no other step of the pass comes between the two.                  *)
LEMMA StepSingleNet ==
  ASSUME TypeOK, SingleNet, [Next]_vars PROVE SingleNet'
  <1> USE DEF TypeOK, SingleNet, LiveNets, upstream
  <1>1. CASE ListNetworks
    BY <1>1 DEF ListNetworks, Goto, With
  <1>2. CASE CreateNetwork
    BY <1>2 DEF CreateNetwork, With
  <1>3. CASE DeleteNetwork
    BY <1>3 DEF DeleteNetwork, With
  <1>4. CASE net' = net /\ (pc' = "createNet" => pc = "createNet")
    BY <1>4
  <1> QED
    <2>1. CASE Call
      <3>1. CASE HandleGroup \/ WriteSecret \/ HandleDeployment
        BY <3>1, <1>4, FailedKeeps DEF HandleGroup, WriteSecret, HandleDeployment,
           Goto, With
      <3>2. CASE CreateKey \/ CheckKey \/ CheckSecret \/ ReadExempt \/ UpdateExempt
        BY <3>2, <1>4 DEF CreateKey, CheckKey, CheckSecret, ReadExempt, UpdateExempt,
           Goto, With
      <3>3. CASE DeleteBadKey \/ HandleRouter \/ Fail
        BY <3>3, <1>4, FailedKeeps DEF DeleteBadKey, HandleRouter, Fail, With
      <3>4. CASE DeleteDeployment \/ DeleteKey \/ ListResources \/ DeleteResources
        BY <3>4, <1>4, FailedKeeps DEF DeleteDeployment, DeleteKey, ReadGroup,
           ListResources, DeleteResources, Goto
      <3>5. CASE ReleaseGroup \/ ReadUnexempt \/ UpdateUnexempt
        BY <3>5, <1>4, FailedKeeps DEF ReleaseGroup, ReadUnexempt, UpdateUnexempt,
           AfterGroup, AfterExempt, Goto
      <3> QED
        BY <2>1, <1>1, <1>2, <1>3, <3>1, <3>2, <3>3, <3>4, <3>5 DEF Call
    <2>2. CASE Outside
      BY <2>2, <1>4, OutsideKeeps DEF pass
    <2>3. CASE \/ (\E p \in Peers : Start(p)) \/ SaveStatus \/ DropFinalizer \/ Abort
               \/ \E p \in Peers : CacheSync(p) \/ UserDelete(p) \/ UserToggles(p)
      BY <2>3, <1>4 DEF Start, SaveStatus, DropFinalizer, Abort, CacheSync,
         UserDelete, UserToggles, UserWrites, Event, EndPass, pass
    <2> QED
      BY <2>1, <2>2, <2>3, StepKinds

(* Phases only move on, and caches follow them.                            *)
LEMMA StepPhases ==
  ASSUME TypeOK, Running, PassState, Phases, [Next]_vars PROVE Phases'
  <1> USE DEF TypeOK, Running, PassState, Phases
  <1>abs. Absent.phase = "gone"
    BY DEF Absent, Created
  <1>1. CASE \E p \in Peers : Start(p)
    <2> PICK p \in Peers : Start(p)
      BY <1>1
    <2>1. cache[p].phase \in {"live", "deleting"} /\ UNCHANGED objects
      BY DEF Start, Objects
    <2>2. /\ cur' = p /\ pc' # "idle" /\ fresh' = (p \in synced)
          /\ pc' \in LivePcs => cache[p].phase = "live"
          /\ pc' \in DeletePcs => cache[p].phase = "deleting"
      BY <2>1 DEF Start, LivePcs, DeletePcs
    <2>3. api[p].phase \in {"live", "deleting", "gone"}
      BY DEF Objects
    <2>4. cache[p].phase = "live" => api[p].phase # "gone"
      OBVIOUS
    <2> QED
      BY <2>1, <2>2, <2>3 DEF objects
  <1>2. CASE Call
    BY <1>2, CallKeeps DEF objects
  <1>3. CASE SaveStatus
    <2>1. pc' = "idle" /\ cache' = cache
      BY <1>3 DEF SaveStatus, EndPass
    <2>2. CASE fresh
      <3>1. PICK o \in Objects : /\ o.phase = api[cur].phase
                                /\ api' = [api EXCEPT ![cur] = o]
        BY <1>3, <2>2, SaveWrites
      <3>2. synced' = synced \ {cur} /\ cur \in Peers /\ o.phase # "gone"
        BY <1>3, <2>2, <3>1 DEF SaveStatus
      <3> QED
        BY <2>1, <3>1, <3>2 DEF LivePcs, DeletePcs
    <2>3. CASE ~fresh
      BY <1>3, <2>1, <2>3 DEF SaveStatus, LivePcs, DeletePcs
    <2> QED
      BY <2>2, <2>3
  <1>4. CASE DropFinalizer
    <2>1. pc' = "idle" /\ cache' = cache /\ cur \in Peers
      BY <1>4 DEF DropFinalizer, EndPass
    <2>2. cache[cur].phase # "live"
      BY <1>4 DEF DropFinalizer, DeletePcs
    <2>3. CASE fresh
      BY <1>4, <1>abs, <2>1, <2>2, <2>3 DEF DropFinalizer, LivePcs, DeletePcs
    <2>4. CASE ~fresh
      BY <1>4, <2>1, <2>4 DEF DropFinalizer, LivePcs, DeletePcs
    <2> QED
      BY <2>3, <2>4
  <1>5. CASE Abort
    BY <1>5 DEF Abort, EndPass, objects, LivePcs, DeletePcs
  <1>6. CASE \E p \in Peers : CacheSync(p)
    BY <1>6 DEF CacheSync, pass
  <1>7. CASE \E p \in Peers : UserDelete(p) \/ UserToggles(p)
    <2> PICK p \in Peers : UserDelete(p) \/ UserToggles(p)
      BY <1>7
    <2>1. PICK o \in Objects : o.phase # "gone" /\ api' = [api EXCEPT ![p] = o]
      BY UserKeeps
    <2>2. /\ api[p].phase = "live" /\ synced' = synced \ {p}
          /\ fresh' = (fresh /\ p # cur)
          /\ UNCHANGED <<cache, pc, cur>>
      BY UserKeeps
    <2> QED
      BY <2>1, <2>2
  <1>8. CASE Outside
    BY <1>8, OutsideKeeps DEF objects, pass
  <1> QED
    BY <1>1, <1>2, <1>3, <1>4, <1>5, <1>6, <1>7, <1>8, StepKinds

(* What a call does to the ids the pass has in hand: an id is kept, or it  *)
(* is void upstream, or there was none and a new one takes its place; and  *)
(* nothing is created upstream that is not in hand.                        *)
LEMMA CallIds ==
  ASSUME TypeOK, PassState, Call
  PROVE  /\ \/ loc'.key = loc.key
            \/ loc.key = None
            \/ key'[loc.key] = "gone"
         /\ \/ loc'.net = loc.net
            \/ loc.net = None /\ pc \in LivePcs
            \/ loc'.net = None /\ net'[loc.net] = "gone"
         /\ \A k \in Keys : Exists(k)' => Exists(k) \/ k = loc'.key
         /\ LiveNets' \subseteq LiveNets \cup {loc'.net}
  <1> USE DEF TypeOK, PassState, Objects, LivePcs, LiveNets, Exists, Goto, With,
              upstream
  <1>1. CASE ListNetworks \/ CreateNetwork
    BY <1>1 DEF ListNetworks, CreateNetwork
  <1>2. CASE CreateKey
    BY <1>2 DEF CreateKey
  <1>3. CASE WriteSecret
    BY <1>3, FailedKeeps DEF WriteSecret
  <1>4. CASE CheckKey
    BY <1>4 DEF CheckKey
  <1>5. CASE DeleteBadKey
    <2>1. CASE key[loc.key] = "gone"
      BY <1>5, <2>1, FailedKeeps DEF DeleteBadKey
    <2>2. CASE key[loc.key] # "gone"
      <3>1. loc'.key = None /\ loc'.net = loc.net
        BY <1>5, <2>2 DEF DeleteBadKey
      <3>2. key' = [key EXCEPT ![loc.key] = "gone"] /\ net' = net
        BY <1>5, <2>2 DEF DeleteBadKey
      <3> QED
        BY <3>1, <3>2
    <2> QED
      BY <2>1, <2>2
  <1>6. CASE HandleRouter
    BY <1>6, FailedKeeps DEF HandleRouter
  <1>7. CASE HandleDeployment
    BY <1>7, FailedKeeps DEF HandleDeployment
  <1>8. CASE DeleteKey
    <2>1. loc'.key = None /\ loc'.net = loc.net
      BY <1>8 DEF DeleteKey, ReadGroup
    <2>2. net' = net /\ key' = [k \in Keys |-> IF k = loc.key THEN "gone" ELSE key[k]]
      BY <1>8 DEF DeleteKey
    <2>3. loc.key \in Keys \cup {None}
      OBVIOUS
    <2> QED
      BY <2>1, <2>2, <2>3
  <1>9. CASE DeleteNetwork
    <2>1. loc'.key = loc.key /\ loc'.net = None
      BY <1>9 DEF DeleteNetwork
    <2>2. net' = [net EXCEPT ![loc.net] = "gone"] /\ key' = key
      BY <1>9 DEF DeleteNetwork
    <2>3. loc.net \in Nets \cup {None}
      OBVIOUS
    <2> QED
      BY <2>1, <2>2, <2>3
  <1>10. CASE \/ CheckSecret \/ ReadExempt \/ UpdateExempt \/ ListResources
              \/ ReadUnexempt \/ UpdateUnexempt
    BY <1>10 DEF CheckSecret, ReadExempt, UpdateExempt, ListResources, ReadUnexempt,
       UpdateUnexempt
  <1>12. CASE HandleGroup \/ DeleteDeployment \/ DeleteResources \/ ReleaseGroup
    BY <1>12, FailedKeeps DEF HandleGroup, DeleteDeployment, DeleteResources,
       ReleaseGroup
  <1>11. CASE Fail
    BY <1>11, FailedKeeps DEF Fail
  <1> QED
    BY <1>1, <1>2, <1>3, <1>4, <1>5, <1>6, <1>7, <1>8, <1>9, <1>10, <1>11, <1>12
    DEF Call

(* The ids in the hands of a pass that can save.                           *)
LEMMA StepInHand ==
  ASSUME TypeOK, Running, PassState, Phases, KeyInHand, NetInHand, [Next]_vars
  PROVE  KeyInHand' /\ NetInHand'
  <1> USE DEF Running, KeyInHand, NetInHand
  <1>t. \A p \in Peers : /\ api[p].key \in Keys \cup {None}
                         /\ api[p].net \in Nets \cup {None}
    BY DEF TypeOK, Objects
  <1>g. /\ \A k \in Keys : key[k] = "gone" => key'[k] = "gone"
        /\ \A n \in Nets : net[n] = "gone" => net'[n] = "gone"
    BY GoneStays
  <1>1. CASE \E p \in Peers : Start(p)
    BY <1>1 DEF Start, Phases, objects, TypeOK
  <1>2. CASE Call
    <2>1. UNCHANGED <<api, cur, fresh>> /\ pc # "idle"
      BY <1>2, CallKeeps DEF objects
    <2>2. /\ loc'.key = loc.key \/ loc.key = None \/ key'[loc.key] = "gone"
          /\ loc'.net = loc.net \/ loc.net = None \/ net'[loc.net] = "gone"
      BY <1>2, CallIds
    <2> QED
      BY <1>t, <1>g, <2>1, <2>2
  <1>3. CASE SaveStatus \/ DropFinalizer \/ Abort
    BY <1>3 DEF SaveStatus, DropFinalizer, Abort, EndPass
  <1>4. CASE \E p \in Peers : CacheSync(p)
    BY <1>4, <1>t, <1>g DEF CacheSync, pass
  <1>5. CASE \E p \in Peers : UserDelete(p) \/ UserToggles(p)
    <2> PICK p \in Peers : UserDelete(p) \/ UserToggles(p)
      BY <1>5
    <2>1. /\ \E o : api' = [api EXCEPT ![p] = o]
          /\ fresh' = (fresh /\ p # cur)
          /\ UNCHANGED <<pc, cur, loc>>
      BY UserKeeps
    <2>2. cur \in Peers /\ fresh' => api'[cur] = api[cur]
      BY <2>1 DEF TypeOK
    <2> QED
      BY <1>t, <1>g, <2>1, <2>2
  <1>6. CASE Outside
    BY <1>6, <1>t, <1>g, OutsideKeeps DEF objects, pass
  <1> QED
    BY <1>1, <1>2, <1>3, <1>4, <1>5, <1>6, StepKinds

(* Network ids that are not void belong to routing peers that exist.       *)
LEMMA StepNetIds ==
  ASSUME TypeOK, Running, PassState, Phases, NetInHand, NetIds, [Next]_vars
  PROVE  NetIds'
  <1> USE DEF Running, NetIds
  <1>t. /\ loc.net \in Nets \cup {None}
        /\ \A p \in Peers : cache[p].net \in Nets \cup {None}
    BY DEF TypeOK, Objects
  <1>g. \A n \in Nets : net[n] = "gone" => net'[n] = "gone"
    BY GoneStays
  <1>1. CASE \E p \in Peers : Start(p)
    BY <1>1, <1>t, <1>g DEF Start, objects
  <1>2. CASE Call
    <2>1. UNCHANGED <<api, cache, cur>> /\ pc # "idle"
      BY <1>2, CallKeeps DEF objects
    <2>2. \/ loc'.net = loc.net \/ loc'.net = None \/ pc \in LivePcs
      BY <1>2, CallIds
    <2>3. pc \in LivePcs => api[cur].phase # "gone"
      BY DEF Phases
    <2> QED
      BY <1>t, <1>g, <2>1, <2>2, <2>3
  <1>3. CASE SaveStatus
    <2>1. pc' = "idle" /\ cache' = cache /\ net' = net /\ pc # "idle"
      BY <1>3 DEF SaveStatus, EndPass, upstream
    <2>2. CASE fresh
      <3>1. PICK o \in Objects : /\ o.phase = api[cur].phase /\ o.net = loc.net
                                /\ api' = [api EXCEPT ![cur] = o]
        BY <1>3, <2>2, SaveWrites
      <3>2. cur \in Peers /\ api'[cur] = o
            /\ \A p \in Peers \ {cur} : api'[p] = api[p]
        BY <2>1, <3>1 DEF TypeOK
      <3>3. \/ api[cur].net = None \/ api[cur].net = loc.net
            \/ net[api[cur].net] = "gone"
        BY <2>1, <2>2 DEF NetInHand
      <3> QED
        BY <2>1, <3>1, <3>2, <3>3
    <2>3. CASE ~fresh
      BY <1>3, <2>1, <2>3 DEF SaveStatus
    <2> QED
      BY <2>2, <2>3
  <1>4. CASE DropFinalizer
    <2>1. pc' = "idle" /\ cache' = cache /\ net' = net /\ pc = "dropFin"
      BY <1>4 DEF DropFinalizer, EndPass, upstream
    <2>2. CASE fresh
      <3>1. cur \in Peers /\ \A p \in Peers \ {cur} : api'[p] = api[p]
        BY <1>4, <2>1, <2>2 DEF DropFinalizer, TypeOK
      <3>2. api[cur].net = None \/ net[api[cur].net] = "gone"
        BY <2>1, <2>2 DEF NetInHand, PassState
      <3> QED
        BY <2>1, <3>1, <3>2
    <2>3. CASE ~fresh
      BY <1>4, <2>1, <2>3 DEF DropFinalizer
    <2> QED
      BY <2>2, <2>3
  <1>5. CASE Abort
    BY <1>5 DEF Abort, EndPass, objects, upstream
  <1>6. CASE \E p \in Peers : CacheSync(p)
    <2> PICK p \in Peers : CacheSync(p)
      BY <1>6
    <2>1. /\ UNCHANGED <<api, pc, cur, loc, net>>
          /\ cache'[p] = api[p] /\ \A q \in Peers \ {p} : cache'[q] = cache[q]
      BY DEF CacheSync, TypeOK, pass, upstream
    <2>2. api[p].phase = "gone" => api[p].net = None
      BY DEF Phases, Absent, Created
    <2> QED
      BY <2>1, <2>2
  <1>7. CASE \E p \in Peers : UserDelete(p) \/ UserToggles(p)
    <2> PICK p \in Peers : UserDelete(p) \/ UserToggles(p)
      BY <1>7
    <2>1. PICK o \in Objects : /\ o.phase # "gone" /\ o.net = api[p].net
                              /\ api' = [api EXCEPT ![p] = o]
      BY UserKeeps
    <2>2. UNCHANGED <<cache, pc, cur, loc, net>>
      BY UserKeeps DEF upstream
    <2>3. api'[p] = o /\ \A q \in Peers \ {p} : api'[q] = api[q]
      BY <2>1 DEF TypeOK
    <2> QED
      BY <2>1, <2>2, <2>3
  <1>8. CASE Outside
    BY <1>8, OutsideKeeps DEF objects, pass
  <1> QED
    BY <1>1, <1>2, <1>3, <1>4, <1>5, <1>6, <1>7, <1>8, StepKinds

(* While no pass was lost, every network is accounted for.                 *)
LEMMA StepNetTracked ==
  ASSUME TypeOK, Running, PassState, Phases, NetInHand, NetTracked, [Next]_vars
  PROVE  NetTracked'
  <1> USE DEF Running, NetTracked
  <1>1. CASE \E p \in Peers : Start(p)
    BY <1>1 DEF Start, PassState, LiveNets, objects, upstream, bounds
  <1>2. CASE Call
    <2>1. UNCHANGED <<api, lapses>>
      BY <1>2, CallKeeps DEF objects
    <2>2. /\ LiveNets' \subseteq LiveNets \cup {loc'.net}
          /\ loc'.net = loc.net \/ loc.net = None \/ net'[loc.net] = "gone"
      BY <1>2, CallIds
    <2>3. \A n \in LiveNets' : n # None /\ net'[n] = "live"
      BY DEF LiveNets
    <2> QED
      BY <2>1, <2>2, <2>3
  <1>3. CASE SaveStatus
    <2>1. net' = net /\ LiveNets' = LiveNets /\ cur \in Peers
      BY <1>3 DEF SaveStatus, upstream, LiveNets
    <2>2. CASE fresh
      <3>1. PICK o \in Objects : /\ o.phase = api[cur].phase /\ o.net = loc.net
                                /\ api' = [api EXCEPT ![cur] = o]
        BY <1>3, <2>2, SaveWrites
      <3>2. /\ api'[cur] = o /\ o.phase # "gone" /\ lapses' = lapses
            /\ \A p \in Peers \ {cur} : api'[p] = api[p]
        BY <1>3, <2>1, <2>2, <3>1 DEF TypeOK, SaveStatus, Phases
      <3>3. \/ api[cur].net = None \/ api[cur].net = loc.net
            \/ net[api[cur].net] = "gone"
        BY <1>3, <2>2 DEF SaveStatus, NetInHand
      <3>4. \A n \in LiveNets : n # None /\ net[n] = "live"
        BY DEF LiveNets
      <3> QED
        BY <2>1, <3>1, <3>2, <3>3, <3>4
    <2>3. CASE ~fresh
      BY <1>3, <2>3 DEF SaveStatus, TypeOK
    <2> QED
      BY <2>2, <2>3
  <1>4. CASE DropFinalizer
    <2>1. /\ LiveNets' = LiveNets /\ cur \in Peers /\ lapses' = lapses
          /\ loc.net = None
      BY <1>4 DEF DropFinalizer, upstream, bounds, LiveNets, PassState
    <2>2. \A n \in LiveNets : n # None /\ net[n] = "live"
      BY DEF LiveNets
    <2>3. CASE fresh
      <3>1. \A p \in Peers \ {cur} : api'[p] = api[p]
        BY <1>4, <2>1, <2>3 DEF TypeOK, DropFinalizer
      <3>2. api[cur].net = None \/ net[api[cur].net] = "gone"
        BY <1>4, <2>1, <2>3 DEF DropFinalizer, NetInHand
      <3> QED
        BY <2>1, <2>2, <3>1, <3>2
    <2>4. CASE ~fresh
      BY <1>4, <2>1, <2>2, <2>4 DEF DropFinalizer
    <2> QED
      BY <2>3, <2>4
  <1>5. CASE Abort
    BY <1>5 DEF Abort, TypeOK
  <1>6. CASE \E p \in Peers : CacheSync(p)
    BY <1>6 DEF CacheSync, pass, upstream, bounds, LiveNets
  <1>7. CASE \E p \in Peers : UserDelete(p) \/ UserToggles(p)
    <2> PICK p \in Peers : UserDelete(p) \/ UserToggles(p)
      BY <1>7
    <2>1. PICK o \in Objects : /\ o.phase # "gone" /\ o.net = api[p].net
                              /\ api' = [api EXCEPT ![p] = o]
      BY UserKeeps
    <2>2. UNCHANGED <<loc, net, lapses>> /\ LiveNets' = LiveNets
      BY UserKeeps DEF upstream, LiveNets
    <2>3. api'[p] = o /\ \A q \in Peers \ {p} : api'[q] = api[q]
      BY <2>1 DEF TypeOK
    <2> QED
      BY <2>1, <2>2, <2>3
  <1>8. CASE Outside
    BY <1>8, OutsideKeeps DEF objects, pass, LiveNets
  <1> QED
    BY <1>1, <1>2, <1>3, <1>4, <1>5, <1>6, <1>7, <1>8, StepKinds

(* What a step may do to an OZGroup and to the informer's copy of it.      *)
LEMMA GroupMoves ==
  ASSUME TypeOK, Running, [Next]_vars, NEW p \in Peers
  PROVE  /\ \/ group'[p] = group[p]
            \/ /\ HandleGroup /\ p = cur /\ gcache' = gcache
               /\ gcache[p].state = "none" /\ group[p].state = "none"
               /\ group'[p] = [state |-> "new", fin |-> TRUE]
            \/ /\ ReleaseGroup /\ p = cur /\ gcache' = gcache
               /\ group'[p] = [group[p] EXCEPT !.fin = FALSE]
            \/ /\ pc' = pc /\ group[p].state = "new" /\ gcache' = gcache
               /\ group'[p] = [group[p] EXCEPT !.state = "bound"]
         /\ \/ gcache'[p] = gcache[p]
            \/ gcache'[p] = group[p] /\ group'[p] = group[p]
  <1> USE DEF TypeOK, Running
  <1>1. CASE HandleGroup
    BY <1>1 DEF HandleGroup
  <1>2. CASE ReleaseGroup
    <2>1. gcache' = gcache /\ cur \in Peers
      BY <1>2 DEF ReleaseGroup
    <2>2. CASE group' = group
      BY <2>1, <2>2
    <2>3. CASE group' = [group EXCEPT ![cur].fin = FALSE]
      BY <1>2, <2>1, <2>3
    <2> QED
      BY <1>2, <2>2, <2>3 DEF ReleaseGroup
  <1>3. CASE UNCHANGED <<group, gcache>>
    BY <1>3
  <1>4. CASE Outside
    <2>1. CASE \E q \in Peers : GroupSync(q)
      BY <2>1 DEF GroupSync
    <2>2. CASE \E q \in Peers : GroupBinds(q)
      BY <2>2 DEF GroupBinds, pass
    <2> QED
      BY <1>3, <1>4, <2>1, <2>2 DEF Outside, SecretSync, DeploymentSync, ResourceSync,
         UserDeletesSecret, ServiceExposes, ResourceGone, ResourceDeleted,
         AdminChangesKey, AdminChangesRouter, AdminEditsAccount, Done, vars, owned,
         Event
  <1>5. CASE Call
    BY <1>1, <1>2, <1>3, <1>5 DEF Call, ListNetworks, CreateNetwork, CreateKey,
       WriteSecret, CheckKey, CheckSecret, DeleteBadKey, HandleRouter, ReadExempt,
       UpdateExempt, HandleDeployment, DeleteDeployment, DeleteKey, ListResources,
       DeleteResources, DeleteNetwork, ReadUnexempt, UpdateUnexempt, Fail, owned
  <1>6. CASE \/ (\E q \in Peers : Start(q)) \/ SaveStatus \/ DropFinalizer \/ Abort
             \/ \E q \in Peers : CacheSync(q) \/ UserDelete(q) \/ UserToggles(q)
    BY <1>3, <1>6 DEF Start, SaveStatus, DropFinalizer, Abort, CacheSync,
       UserDelete, UserToggles, UserWrites, Event, owned
  <1> QED
    BY <1>4, <1>5, <1>6, StepKinds

(* Between DeleteKey and ReleaseGroup a pass holds the copy it has read.   *)
LEMMA HoldMoves ==
  ASSUME TypeOK, [Next]_vars, pc' \in HoldsGroup
  PROVE  /\ cur' = cur
         /\ \/ pc \in HoldsGroup /\ gloc' = gloc /\ ~ReleaseGroup
            \/ pc = "delKey" /\ DeleteKey /\ gloc' = gcache[cur] /\ UNCHANGED <<group, gcache>>
  <1> USE DEF HoldsGroup
  <1>1. CASE \/ (\E q \in Peers : Start(q)) \/ SaveStatus \/ DropFinalizer \/ Abort
             \/ \E q \in Peers : CacheSync(q)
    BY <1>1 DEF Start, SaveStatus, DropFinalizer, Abort, CacheSync, EndPass, pass,
       ReleaseGroup, Goto, Failed, With, AfterGroup, AfterExempt
  <1>2. CASE Outside
    BY <1>2, OutsideKeeps DEF pass, ReleaseGroup, Goto, Failed, With, AfterGroup,
       AfterExempt
  <1>3. CASE \E q \in Peers : UserDelete(q) \/ UserToggles(q)
    BY <1>3, UserKeeps DEF ReleaseGroup, Goto, Failed, With, AfterGroup, AfterExempt
  <1>4. CASE DeleteKey
    BY <1>4 DEF DeleteKey, ReadGroup, owned
  <1>5. CASE ListResources \/ DeleteNetwork
    BY <1>5 DEF ListResources, DeleteNetwork, With, ReleaseGroup
  <1>6. CASE DeleteResources
    BY <1>6, FailedKeeps DEF DeleteResources, Goto, ReleaseGroup
  <1>7. CASE ReleaseGroup
    BY <1>7, FailedKeeps DEF ReleaseGroup, Goto, AfterGroup, AfterExempt
  <1>8. CASE HandleGroup \/ WriteSecret \/ DeleteBadKey \/ HandleRouter \/ HandleDeployment
    BY <1>8, FailedKeeps DEF HandleGroup, WriteSecret, DeleteBadKey, HandleRouter,
       HandleDeployment, Goto, With
  <1>9. CASE DeleteDeployment \/ Fail
    BY <1>9, FailedKeeps DEF DeleteDeployment, Fail, Goto
  <1>10. CASE \/ ListNetworks \/ CreateNetwork \/ CreateKey \/ CheckKey \/ CheckSecret
              \/ ReadExempt \/ UpdateExempt \/ ReadUnexempt \/ UpdateUnexempt
    BY <1>10 DEF ListNetworks, CreateNetwork, CreateKey, CheckKey, CheckSecret,
       ReadExempt, UpdateExempt, ReadUnexempt, UpdateUnexempt, AfterExempt, Goto, With
  <1> QED
    BY <1>1, <1>2, <1>3, <1>4, <1>5, <1>6, <1>7, <1>8, <1>9, <1>10, StepKinds
    DEF Call

(* What a copy shows still holds after the OZGroup has moved.              *)
LEMMA StepCopies ==
  ASSUME TypeOK, Running, PassState, GroupCopies, [Next]_vars
  PROVE  GroupCopies'
  <1>t. \A p \in Peers : group[p] \in GroupObjects
    BY DEF TypeOK
  <1>1. ASSUME NEW p \in Peers
        PROVE  CopyOf(group'[p], group'[p]) /\ CopyOf(gcache'[p], group'[p])
    <2> DEFINE g == group[p]  c == gcache[p]  h == group'[p]  d == gcache'[p]
    <2>1. g \in GroupObjects /\ CopyOf(g, g) /\ CopyOf(c, g)
      BY <1>1, <1>t DEF GroupCopies
    <2>2. d = c \/ (d = g /\ h = g)
      BY <1>1, GroupMoves
    <2>3. \/ h = g
          \/ c.state = "none" /\ g.state = "none" /\ h = [state |-> "new", fin |-> TRUE] /\ d = c
          \/ h = [g EXCEPT !.fin = FALSE] /\ d = c
          \/ g.state = "new" /\ h = [g EXCEPT !.state = "bound"] /\ d = c
      BY <1>1, GroupMoves
    <2> HIDE DEF g, c, h, d
    <2>4. CopyOf(h, h) /\ CopyOf(d, h)
      BY <2>1, <2>2, <2>3 DEF CopyOf, GroupObjects
    <2> QED
      BY <2>4 DEF h, d
  <1>2. ASSUME pc' \in HoldsGroup PROVE CopyOf(gloc', group'[cur'])
    <2>1. cur \in Peers
      BY <1>2, HoldMoves DEF Running, HoldsGroup
    <2>2. CASE pc = "delKey" /\ gloc' = gcache[cur] /\ UNCHANGED <<group, gcache>>
      BY <1>1, <1>2, <2>1, <2>2, HoldMoves
    <2>3. CASE pc \in HoldsGroup /\ gloc' = gloc /\ ~ReleaseGroup
      <3>1. \/ group'[cur] = group[cur]
            \/ /\ group[cur].state = "new"
               /\ group'[cur] = [group[cur] EXCEPT !.state = "bound"]
        BY <2>1, <2>3, GroupMoves DEF HandleGroup, HoldsGroup
      <3> QED
        BY <1>2, <1>t, <2>1, <2>3, <3>1, HoldMoves DEF GroupCopies, CopyOf, GroupObjects
    <2> QED
      BY <1>2, <2>2, <2>3, HoldMoves
  <1> QED
    BY <1>1, <1>2 DEF GroupCopies

(* Deployments: only a pass of a live copy adds one.                       *)
LEMMA DeploymentMoves ==
  ASSUME TypeOK, Running, [Next]_vars
  PROVE  \/ dep' = dep
         \/ HandleDeployment /\ dep' = dep \cup {cur}
         \/ DeleteDeployment /\ dep' \subseteq dep
  <1>1. CASE Outside
    BY <1>1, OutsideKeeps
  <1>2. CASE Call
    BY <1>2 DEF Call, ListNetworks, CreateNetwork, HandleGroup, CreateKey,
       WriteSecret, CheckKey, CheckSecret, DeleteBadKey, HandleRouter, ReadExempt,
       UpdateExempt, HandleDeployment, DeleteDeployment, DeleteKey, ListResources,
       DeleteResources, DeleteNetwork, ReleaseGroup, ReadUnexempt, UpdateUnexempt,
       Fail, owned
  <1>3. CASE \/ (\E q \in Peers : Start(q)) \/ SaveStatus \/ DropFinalizer \/ Abort
             \/ \E q \in Peers : CacheSync(q) \/ UserDelete(q) \/ UserToggles(q)
    BY <1>3 DEF Start, SaveStatus, DropFinalizer, Abort, CacheSync,
       UserDelete, UserToggles, UserWrites, owned
  <1> QED
    BY <1>1, <1>2, <1>3, StepKinds

(* The history of what was missed: only the passes of a current copy write *)
(* it, about their own routing peer.                                       *)
LEMMA MissedMoves ==
  ASSUME TypeOK, Running, [Next]_vars
  PROVE  \/ missed' = missed
         \/ /\ fresh /\ cur \in Peers
            /\ \A p \in Peers \ {cur} : p \in missed' <=> p \in missed
            /\ DeleteDeployment \/ (DeleteKey /\ missed \subseteq missed')
  <1>1. CASE Outside
    BY <1>1, OutsideKeeps
  <1>2. CASE DeleteDeployment
    BY <1>2 DEF DeleteDeployment, Running
  <1>3. CASE DeleteKey
    BY <1>3 DEF DeleteKey, ReadGroup, Running
  <1>4. CASE Call
    BY <1>2, <1>3, <1>4 DEF Call, ListNetworks, CreateNetwork, HandleGroup, CreateKey,
       WriteSecret, CheckKey, CheckSecret, DeleteBadKey, HandleRouter, ReadExempt,
       UpdateExempt, HandleDeployment, ListResources, DeleteResources, DeleteNetwork,
       ReleaseGroup, ReadUnexempt, UpdateUnexempt, Fail, bounds
  <1>5. CASE \/ (\E q \in Peers : Start(q)) \/ SaveStatus \/ DropFinalizer \/ Abort
             \/ \E q \in Peers : CacheSync(q) \/ UserDelete(q) \/ UserToggles(q)
    BY <1>5 DEF Start, SaveStatus, DropFinalizer, Abort, CacheSync,
       UserDelete, UserToggles, UserWrites, Event, bounds
  <1> QED
    BY <1>1, <1>4, <1>5, StepKinds

(* A routing peer goes by DropFinalizer, from a current copy.              *)
LEMMA GoneMoves ==
  ASSUME TypeOK, Running, [Next]_vars, NEW p \in Peers, api'[p].phase = "gone"
  PROVE  api[p].phase = "gone" \/ (DropFinalizer /\ fresh /\ p = cur)
  <1> USE DEF TypeOK, Running
  <1>1. CASE Outside
    BY <1>1, OutsideKeeps DEF objects
  <1>2. CASE Call
    BY <1>2, CallKeeps DEF objects
  <1>3. CASE SaveStatus
    <2>1. CASE fresh
      <3>1. PICK o \in Objects : /\ o.phase = api[cur].phase
                                /\ api' = [api EXCEPT ![cur] = o]
        BY <1>3, <2>1, SaveWrites
      <3> QED
        BY <3>1
    <2>2. CASE ~fresh
      BY <1>3, <2>2 DEF SaveStatus
    <2> QED
      BY <2>1, <2>2
  <1>4. CASE DropFinalizer
    BY <1>4 DEF DropFinalizer
  <1>5. CASE \/ (\E q \in Peers : Start(q)) \/ Abort \/ \E q \in Peers : CacheSync(q)
    BY <1>5 DEF Start, Abort, CacheSync, objects
  <1>6. CASE \E q \in Peers : UserDelete(q) \/ UserToggles(q)
    <2> PICK q \in Peers : UserDelete(q) \/ UserToggles(q)
      BY <1>6
    <2>1. PICK o \in Objects : o.phase # "gone" /\ api' = [api EXCEPT ![q] = o]
      BY UserKeeps
    <2> QED
      BY <2>1
  <1> QED
    BY <1>1, <1>2, <1>3, <1>4, <1>5, <1>6, StepKinds

(* What belongs to a routing peer goes before its own finalizer.           *)
LEMMA StepOwned ==
  ASSUME TypeOK, Running, PassState, Phases, GroupCopies, OwnedReleased, [Next]_vars
  PROVE  OwnedReleased'
  <1> USE DEF OwnedReleased
  <1>ph. /\ pc \in LivePcs => api[cur].phase # "gone"
         /\ pc # "idle" /\ fresh => api[cur].phase # "gone"
    BY DEF Phases
  <1>1. ASSUME NEW p \in Peers, api'[p].phase = "gone", p \notin missed'
        PROVE  p \notin dep' /\ ~group'[p].fin
    <2>1. CASE DropFinalizer /\ fresh /\ p = cur
      <3>1. pc = "dropFin" /\ UNCHANGED <<dep, group, missed>>
        BY <2>1 DEF DropFinalizer, owned, bounds
      <3> QED
        BY <1>1, <2>1, <3>1 DEF DeletePcs
    <2>2. CASE api[p].phase = "gone"
      <3>1. ~(fresh /\ pc # "idle" /\ p = cur) /\ ~(pc \in LivePcs /\ p = cur)
        BY <1>ph, <2>2
      <3>2. p \notin missed
        BY <1>1, <3>1, MissedMoves DEF DeleteDeployment, DeleteKey
      <3>3. p \notin dep /\ ~group[p].fin
        BY <2>2, <3>2
      <3>4. p \notin dep'
        BY <3>1, <3>3, DeploymentMoves DEF HandleDeployment, LivePcs
      <3>5. \/ group'[p] = group[p]
            \/ group'[p] = [group[p] EXCEPT !.fin = FALSE]
            \/ group'[p] = [group[p] EXCEPT !.state = "bound"]
        BY <3>1, GroupMoves DEF HandleGroup, LivePcs
      <3>6. group[p] \in GroupObjects
        BY DEF TypeOK
      <3> QED
        BY <3>3, <3>4, <3>5, <3>6 DEF GroupObjects
    <2> QED
      BY <1>1, <2>1, <2>2, GoneMoves
  <1>2. ASSUME fresh', cur' \notin missed',
               pc' \in DeletePcs \ {"delDeployment"}
        PROVE  /\ cur' \notin dep'
               /\ pc' \in HoldsGroup /\ gloc'.state = "none" => group'[cur'].state = "none"
               /\ pc' \in {"unexempt", "setUnexempt", "dropFin"} => ~group'[cur'].fin
    <2> USE <1>2 DEF DeletePcs, HoldsGroup
    <2>1. CASE Call
      <3>1. UNCHANGED <<cur, fresh>> /\ pc \in DeletePcs /\ cur \in Peers /\ fresh
        BY <2>1, CallKeeps DEF Running
      <3>g. CopyOf(group[cur], group[cur]) /\ CopyOf(gcache[cur], group[cur])
            /\ (pc \in HoldsGroup => CopyOf(gloc, group[cur])) /\ group[cur] \in GroupObjects
        BY <3>1 DEF GroupCopies, TypeOK
      <3> USE <3>1 DEF Goto
      <3>2. CASE DeleteDeployment
        BY <2>1, <3>2, FailedKeeps DEF DeleteDeployment
      <3>3. CASE DeleteKey
        BY <3>3 DEF DeleteKey, ReadGroup, owned
      <3>4. CASE ListResources \/ DeleteNetwork
        BY <3>4 DEF ListResources, DeleteNetwork, With, owned, bounds
      <3>5. CASE DeleteResources
        BY <3>5, FailedKeeps DEF DeleteResources, owned, bounds
      <3>6. CASE ReleaseGroup
        <4>1. /\ pc = "release" /\ UNCHANGED <<dep, missed>>
              /\ pc' \in {"unexempt", "setUnexempt", "dropFin"}
          BY <3>6, FailedKeeps DEF ReleaseGroup, AfterGroup, AfterExempt, bounds
        <4>2. CASE gloc.fin
          <5>1. group' = [group EXCEPT ![cur].fin = FALSE]
            BY <3>6, <4>1, <4>2, FailedKeeps DEF ReleaseGroup
          <5> QED
            BY <4>1, <5>1 DEF TypeOK, GroupObjects
        <4>3. CASE ~gloc.fin
          <5>1. group' = group
            BY <3>6, <4>3 DEF ReleaseGroup
          <5> QED
            BY <3>g, <4>1, <4>3, <5>1 DEF CopyOf
        <4> QED
          BY <4>2, <4>3
      <3>7. CASE ReadUnexempt \/ UpdateUnexempt
        BY <3>7 DEF ReadUnexempt, UpdateUnexempt, AfterExempt, owned, bounds
      <3>8. CASE Fail
        BY <3>8, FailedKeeps DEF Fail
      <3>9. CASE \/ ListNetworks \/ CreateNetwork \/ HandleGroup \/ CreateKey \/ WriteSecret
                 \/ CheckKey \/ CheckSecret \/ DeleteBadKey \/ HandleRouter \/ ReadExempt
                 \/ UpdateExempt \/ HandleDeployment
        BY <3>9 DEF ListNetworks, CreateNetwork, HandleGroup, CreateKey, WriteSecret,
           CheckKey, CheckSecret, DeleteBadKey, HandleRouter, ReadExempt, UpdateExempt,
           HandleDeployment
      <3> QED
        BY <2>1, <3>2, <3>3, <3>4, <3>5, <3>6, <3>7, <3>8, <3>9 DEF Call
    <2>2. CASE Outside
      <3>1. UNCHANGED <<pc, cur, fresh, gloc, dep, missed>> /\ cur \in Peers
        BY <2>2, OutsideKeeps DEF pass, Running
      <3>2. ~HandleGroup /\ ~ReleaseGroup
        BY <3>1, FailedKeeps DEF HandleGroup, ReleaseGroup, Goto, AfterGroup, AfterExempt
      <3>3. \/ group'[cur] = group[cur]
            \/ group[cur].state = "new" /\ group'[cur] = [group[cur] EXCEPT !.state = "bound"]
        BY <3>1, <3>2, GroupMoves
      <3>4. group[cur] \in GroupObjects
        BY <3>1 DEF TypeOK
      <3> QED
        BY <3>1, <3>3, <3>4 DEF GroupObjects
    <2>3. CASE \E q \in Peers : UserDelete(q) \/ UserToggles(q)
      <3> PICK q \in Peers : UserDelete(q) \/ UserToggles(q)
        BY <2>3
      <3>1. /\ UNCHANGED <<pc, cur, gloc, dep, group, missed>>
            /\ fresh' = (fresh /\ q # cur)
        BY UserKeeps DEF owned
      <3>2. fresh
        BY <3>1
      <3> QED
        BY <3>1, <3>2
    <2>4. CASE \E q \in Peers : CacheSync(q)
      BY <2>4 DEF CacheSync, pass, owned, bounds
    <2>5. CASE (\E q \in Peers : Start(q)) \/ SaveStatus \/ DropFinalizer \/ Abort
      BY <2>5 DEF Start, SaveStatus, DropFinalizer, Abort, EndPass
    <2> QED
      BY <2>1, <2>2, <2>3, <2>4, <2>5, StepKinds
  <1> QED
    BY <1>1, <1>2 DEF DeletePcs, HoldsGroup

(* A routing peer that can take the group off the list stays one until it  *)
(* goes.                                                                   *)
LEMMA CanUnexemptStays ==
  ASSUME TypeOK, Running, GroupCopies, [Next]_vars, NEW p \in Peers, CanUnexempt(p),
         ~(DropFinalizer /\ p = cur)
  PROVE  CanUnexempt(p)'
  <1>1. api'[p].phase # "gone"
    BY GoneMoves DEF CanUnexempt
  <1>2. group[p].state = "bound" /\ gcache[p].state = "bound"
    BY DEF GroupCopies, CopyOf, CanUnexempt
  <1>3. gcache'[p].state = "bound"
    BY <1>2, GroupMoves
  <1> QED
    BY <1>1, <1>3 DEF CanUnexempt

(* The group comes onto the list, or off it, by a pass.                    *)
LEMMA ExemptMoves ==
  ASSUME TypeOK, [Next]_vars, Group \in exempt'
  PROVE  \/ Group \in exempt /\ ~UpdateUnexempt
         \/ pc = "setExempt" /\ UpdateExempt
  <1> USE GroupAssumption DEF upstream
  <1>1. CASE Outside
    BY <1>1 DEF Outside, SecretSync, GroupSync, DeploymentSync, ResourceSync,
       GroupBinds, UserDeletesSecret, ServiceExposes, ResourceGone, ResourceDeleted,
       AdminChangesKey, AdminChangesRouter, AdminEditsAccount, Done, vars, pass, Event,
       UpdateUnexempt, Goto, AfterExempt
  <1>2. CASE UpdateExempt
    BY <1>2 DEF UpdateExempt
  <1>3. CASE UpdateUnexempt
    BY <1>3 DEF UpdateUnexempt
  <1>4. CASE ~UpdateUnexempt /\ Call
    BY <1>2, <1>4 DEF Call, ListNetworks, CreateNetwork, HandleGroup, CreateKey,
       WriteSecret, CheckKey, CheckSecret, DeleteBadKey, HandleRouter, ReadExempt,
       HandleDeployment, DeleteDeployment, DeleteKey, ListResources, DeleteResources,
       DeleteNetwork, ReleaseGroup, ReadUnexempt, Fail
  <1>5. CASE /\ ~UpdateUnexempt
             /\ \/ (\E q \in Peers : Start(q)) \/ SaveStatus \/ DropFinalizer \/ Abort
                \/ \E q \in Peers : CacheSync(q) \/ UserDelete(q) \/ UserToggles(q)
    BY <1>5 DEF Start, SaveStatus, DropFinalizer, Abort, CacheSync,
       UserDelete, UserToggles, UserWrites
  <1> QED
    BY <1>1, <1>3, <1>4, <1>5, StepKinds

(* How a pass comes to remove its finalizer.                               *)
LEMMA DropMoves ==
  ASSUME TypeOK, [Next]_vars, pc' = "dropFin"
  PROVE  /\ cur' = cur /\ ~DropFinalizer /\ ~UpdateExempt
         /\ \/ pc = "dropFin"
            \/ UpdateUnexempt
            \/ ReadUnexempt /\ Group \notin exempt
            \/ pc = "release" /\ gloc.state # "bound"
  <1>1. ~DropFinalizer /\ ~UpdateExempt
    BY DEF DropFinalizer, EndPass, UpdateExempt, Goto
  <1>2. CASE Call
    <2>1. cur' = cur
      BY <1>2, CallKeeps
    <2>2. CASE ReleaseGroup
      BY <1>1, <2>1, <2>2, FailedKeeps DEF ReleaseGroup, AfterGroup, Goto
    <2>3. CASE ReadUnexempt \/ UpdateUnexempt
      BY <1>1, <2>1, <2>3 DEF ReadUnexempt, UpdateUnexempt
    <2>4. CASE \/ HandleGroup \/ WriteSecret \/ DeleteBadKey \/ HandleRouter
               \/ HandleDeployment \/ DeleteDeployment \/ DeleteResources \/ Fail
      BY <1>1, <2>1, <2>4, FailedKeeps DEF HandleGroup, WriteSecret, DeleteBadKey,
         HandleRouter, HandleDeployment, DeleteDeployment, DeleteResources, Fail, Goto,
         With
    <2>5. CASE \/ ListNetworks \/ CreateNetwork \/ CreateKey \/ CheckKey \/ CheckSecret
               \/ ReadExempt \/ DeleteKey \/ ListResources \/ DeleteNetwork
      BY <1>1, <2>1, <2>5 DEF ListNetworks, CreateNetwork, CreateKey, CheckKey,
         CheckSecret, ReadExempt, DeleteKey, ReadGroup, ListResources, DeleteNetwork,
         Goto, With
    <2> QED
      BY <1>1, <1>2, <2>2, <2>3, <2>4, <2>5 DEF Call
  <1>3. CASE Outside
    BY <1>1, <1>3, OutsideKeeps DEF pass
  <1>4. CASE \E q \in Peers : UserDelete(q) \/ UserToggles(q)
    BY <1>1, <1>4, UserKeeps
  <1>5. CASE \/ (\E q \in Peers : Start(q)) \/ SaveStatus \/ DropFinalizer \/ Abort
             \/ \E q \in Peers : CacheSync(q)
    BY <1>1, <1>5 DEF Start, SaveStatus, Abort, CacheSync, EndPass, pass
  <1> QED
    BY <1>2, <1>3, <1>4, <1>5, StepKinds

(* A live pass gets past its OZGroup only if the informer shows it bound.  *)
LEMMA BoundMoves ==
  ASSUME TypeOK, Running, ExemptOwned, [Next]_vars,
         pc' \in LivePcs \ {"network", "createNet", "group"}
  PROVE  cur' = cur /\ cur \in Peers /\ gcache[cur].state = "bound"
  <1> USE DEF LivePcs, Running
  <1>1. CASE Call
    <2>1. cur' = cur /\ pc \in LivePcs /\ cur \in Peers
      BY <1>1, CallKeeps
    <2>2. CASE HandleGroup
      BY <2>1, <2>2, FailedKeeps DEF HandleGroup, Goto
    <2>3. CASE ListNetworks \/ CreateNetwork
      BY <2>3 DEF ListNetworks, CreateNetwork, Goto, With
    <2>4. CASE Fail
      BY <2>4, FailedKeeps DEF Fail
    <2>5. CASE pc \notin {"network", "createNet", "group"}
      BY <2>1, <2>5 DEF ExemptOwned
    <2> QED
      BY <1>1, <2>2, <2>3, <2>4, <2>5 DEF Call, CreateKey, WriteSecret, CheckKey,
         CheckSecret, DeleteBadKey, HandleRouter, ReadExempt, UpdateExempt,
         HandleDeployment, DeleteDeployment, DeleteKey, ListResources, DeleteResources,
         DeleteNetwork, ReleaseGroup, ReadUnexempt, UpdateUnexempt
  <1>2. CASE Outside
    BY <1>2, OutsideKeeps DEF pass, ExemptOwned
  <1>3. CASE \E q \in Peers : UserDelete(q) \/ UserToggles(q)
    BY <1>3, UserKeeps DEF ExemptOwned
  <1>4. CASE \/ (\E q \in Peers : Start(q)) \/ SaveStatus \/ DropFinalizer \/ Abort
             \/ \E q \in Peers : CacheSync(q)
    BY <1>4 DEF Start, SaveStatus, DropFinalizer, Abort, CacheSync, EndPass, pass,
       ExemptOwned
  <1> QED
    BY <1>1, <1>2, <1>3, <1>4, StepKinds

(* The exempt list: only the pass of a bound, existing routing peer adds   *)
(* the group, and the last one that could take it off does so before it    *)
(* goes.                                                                   *)
LEMMA StepExempt ==
  ASSUME TypeOK, Running, PassState, Phases, GroupCopies, ExemptOwned, [Next]_vars
  PROVE  ExemptOwned'
  <1> USE DEF ExemptOwned
  <1>1. ASSUME Group \in exempt' PROVE \E p \in Peers : CanUnexempt(p)'
    <2>1. CASE pc = "setExempt" /\ UpdateExempt
      <3>1. cur \in Peers /\ CanUnexempt(cur) /\ ~DropFinalizer
        BY <2>1 DEF Running, Phases, CanUnexempt, LivePcs, DropFinalizer
      <3> QED
        BY <3>1, CanUnexemptStays
    <2>2. CASE Group \in exempt /\ DropFinalizer
      <3>1. pc = "dropFin"
        BY <2>2 DEF DropFinalizer
      <3>2. PICK p \in Peers \ {cur} : CanUnexempt(p)
        BY <2>2, <3>1
      <3> QED
        BY <3>2, CanUnexemptStays
    <2>3. CASE Group \in exempt /\ ~DropFinalizer
      <3>1. PICK p \in Peers : CanUnexempt(p)
        BY <2>3
      <3> QED
        BY <2>3, <3>1, CanUnexemptStays
    <2> QED
      BY <1>1, <2>1, <2>2, <2>3, ExemptMoves
  <1>2. ASSUME Group \in exempt',
               pc' = "dropFin" \/ (pc' \in HoldsGroup /\ gloc'.state # "bound")
        PROVE  \E p \in Peers \ {cur'} : CanUnexempt(p)'
    <2>1. /\ cur' = cur /\ ~DropFinalizer /\ Group \in exempt
          /\ \E p \in Peers \ {cur} : CanUnexempt(p)
      <3>1. CASE pc' \in HoldsGroup /\ gloc'.state # "bound"
        <4>1. cur' = cur /\ ~DropFinalizer /\ Group \in exempt
          BY <1>2, <3>1, HoldMoves, ExemptMoves
          DEF DropFinalizer, EndPass, HoldsGroup, UpdateExempt, Goto
        <4>2. CASE pc \in HoldsGroup /\ gloc' = gloc
          BY <3>1, <4>1, <4>2
        <4>3. CASE gloc' = gcache[cur]
          BY <3>1, <4>1, <4>3 DEF CanUnexempt
        <4> QED
          BY <3>1, <4>1, <4>2, <4>3, HoldMoves
      <3>2. CASE pc' = "dropFin"
        <4>1. CASE pc = "dropFin"
          <5>1. cur' = cur /\ ~DropFinalizer /\ ~UpdateExempt
            BY <3>2, <4>1, DropMoves DEF UpdateExempt
          <5> QED
            BY <1>2, <4>1, <5>1, ExemptMoves
        <4>2. CASE pc # "dropFin"
          <5>1. /\ cur' = cur /\ ~DropFinalizer /\ ~UpdateExempt
                /\ \/ UpdateUnexempt
                   \/ ReadUnexempt /\ Group \notin exempt
                   \/ pc = "release" /\ gloc.state # "bound"
            BY <3>2, <4>2, DropMoves
          <5>2. Group \in exempt /\ ~UpdateUnexempt
            BY <1>2, <5>1, ExemptMoves
          <5> QED
            BY <5>1, <5>2 DEF HoldsGroup
        <4> QED
          BY <4>1, <4>2
      <3> QED
        BY <1>2, <3>1, <3>2
    <2>2. PICK p \in Peers \ {cur} : CanUnexempt(p)
      BY <2>1
    <2> QED
      BY <2>1, <2>2, CanUnexemptStays
  <1>3. ASSUME pc' \in LivePcs \ {"network", "createNet", "group"}
        PROVE  gcache'[cur'].state = "bound"
    <2>1. cur' = cur /\ cur \in Peers /\ gcache[cur].state = "bound"
      BY <1>3, BoundMoves
    <2>2. group[cur].state = "bound"
      BY <2>1 DEF GroupCopies, CopyOf
    <2> QED
      BY <2>1, <2>2, GroupMoves
  <1> QED
    BY <1>1, <1>2, <1>3

-----------------------------------------------------------------------------
(* The theorems.                                                           *)

(* The initial state satisfies the invariant.                              *)
LEMMA InitInv == Init => Inv
  <1> SUFFICES ASSUME Init PROVE Inv
    OBVIOUS
  <1>1. TypeOK
    BY InitType
  <1>2. Running /\ PassState /\ SingleNet /\ KeyInHand /\ NetInHand
    BY DEF Init, Running, PassState, SingleNet, KeyInHand, NetInHand, LiveNets,
           DeletePcs, Absent, Created
  <1>3. Phases /\ NetIds /\ NetTracked
    BY DEF Init, Phases, NetIds, NetTracked, LiveNets, LivePcs, DeletePcs,
           Absent, Created
  <1>4. OwnedReleased /\ ExemptOwned
    BY DEF Init, OwnedReleased, ExemptOwned, HoldsGroup, LivePcs, DeletePcs, Created
  <1>5. GroupCopies
    BY DEF Init, GroupCopies, CopyOf, NoGroup, HoldsGroup
  <1> QED
    BY <1>1, <1>2, <1>3, <1>4, <1>5 DEF Inv

(* Every step keeps the invariant.                                         *)
LEMMA StepInv == Inv /\ [Next]_vars => Inv'
  <1> SUFFICES ASSUME Inv, [Next]_vars PROVE Inv'
    OBVIOUS
  <1>1. TypeOK' /\ Running' /\ PassState' /\ SingleNet' /\ Phases'
    BY StepType, StepRunning, StepPass, StepSingleNet, StepPhases DEF Inv
  <1>2. KeyInHand' /\ NetInHand' /\ NetIds' /\ NetTracked'
    BY StepInHand, StepNetIds, StepNetTracked DEF Inv
  <1>3. GroupCopies' /\ OwnedReleased' /\ ExemptOwned'
    BY StepCopies, StepOwned, StepExempt DEF Inv
  <1> QED
    BY <1>1, <1>2, <1>3 DEF Inv

(* Inv holds in every reachable state.                                     *)
THEOREM Invariance == Spec => []Inv
  BY InitInv, StepInv, PTL DEF Spec

(* Whatever passes are cut off between Networks.Create and the status      *)
(* update, and however many routing peers want it, the operator never has  *)
(* two networks of the name upstream (handleNetwork lists before it        *)
(* creates).                                                               *)
THEOREM OneNetworkOnly == Spec => []OneNetwork
  <1>1. Inv => OneNetwork
    <2> SUFFICES ASSUME Inv PROVE Cardinality(LiveNets) <= 1
      BY DEF OneNetwork
    <2>1. CASE LiveNets = {}
      BY <2>1, FS_EmptySet
    <2>2. CASE LiveNets # {}
      <3>0. PICK n : n \in LiveNets
        BY <2>2
      <3>1. LiveNets = {n}
        BY <3>0 DEF Inv, SingleNet
      <3> QED
        BY <3>1, FS_Singleton
    <2> QED
      BY <2>1, <2>2
  <1> QED
    BY <1>1, Invariance, PTL

(* When every pass could save its status, routing peers that are gone have *)
(* left no network and no entry on the exempt list, whatever the informers *)
(* showed and whenever; and no Deployment and no finalizer on an OZGroup,  *)
(* unless one existed that they did not show to the pass that dropped the  *)
(* finalizer (handleDelete reads both from the cache and removes its own   *)
(* finalizer last).                                                        *)
THEOREM TeardownIsComplete == Spec => []TeardownComplete
  <1>1. Inv => TeardownComplete
    <2> SUFFICES ASSUME Inv, lapses = 0, \A p \in Peers : api[p].phase = "gone"
                 PROVE  /\ LiveNets = {} /\ Group \notin exempt
                        /\ \A p \in Peers \ missed : p \notin dep /\ ~group[p].fin
      BY DEF TeardownComplete
    <2>1. LiveNets = {}
      <3> SUFFICES ASSUME NEW n \in LiveNets PROVE FALSE
        OBVIOUS
      <3>1. loc.net = n /\ net[n] = "live" /\ n # None
        BY DEF Inv, NetTracked, LiveNets
      <3>2. pc # "idle" /\ cur \in Peers
        BY <3>1 DEF Inv, PassState, Running
      <3> QED
        BY <3>1, <3>2 DEF Inv, NetIds
    <2>2. \A p \in Peers \ missed : p \notin dep /\ ~group[p].fin
      BY DEF Inv, OwnedReleased
    <2>3. Group \notin exempt
      BY DEF Inv, ExemptOwned, CanUnexempt
    <2> QED
      BY <2>1, <2>2, <2>3
  <1> QED
    BY <1>1, Invariance, PTL

-----------------------------------------------------------------------------
(* The accounting of leaked setup keys.                                    *)
Leaked == {k \in Keys : Exists(k) /\ k \notin Tracked}

LeakInv == Inv /\ IsFiniteSet(Leaked) /\ Cardinality(Leaked) <= lapses

(* Shrinking a bounded set keeps the bound; one more element raises it by  *)
(* one.                                                                    *)
LEMMA Shrink ==
  ASSUME NEW A, NEW B, NEW n \in Nat, IsFiniteSet(A), Cardinality(A) <= n,
         B \subseteq A
  PROVE  IsFiniteSet(B) /\ Cardinality(B) <= n
  BY FS_Subset, FS_CardinalityType

LEMMA Grow ==
  ASSUME NEW A, NEW B, NEW x, NEW n \in Nat, IsFiniteSet(A),
         Cardinality(A) <= n, B \subseteq A \cup {x}
  PROVE  IsFiniteSet(B) /\ Cardinality(B) <= n + 1
  <1>1. Cardinality(A) \in Nat
    BY FS_CardinalityType
  <1>2. /\ IsFiniteSet(A \cup {x})
        /\ Cardinality(A \cup {x}) \in {Cardinality(A), Cardinality(A) + 1}
    BY FS_AddElement
  <1>3. Cardinality(A \cup {x}) <= n + 1 /\ Cardinality(A \cup {x}) \in Nat
    BY <1>1, <1>2
  <1> QED
    BY <1>2, <1>3, Shrink

(* A step adds no leaked key, or it is a lapse and adds one: the key the   *)
(* pass had in hand.                                                       *)
LEMMA StepLeaked ==
  ASSUME Inv, [Next]_vars
  PROVE  \/ lapses' = lapses /\ Leaked' \subseteq Leaked
         \/ lapses' = lapses + 1 /\ \E x : Leaked' \subseteq Leaked \cup {x}
  <1> USE DEF Leaked, Tracked
  <1>t. TypeOK /\ Running /\ PassState
    BY DEF Inv
  <1>1. CASE \E p \in Peers : Start(p)
    <2>1. UNCHANGED <<api, key, lapses>> /\ loc.key = None
      BY <1>1, <1>t DEF Start, PassState, objects, upstream, bounds
    <2> QED
      BY <2>1 DEF Exists
  <1>2. CASE Call
    <2>1. UNCHANGED <<api, lapses>>
      BY <1>2, <1>t, CallKeeps DEF objects
    <2>2. /\ loc'.key = loc.key \/ loc.key = None \/ key'[loc.key] = "gone"
          /\ \A k \in Keys : Exists(k)' => Exists(k) \/ k = loc'.key
      BY <1>2, <1>t, CallIds
    <2>3. \A k \in Keys : Exists(k)' => k # None /\ key'[k] # "gone"
      BY DEF Exists
    <2> QED
      BY <2>1, <2>2, <2>3
  <1>3. CASE SaveStatus
    <2>1. key' = key /\ cur \in Peers /\ pc # "idle"
      BY <1>3, <1>t DEF SaveStatus, Running, upstream
    <2>2. CASE fresh
      <3>1. PICK o \in Objects : o.key = loc.key /\ api' = [api EXCEPT ![cur] = o]
        BY <1>3, <1>t, <2>2, SaveWrites
      <3>2. /\ api'[cur] = o /\ lapses' = lapses
            /\ \A p \in Peers \ {cur} : api'[p] = api[p]
        BY <1>3, <1>t, <2>1, <2>2, <3>1 DEF TypeOK, SaveStatus
      <3>3. \/ api[cur].key = None \/ api[cur].key = loc.key
            \/ key[api[cur].key] = "gone"
        BY <2>1, <2>2 DEF Inv, KeyInHand
      <3>4. \A k \in Keys : Exists(k) => k # None /\ key[k] # "gone"
        BY DEF Exists
      <3>5. ASSUME NEW k \in Leaked' PROVE k \in Leaked
        <4>1. k \in Keys /\ Exists(k)
          BY <2>1, <3>5 DEF Exists
        <4>2. k # loc.key
          BY <2>1, <3>1, <3>2, <3>5
        <4>3. ASSUME NEW p \in Peers PROVE k # api[p].key
          BY <3>2, <3>3, <3>4, <3>5, <4>1, <4>2
        <4> QED
          BY <4>1, <4>2, <4>3
      <3> QED
        BY <3>2, <3>5
    <2>3. CASE ~fresh
      <3>1. lapses' = lapses + 1 /\ api' = api
        BY <1>3, <2>3 DEF SaveStatus
      <3>2. Leaked' \subseteq Leaked \cup {loc.key}
        BY <2>1, <3>1 DEF Exists
      <3> QED
        BY <3>1, <3>2
    <2> QED
      BY <2>2, <2>3
  <1>4. CASE DropFinalizer
    <2>1. /\ key' = key /\ cur \in Peers /\ pc = "dropFin" /\ lapses' = lapses
          /\ loc.key = None
      BY <1>4, <1>t DEF DropFinalizer, Running, PassState, DeletePcs, upstream, bounds
    <2>2. \A k \in Keys : Exists(k) => k # None /\ key[k] # "gone"
      BY DEF Exists
    <2>3. ASSUME NEW k \in Leaked' PROVE k \in Leaked
      <3>1. k \in Keys /\ Exists(k) /\ k # loc.key
        BY <2>1, <2>2, <2>3 DEF Exists
      <3>2. ASSUME NEW p \in Peers PROVE k # api[p].key
        <4>1. CASE ~fresh \/ p # cur
          BY <1>4, <1>t, <2>1, <2>3, <4>1 DEF DropFinalizer, TypeOK
        <4>2. CASE fresh /\ p = cur
          BY <2>1, <2>2, <3>1, <4>2 DEF Inv, KeyInHand
        <4> QED
          BY <4>1, <4>2
      <3> QED
        BY <3>1, <3>2
    <2> QED
      BY <2>1, <2>3
  <1>5. CASE Abort
    <2>1. UNCHANGED <<api, key>> /\ lapses' = lapses + 1
      BY <1>5 DEF Abort, objects, upstream
    <2>2. Leaked' \subseteq Leaked \cup {loc.key}
      BY <2>1 DEF Exists
    <2> QED
      BY <2>1, <2>2
  <1>6. CASE \E p \in Peers : CacheSync(p)
    BY <1>6 DEF CacheSync, pass, upstream, bounds, Exists
  <1>7. CASE \E p \in Peers : UserDelete(p) \/ UserToggles(p)
    <2> PICK p \in Peers : UserDelete(p) \/ UserToggles(p)
      BY <1>7
    <2>1. PICK o \in Objects : o.key = api[p].key /\ api' = [api EXCEPT ![p] = o]
      BY <1>t, UserKeeps
    <2>2. UNCHANGED <<loc, key, lapses>>
      BY <1>t, UserKeeps DEF upstream
    <2>3. \A q \in Peers : api'[q].key = api[q].key
      BY <1>t, <2>1 DEF TypeOK
    <2> QED
      BY <2>2, <2>3 DEF Exists
  <1>8. CASE Outside
    <2>1. UNCHANGED <<api, loc, lapses>>
      BY <1>8, OutsideKeeps DEF objects, pass
    <2>2. \A k \in Keys : Exists(k)' => Exists(k)
      BY <1>8, <1>t DEF Outside, SecretSync, GroupSync,
     DeploymentSync, ResourceSync, GroupBinds, UserDeletesSecret,
         ServiceExposes, ResourceGone, ResourceDeleted, AdminChangesKey,
         AdminChangesRouter, AdminEditsAccount, Done, vars, upstream, Exists,
         TypeOK
    <2> QED
      BY <2>1, <2>2
  <1> QED
    BY <1>1, <1>2, <1>3, <1>4, <1>5, <1>6, <1>7, <1>8, StepKinds

(* Every step keeps the bound.                                             *)
LEMMA StepLeak == LeakInv /\ [Next]_vars => LeakInv'
  <1> SUFFICES ASSUME LeakInv, [Next]_vars PROVE LeakInv'
    OBVIOUS
  <1>1. Inv' /\ lapses \in Nat
    BY StepInv DEF LeakInv, Inv, TypeOK
  <1>2. IsFiniteSet(Leaked) /\ Cardinality(Leaked) <= lapses
    BY DEF LeakInv
  <1>3. IsFiniteSet(Leaked') /\ Cardinality(Leaked') <= lapses'
    <2>1. CASE lapses' = lapses /\ Leaked' \subseteq Leaked
      BY <2>1, <1>1, <1>2, Shrink
    <2>2. CASE lapses' = lapses + 1 /\ \E x : Leaked' \subseteq Leaked \cup {x}
      BY <2>2, <1>1, <1>2, Grow
    <2> QED
      BY <2>1, <2>2, StepLeaked DEF LeakInv
  <1> QED
    BY <1>1, <1>3 DEF LeakInv

(* Every setup key that no status and no running pass knows is paid for by *)
(* a pass that could not save (the deferred status update), replaced and   *)
(* revoked keys and deletion included.                                     *)
THEOREM KeyLeaksBounded == Spec => []KeyLeaksAccounted
  <1>1. Init => LeakInv
    <2> SUFFICES ASSUME Init PROVE LeakInv
      OBVIOUS
    <2>1. Leaked = {} /\ lapses = 0
      BY DEF Init, Leaked, Exists
    <2> QED
      BY <2>1, InitInv, FS_EmptySet DEF LeakInv
  <1>2. LeakInv => KeyLeaksAccounted
    BY DEF LeakInv, KeyLeaksAccounted, Leaked
  <1> QED
    BY <1>1, <1>2, StepLeak, PTL DEF Spec

=============================================================================
