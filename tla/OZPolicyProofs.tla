--------------------------- MODULE OZPolicyProofs ---------------------------
(***************************************************************************)
(* Proofs about OZPolicy, for every set of ids and resources and every     *)
(* bound: type correctness, that the ids of the two protocols are never    *)
(* confused, and the accounting of the policies left behind.               *)
(***************************************************************************)
EXTENDS OZPolicy, FiniteSetTheorems, TLAPS

USE IdsAssumption, ExposesAssumption, BareAssumption, BoundsAssumption

-----------------------------------------------------------------------------
(* The invariant.                                                          *)

(* Whatever a copy of the object names for a protocol was created for it.  *)
Named(o) == \A p \in Protocols : o.ids[p] # None =>
              up[o.ids[p]] # "unused" /\ rule[o.ids[p]].proto = p
NamedIds == Named(api) /\ Named(cache) /\ Named(loc)

(* A live policy that the informer's copy names is the one the status      *)
(* names: old copies name nothing else that is alive.                      *)
StaleDead == \A p \in Protocols : cache.ids[p] # None /\ up[cache.ids[p]] = "live" =>
               cache.ids[p] = api.ids[p]

(* As long as nobody else has written the object, the pass still holds     *)
(* every live policy of the status.                                        *)
FreshHolds == pc # "idle" /\ fresh =>
                \A p \in Protocols : api.ids[p] # None /\ up[api.ids[p]] = "live" =>
                  loc.ids[p] = api.ids[p]

(* A deletion pass holds nothing of its own, and nothing of the protocols  *)
(* it is through with.                                                     *)
DeletionHolds ==
    pc \in {"delete", "delFin"} =>
      \A p \in Protocols :
        /\ loc.ids[p] # None /\ up[loc.ids[p]] = "live" => loc.ids[p] = api.ids[p]
        /\ p \notin todo \/ pc = "delFin" => loc.ids[p] = None

Inv == /\ TypeOK
       /\ NamedIds /\ StaleDead /\ FreshHolds /\ DeletionHolds
       /\ synced => cache = api
       /\ pc = "idle" => loc = Absent

-----------------------------------------------------------------------------
(* Types.                                                                  *)

(* Objects, and the writes that keep them objects.                         *)
LEMMA LiteralObjects ==
  /\ Absent \in Objects /\ Created \in Objects
  /\ \A p \in Protocols : Absent.ids[p] = None /\ Created.ids[p] = None
  BY DEF Absent, Created, NoIds, Objects, Protocols

LEMMA IdWrite ==
  ASSUME NEW o \in Objects, NEW p \in Protocols, NEW i \in Ids \cup {None}
  PROVE  /\ [o EXCEPT !.ids[p] = i] \in Objects
         /\ [o EXCEPT !.ids[p] = i].ids = [o.ids EXCEPT ![p] = i]
         /\ o.ids \in [Protocols -> Ids \cup {None}]
  BY DEF Objects

LEMMA ObjectFields ==
  ASSUME NEW o \in Objects
  PROVE  o.ids \in [Protocols -> Ids \cup {None}] /\ o.managed \in SUBSET Resources
  BY DEF Objects

LEMMA ObjectWrites ==
  ASSUME NEW o \in Objects, NEW m \in SUBSET Resources, NEW a \in SUBSET Protocols,
         NEW f \in [Protocols -> Ids \cup {None}], NEW b \in BOOLEAN
  PROVE  /\ [o EXCEPT !.managed = m] \in Objects
         /\ [o EXCEPT !.managed = m].ids = o.ids
         /\ [o EXCEPT !.allowed = a] \in Objects
         /\ [o EXCEPT !.allowed = a].ids = o.ids
         /\ [o EXCEPT !.phase = "deleting"] \in Objects
         /\ [o EXCEPT !.phase = "deleting"].ids = o.ids
         /\ [o EXCEPT !.ids = f, !.managed = m, !.ready = b] \in Objects
         /\ [o EXCEPT !.ids = f, !.managed = m, !.ready = b].ids = f
  BY DEF Objects

Rules == [proto : Protocols, dests : SUBSET Resources]

LEMMA RuleWrites ==
  ASSUME NEW r \in Rules, NEW D \in SUBSET Resources
  PROVE  [r EXCEPT !.dests = D] \in Rules /\ [r EXCEPT !.dests = D].proto = r.proto
  BY DEF Rules

(* At the start.                                                           *)
LEMMA InitInv == Init => Inv
  <1> SUFFICES ASSUME Init PROVE Inv
    OBVIOUS
  <1>1. api \in Objects /\ cache \in Objects /\ loc \in Objects
    BY LiteralObjects DEF Init
  <1>2. rule \in [Ids -> [proto : Protocols, dests : SUBSET Resources]]
    BY DEF Init, Protocols
  <1>3. events \in 0..MaxEvents /\ lapses \in Nat
    BY DEF Init
  <1>4. up \in [Ids -> {"unused", "live", "gone"}]
    BY DEF Init
  <1>5. TypeOK
    BY <1>1, <1>2, <1>3, <1>4 DEF Init, TypeOK
  <1> QED
    BY <1>5, LiteralObjects DEF Init, Inv, NamedIds, Named, StaleDead, FreshHolds,
       DeletionHolds

(* The bounded counters.                                                   *)
LEMMA StepCounts ==
  ASSUME TypeOK, [Next]_vars
  PROVE  lapses' \in Nat /\ events' \in 0..MaxEvents /\ lapses' \in {lapses, lapses + 1}
  <1>1. lapses' \in {lapses, lapses + 1}
    BY DEF Next, Step, Environment, Start, GetResources, SaveStatus, DropFinalizer,
       SyncSkip, SyncDelete, SyncCreate, SyncUpdate, DeletePolicy, Handled,
       Abort, CacheSync, NameInStatus, UserDelete, UserUpdate, Register,
       ResourceGone, AdminDelete, Event, vars
  <1>2. events' = events \/ (events < MaxEvents /\ events' = events + 1)
    BY DEF Next, Step, Environment, Start, GetResources, SaveStatus, DropFinalizer,
       SyncSkip, SyncDelete, SyncCreate, SyncUpdate, DeletePolicy, Handled,
       Abort, CacheSync, NameInStatus, UserDelete, UserUpdate, Register,
       ResourceGone, AdminDelete, Event, vars
  <1>3. lapses \in Nat /\ events \in 0..MaxEvents
    BY DEF TypeOK
  <1>4. events' \in 0..MaxEvents
    BY <1>2, <1>3
  <1>5. lapses' \in Nat
    BY <1>1, <1>3
  <1> QED
    BY <1>1, <1>4, <1>5

(* The rest of the types.                                                  *)
Types == /\ api \in Objects /\ cache \in Objects /\ loc \in Objects
         /\ synced \in BOOLEAN /\ fresh \in BOOLEAN
         /\ res \in [Resources -> {"none", "new", "named"}]
         /\ up \in [Ids -> {"unused", "live", "gone"}]
         /\ rule \in [Ids -> Rules]
         /\ pc \in {"idle", "resources", "sync", "save", "delete", "delFin"}
         /\ todo \subseteq Protocols /\ dests \subseteq Resources
         /\ requeue \in BOOLEAN /\ due \in BOOLEAN

LEMMA TypeParts == TypeOK <=> Types /\ lapses \in Nat /\ events \in 0..MaxEvents
  BY DEF TypeOK, Types, Rules

LEMMA StepTypes ==
  ASSUME Types, [Next]_vars PROVE Types'
  <1> USE LiteralObjects DEF Types
  <1>o. loc.ids \in [Protocols -> Ids \cup {None}] /\ loc.managed \in SUBSET Resources
    BY ObjectFields
  <1>1. CASE Start
    BY <1>1 DEF Start, k8s, upstream, pass
  <1>2. CASE GetResources
    <2> DEFINE found == {r \in loc.managed : res[r] # "none"}
    <2>1. found \in SUBSET Resources
      BY <1>o
    <2>2. [loc EXCEPT !.managed = found] \in Objects
      BY <1>o, <2>1, ObjectWrites
    <2>3. loc' \in Objects /\ dests' \in SUBSET Resources
      BY <1>2, <2>1, <2>2 DEF GetResources
    <2> QED
      BY <1>2, <2>3 DEF GetResources, k8s, upstream
  <1>3. CASE SaveStatus
    <2>1. [api EXCEPT !.ids = loc.ids, !.managed = loc.managed, !.ready = ~requeue]
            \in Objects
      BY <1>o, ObjectWrites
    <2>2. api' \in Objects
      BY <1>3, <2>1 DEF SaveStatus
    <2> QED
      BY <1>3, <2>2 DEF SaveStatus, EndPass, upstream
  <1>4. CASE DropFinalizer
    BY <1>4 DEF DropFinalizer, upstream
  <1>5. ASSUME NEW p \in Protocols, SyncSkip(p) PROVE Types'
    BY <1>5 DEF SyncSkip, Handled, k8s, upstream
  <1>6. ASSUME NEW p \in Protocols, SyncDelete(p) PROVE Types'
    <2>1. loc' \in Objects
      BY <1>6, IdWrite DEF SyncDelete
    <2>2. up' \in [Ids -> {"unused", "live", "gone"}]
      BY <1>6 DEF SyncDelete
    <2> QED
      BY <1>6, <2>1, <2>2 DEF SyncDelete, Handled, k8s
  <1>7. ASSUME NEW p \in Protocols, SyncCreate(p) PROVE Types'
    <2>1. PICK i \in Ids : /\ up' = [up EXCEPT ![i] = "live"]
                           /\ rule' = [rule EXCEPT ![i] = [proto |-> p, dests |-> dests]]
                           /\ loc' = [loc EXCEPT !.ids[p] = i]
      BY <1>7 DEF SyncCreate
    <2>2. loc' \in Objects
      BY <2>1, IdWrite
    <2>3. [proto |-> p, dests |-> dests] \in Rules
      BY DEF Rules
    <2>4. rule' \in [Ids -> Rules] /\ up' \in [Ids -> {"unused", "live", "gone"}]
      BY <2>1, <2>3
    <2> QED
      BY <1>7, <2>2, <2>4 DEF SyncCreate, Handled, k8s
  <1>8. ASSUME NEW p \in Protocols, SyncUpdate(p) PROVE Types'
    <2>1. loc' \in Objects
      BY <1>8, IdWrite DEF SyncUpdate
    <2>2. loc.ids[p] \in Ids
      BY <1>8, <1>o DEF SyncUpdate
    <2>3. [rule[loc.ids[p]] EXCEPT !.dests = dests] \in Rules
      BY <2>2, RuleWrites
    <2>4. rule' \in [Ids -> Rules]
      BY <1>8, <2>2, <2>3 DEF SyncUpdate
    <2> QED
      BY <1>8, <2>1, <2>4 DEF SyncUpdate, Handled, k8s
  <1>9. ASSUME NEW p \in Protocols, DeletePolicy(p) PROVE Types'
    <2>1. [loc EXCEPT !.ids[p] = None] \in Objects
      BY IdWrite
    <2>2. loc' \in Objects /\ up' \in [Ids -> {"unused", "live", "gone"}]
      BY <1>9, <2>1 DEF DeletePolicy, EndPass
    <2> QED
      BY <1>9, <2>2 DEF DeletePolicy, EndPass, k8s
  <1>10. CASE Abort
    BY <1>10 DEF Abort, EndPass, k8s, upstream
  <1>11. CASE CacheSync
    BY <1>11 DEF CacheSync, upstream, pass
  <1>12. ASSUME NEW r \in Resources, NameInStatus(r) PROVE Types'
    BY <1>12 DEF NameInStatus, upstream, pass
  <1>13. CASE UserDelete
    <2>1. api' \in Objects
      BY <1>13, <1>o, ObjectWrites DEF UserDelete
    <2> QED
      BY <1>13, <2>1 DEF UserDelete, Written, Event, upstream, pass
  <1>14. ASSUME NEW a \in SUBSET Protocols, UserUpdate(a) PROVE Types'
    <2>1. api' \in Objects
      BY <1>14, <1>o, ObjectWrites DEF UserUpdate
    <2> QED
      BY <1>14, <2>1 DEF UserUpdate, Written, Event, upstream, pass
  <1>15. ASSUME NEW r \in Resources, Register(r) PROVE Types'
    <2>1. api.managed \cup {r} \in SUBSET Resources
      BY ObjectFields
    <2>2. [api EXCEPT !.managed = api.managed \cup {r}] \in Objects
      BY <1>o, <2>1, ObjectWrites
    <2>3. api' \in Objects
      BY <1>15, <2>2 DEF Register
    <2> QED
      BY <1>15, <2>3 DEF Register, Written, Event, upstream, pass
  <1>16. ASSUME NEW r \in Resources, ResourceGone(r) PROVE Types'
    BY <1>16 DEF ResourceGone, Event, upstream, pass
  <1>17. ASSUME NEW i \in Ids, AdminDelete(i) PROVE Types'
    BY <1>17 DEF AdminDelete, Event, pass
  <1>18. CASE UNCHANGED vars
    BY <1>18 DEF vars
  <1> QED
    BY <1>1, <1>2, <1>3, <1>4, <1>5, <1>6, <1>7, <1>8, <1>9, <1>10, <1>11, <1>12,
       <1>13, <1>14, <1>15, <1>16, <1>17, <1>18 DEF Next, Step, Environment

LEMMA StepType == TypeOK /\ [Next]_vars => TypeOK'
  <1> SUFFICES ASSUME TypeOK, [Next]_vars PROVE TypeOK'
    OBVIOUS
  <1>1. Types'
    BY StepTypes, TypeParts
  <1>2. lapses' \in Nat /\ events' \in 0..MaxEvents
    BY StepCounts
  <1> QED
    BY <1>1, <1>2 DEF TypeOK, Types, Rules

(* Type correctness of the OZPolicy controller's passes and writes.        *)
THEOREM TypeCorrect == Spec => []TypeOK
  <1>1. Init => TypeOK
    BY InitInv DEF Inv
  <1> QED
    BY <1>1, StepType, PTL DEF Spec

-----------------------------------------------------------------------------
(* Every step keeps the invariant.                                         *)

(* Ids are used up and policies are lost, never the other way round; the   *)
(* protocol of a policy is fixed when it is created.                       *)
OneWay == \A i \in Ids : up[i] # "unused" =>
            /\ up'[i] # "unused" /\ rule'[i].proto = rule[i].proto
            /\ up'[i] = "live" => up[i] = "live"

NothingNew == \A i \in Ids : up'[i] = "live" => up[i] = "live"

(* A step that leaves the ids of the object and of the pass alone.         *)
Aside == /\ api'.ids = api.ids /\ cache' = cache /\ loc'.ids = loc.ids
         /\ synced' => synced /\ api' = api
         /\ fresh' => fresh
         /\ \/ UNCHANGED <<pc, loc, todo>>
            \/ pc \in {"resources", "sync"} /\ pc' \in {"sync", "save"}
         /\ NothingNew

(* The pass drops the id of a policy that is no longer there, or that it   *)
(* has just deleted.                                                       *)
Forget(p) == /\ pc = "sync" /\ pc' \in {"sync", "save"}
             /\ UNCHANGED <<api, cache, synced, fresh>>
             /\ loc.ids[p] # None /\ up'[loc.ids[p]] # "live"
             /\ loc'.ids = [loc.ids EXCEPT ![p] = None]
             /\ NothingNew

(* The pass creates a policy and holds its id.                             *)
Gain(p, i) == /\ pc = "sync" /\ pc' \in {"sync", "save"}
              /\ UNCHANGED <<api, cache, synced, fresh>>
              /\ loc.ids[p] = None /\ up[i] = "unused"
              /\ up' = [up EXCEPT ![i] = "live"]
              /\ rule'[i].proto = p
              /\ loc'.ids = [loc.ids EXCEPT ![p] = i]

(* Sync steps are of one of these kinds.                                   *)
LEMMA SyncKinds ==
  ASSUME Types, NEW p \in Protocols,
         SyncSkip(p) \/ SyncDelete(p) \/ SyncCreate(p) \/ SyncUpdate(p)
  PROVE  OneWay /\ (Aside \/ Forget(p) \/ \E i \in Ids : Gain(p, i))
  <1> USE DEF Types
  <1>o. loc.ids \in [Protocols -> Ids \cup {None}]
    BY ObjectFields
  <1>h. Handled(p) => /\ pc' \in {"sync", "save"}
                      /\ UNCHANGED <<api, cache, synced, fresh>>
    BY DEF Handled, k8s
  <1>1. CASE SyncSkip(p)
    BY <1>1, <1>h DEF SyncSkip, upstream, Aside, OneWay, NothingNew
  <1>2. CASE SyncDelete(p)
    <2>1. /\ pc = "sync" /\ Handled(p) /\ loc.ids[p] # None
          /\ up' = [up EXCEPT ![loc.ids[p]] = "gone"] /\ rule' = rule
          /\ loc' = [loc EXCEPT !.ids[p] = None]
      BY <1>2 DEF SyncDelete
    <2>2. loc.ids[p] \in Ids /\ loc'.ids = [loc.ids EXCEPT ![p] = None]
      BY <1>o, <2>1, IdWrite
    <2>3. OneWay
      BY <2>1, <2>2 DEF OneWay
    <2>4. Forget(p)
      BY <1>h, <2>1, <2>2 DEF Forget, NothingNew
    <2> QED
      BY <2>3, <2>4
  <1>3. CASE SyncCreate(p)
    <2>1. PICK i \in Ids : /\ up[i] = "unused"
                           /\ up' = [up EXCEPT ![i] = "live"]
                           /\ rule' = [rule EXCEPT ![i] = [proto |-> p, dests |-> dests]]
                           /\ loc' = [loc EXCEPT !.ids[p] = i]
      BY <1>3 DEF SyncCreate
    <2>2. pc = "sync" /\ Handled(p) /\ loc.ids[p] = None
      BY <1>3 DEF SyncCreate
    <2>3. loc'.ids = [loc.ids EXCEPT ![p] = i]
      BY <2>1, IdWrite
    <2>4. rule'[i].proto = p
      BY <2>1
    <2>5. OneWay
      BY <2>1 DEF OneWay
    <2>6. Gain(p, i)
      BY <1>h, <2>1, <2>2, <2>3, <2>4 DEF Gain
    <2> QED
      BY <2>5, <2>6
  <1>4. CASE SyncUpdate(p)
    <2>1. loc.ids[p] \in Ids /\ pc = "sync" /\ Handled(p) /\ up' = up
      BY <1>4, <1>o DEF SyncUpdate
    <2>2. CASE up[loc.ids[p]] = "live"
      <3>1. rule' = [rule EXCEPT ![loc.ids[p]].dests = dests] /\ loc' = loc
        BY <1>4, <2>2 DEF SyncUpdate
      <3>2. \A i \in Ids : rule'[i].proto = rule[i].proto
        <4>1. rule[loc.ids[p]] \in Rules
          BY <2>1
        <4> QED
          BY <2>1, <3>1, <4>1, RuleWrites
      <3> QED
        BY <1>h, <2>1, <3>1, <3>2 DEF Aside, OneWay, NothingNew
    <2>3. CASE up[loc.ids[p]] # "live"
      <3>1. loc' = [loc EXCEPT !.ids[p] = None] /\ rule' = rule
        BY <1>4, <2>3 DEF SyncUpdate
      <3>2. loc'.ids = [loc.ids EXCEPT ![p] = None]
        BY <3>1, IdWrite
      <3> QED
        BY <1>h, <2>1, <2>3, <3>1, <3>2 DEF Forget, OneWay, NothingNew
    <2> QED
      BY <2>2, <2>3
  <1> QED
    BY <1>1, <1>2, <1>3, <1>4

(* So are all steps, up to those that begin or end a pass.                 *)
LEMMA StepKinds ==
  ASSUME Types, [Next]_vars
  PROVE  /\ OneWay
         /\ \/ Aside
            \/ \E p \in Protocols : Forget(p) \/ \E i \in Ids : Gain(p, i)
            \/ Start \/ SaveStatus \/ DropFinalizer \/ Abort \/ CacheSync
            \/ \E p \in Protocols : DeletePolicy(p)
  <1> USE DEF Types
  <1>u. ASSUME UNCHANGED <<up, rule>> PROVE OneWay
    BY <1>u DEF OneWay
  <1>1. CASE Start \/ SaveStatus \/ DropFinalizer \/ Abort \/ CacheSync
    <2>1. UNCHANGED <<up, rule>>
      BY <1>1 DEF Start, SaveStatus, DropFinalizer, Abort, CacheSync, upstream
    <2> QED
      BY <1>1, <1>u, <2>1
  <1>2. CASE GetResources
    <2> DEFINE found == {r \in loc.managed : res[r] # "none"}
    <2>1. found \in SUBSET Resources
      BY ObjectFields
    <2>2. [loc EXCEPT !.managed = found].ids = loc.ids
      BY <2>1, ObjectWrites, ObjectFields
    <2>3. loc'.ids = loc.ids
      BY <1>2, <2>2 DEF GetResources
    <2>4. UNCHANGED <<up, rule>>
      BY <1>2 DEF GetResources, upstream
    <2> QED
      BY <1>2, <1>u, <2>3, <2>4 DEF GetResources, k8s, Aside, NothingNew
  <1>3. CASE \E p \in Protocols : DeletePolicy(p)
    <2>1. PICK p \in Protocols : DeletePolicy(p)
      BY <1>3
    <2>2. /\ rule' = rule
          /\ up' = up \/ up' = [i \in Ids |-> IF i = loc.ids[p] THEN "gone" ELSE up[i]]
      BY <2>1 DEF DeletePolicy
    <2>3. OneWay
      BY <2>2 DEF OneWay
    <2> QED
      BY <1>3, <2>3
  <1>4. CASE UserDelete
    <2>1. api'.ids = api.ids
      BY <1>4 DEF UserDelete, Objects
    <2> QED
      BY <1>4, <1>u, <2>1 DEF UserDelete, Written, Event, upstream, pass, Aside, NothingNew
  <1>5. ASSUME NEW a \in SUBSET Protocols, UserUpdate(a) PROVE Aside /\ OneWay
    <2>1. api'.ids = api.ids
      BY <1>5, ObjectWrites, ObjectFields DEF UserUpdate
    <2> QED
      BY <1>5, <1>u, <2>1 DEF UserUpdate, Written, Event, upstream, pass, Aside, NothingNew
  <1>6. ASSUME NEW r \in Resources, Register(r) PROVE Aside /\ OneWay
    <2>1. api.managed \cup {r} \in SUBSET Resources
      BY ObjectFields
    <2>2. [api EXCEPT !.managed = api.managed \cup {r}].ids = api.ids
      BY <2>1, ObjectWrites, ObjectFields
    <2>3. api'.ids = api.ids
      BY <1>6, <2>2 DEF Register
    <2> QED
      BY <1>6, <1>u, <2>3 DEF Register, Written, Event, upstream, pass, Aside, NothingNew
  <1>7. ASSUME NEW r \in Resources, NameInStatus(r) \/ ResourceGone(r)
        PROVE  Aside /\ OneWay
    BY <1>7, <1>u DEF NameInStatus, ResourceGone, Event, upstream, pass, Aside, NothingNew
  <1>8. ASSUME NEW i \in Ids, AdminDelete(i) PROVE Aside /\ OneWay
    <2>1. up' = [up EXCEPT ![i] = "gone"] /\ rule' = rule
      BY <1>8 DEF AdminDelete
    <2>2. OneWay /\ NothingNew
      BY <2>1 DEF OneWay, NothingNew
    <2> QED
      BY <1>8, <2>2 DEF AdminDelete, Event, pass, Aside
  <1>9. CASE UNCHANGED vars
    BY <1>9, <1>u DEF vars, Aside, NothingNew
  <1> QED
    BY <1>1, <1>2, <1>3, <1>4, <1>5, <1>6, <1>7, <1>8, <1>9, SyncKinds
       DEF Next, Step, Environment

(* What the steps that begin or end a pass do to the ids.                  *)
LEMMA PassWrites ==
  ASSUME Types
  PROVE  /\ SaveStatus => IF fresh THEN api'.ids = loc.ids /\ ~synced'
                                   ELSE UNCHANGED <<api, synced>>
         /\ SaveStatus \/ DropFinalizer \/ Abort => pc' = "idle" /\ loc' = Absent
  <1>1. ASSUME SaveStatus, fresh PROVE api'.ids = loc.ids /\ ~synced'
    <2>1. api' = [api EXCEPT !.ids = loc.ids, !.managed = loc.managed, !.ready = ~requeue]
      BY <1>1 DEF SaveStatus
    <2> QED
      BY <1>1, <2>1 DEF SaveStatus, Types, Objects
  <1>2. ASSUME SaveStatus, ~fresh PROVE UNCHANGED <<api, synced>>
    BY <1>2 DEF SaveStatus
  <1>3. ASSUME SaveStatus \/ DropFinalizer \/ Abort PROVE pc' = "idle" /\ loc' = Absent
    BY <1>3 DEF SaveStatus, DropFinalizer, Abort, EndPass
  <1> QED
    BY <1>1, <1>2, <1>3

(* A deletion step that goes on, and one that gives up.                    *)
LEMMA DeletionWrites ==
  ASSUME Types, NEW p \in Protocols, DeletePolicy(p)
  PROVE  /\ pc = "delete" /\ UNCHANGED <<api, cache, synced, fresh>>
         /\ \/ pc' = "idle" /\ loc' = Absent /\ up' = up
            \/ /\ pc' = IF todo = {p} THEN "delFin" ELSE "delete"
               /\ todo' = todo \ {p} /\ p \in todo
               /\ loc'.ids = [loc.ids EXCEPT ![p] = None]
               /\ up' = [i \in Ids |-> IF i = loc.ids[p] THEN "gone" ELSE up[i]]
  <1>1. pc = "delete" /\ p \in todo /\ UNCHANGED <<api, cache, synced, fresh>>
    BY DEF DeletePolicy, k8s
  <1>2. \/ pc' = "idle" /\ loc' = Absent /\ up' = up
        \/ /\ pc' = IF todo = {p} THEN "delFin" ELSE "delete"
           /\ todo' = todo \ {p}
           /\ loc' = [loc EXCEPT !.ids[p] = None]
           /\ up' = [i \in Ids |-> IF i = loc.ids[p] THEN "gone" ELSE up[i]]
    BY DEF DeletePolicy, EndPass
  <1>3. [loc EXCEPT !.ids[p] = None].ids = [loc.ids EXCEPT ![p] = None]
    BY IdWrite DEF Types
  <1> QED
    BY <1>1, <1>2, <1>3

LEMMA StepNamed ==
  ASSUME Types, NamedIds, [Next]_vars PROVE NamedIds'
  <1> USE DEF NamedIds, Named
  <1>o. /\ api.ids \in [Protocols -> Ids \cup {None}]
        /\ cache.ids \in [Protocols -> Ids \cup {None}]
        /\ loc.ids \in [Protocols -> Ids \cup {None}]
    BY ObjectFields DEF Types
  <1>w. OneWay
    BY StepKinds
  <1>k. ASSUME NEW o, o.ids \in [Protocols -> Ids \cup {None}], Named(o)
        PROVE  \A p \in Protocols : o.ids[p] # None =>
                 up'[o.ids[p]] # "unused" /\ rule'[o.ids[p]].proto = p
    <2> SUFFICES ASSUME NEW p \in Protocols, o.ids[p] # None
                 PROVE  up'[o.ids[p]] # "unused" /\ rule'[o.ids[p]].proto = p
      OBVIOUS
    <2>1. o.ids[p] \in Ids /\ up[o.ids[p]] # "unused" /\ rule[o.ids[p]].proto = p
      BY <1>k
    <2> QED
      BY <1>w, <2>1 DEF OneWay
  <1>a. Absent.ids \in [Protocols -> Ids \cup {None}] /\ Named(Absent)
    BY LiteralObjects, ObjectFields
  <1>1. CASE Aside
    BY <1>1, <1>o, <1>k DEF Aside
  <1>2. ASSUME NEW p \in Protocols, Forget(p) PROVE NamedIds'
    <2>1. Named(api)' /\ Named(cache)'
      BY <1>2, <1>o, <1>k DEF Forget
    <2>2. Named(loc)'
      BY <1>2, <1>o, <1>k DEF Forget
    <2> QED
      BY <2>1, <2>2
  <1>3. ASSUME NEW p \in Protocols, NEW i \in Ids, Gain(p, i) PROVE NamedIds'
    <2>1. Named(api)' /\ Named(cache)'
      BY <1>3, <1>o, <1>k DEF Gain
    <2>2. up'[i] = "live" /\ rule'[i].proto = p
      BY <1>3 DEF Gain, Types
    <2>3. Named(loc)'
      BY <1>3, <1>o, <1>k, <2>2 DEF Gain
    <2> QED
      BY <2>1, <2>3
  <1>4. CASE Start
    <2>1. UNCHANGED <<api, cache>> /\ loc' \in {loc, cache}
      BY <1>4 DEF Start, k8s, pass
    <2> QED
      BY <1>o, <1>k, <2>1
  <1>5. CASE SaveStatus
    <2>1. cache' = cache /\ loc' = Absent /\ (api' = api \/ api'.ids = loc.ids)
      BY <1>5, PassWrites DEF SaveStatus
    <2> QED
      BY <1>o, <1>k, <1>a, <2>1
  <1>6. CASE DropFinalizer \/ Abort
    <2>1. cache' = cache /\ loc' = Absent /\ api' \in {api, Absent}
      BY <1>6 DEF DropFinalizer, Abort, EndPass, k8s
    <2> QED
      BY <1>o, <1>k, <1>a, <2>1
  <1>7. CASE CacheSync
    BY <1>7, <1>o, <1>k DEF CacheSync, pass
  <1>8. ASSUME NEW p \in Protocols, DeletePolicy(p) PROVE NamedIds'
    <2>1. UNCHANGED <<api, cache>>
      BY <1>8, DeletionWrites
    <2>2. loc' = Absent \/ loc'.ids = [loc.ids EXCEPT ![p] = None]
      BY <1>8, DeletionWrites
    <2> QED
      BY <1>o, <1>k, <1>a, <2>1, <2>2
  <1> QED
    BY <1>1, <1>2, <1>3, <1>4, <1>5, <1>6, <1>7, <1>8, StepKinds

LEMMA StepInv == Inv /\ [Next]_vars => Inv'
  <1> SUFFICES ASSUME Inv, [Next]_vars PROVE Inv'
    OBVIOUS
  <1>t. TypeOK' /\ NamedIds' /\ Types /\ OneWay
    BY StepType, StepNamed, StepKinds, TypeParts DEF Inv
  <1> SUFFICES /\ StaleDead' /\ FreshHolds' /\ DeletionHolds'
               /\ synced' => cache' = api'
               /\ pc' = "idle" => loc' = Absent
    BY <1>t DEF Inv
  <1> USE LiteralObjects DEF Inv, StaleDead, FreshHolds, DeletionHolds
  <1>o. /\ api.ids \in [Protocols -> Ids \cup {None}]
        /\ cache.ids \in [Protocols -> Ids \cup {None}]
        /\ loc.ids \in [Protocols -> Ids \cup {None}]
    BY <1>t, ObjectFields DEF Types
  <1>n. \A p \in Protocols :
          /\ api.ids[p] # None /\ up'[api.ids[p]] = "live" => up[api.ids[p]] = "live"
          /\ cache.ids[p] # None /\ up'[cache.ids[p]] = "live" =>
               up[cache.ids[p]] = "live"
          /\ loc.ids[p] # None /\ up'[loc.ids[p]] = "live" => up[loc.ids[p]] = "live"
    <2>1. \A i \in Ids : up[i] # "unused" /\ up'[i] = "live" => up[i] = "live"
      BY <1>t DEF OneWay
    <2>2. \A p \in Protocols :
            /\ api.ids[p] # None => api.ids[p] \in Ids /\ up[api.ids[p]] # "unused"
            /\ cache.ids[p] # None => cache.ids[p] \in Ids /\ up[cache.ids[p]] # "unused"
            /\ loc.ids[p] # None => loc.ids[p] \in Ids /\ up[loc.ids[p]] # "unused"
      BY <1>o DEF NamedIds, Named
    <2> QED
      BY <2>1, <2>2
  <1>1. CASE Aside
    BY <1>1, <1>n DEF Aside
  <1>2. ASSUME NEW p \in Protocols, Forget(p)
        PROVE  /\ StaleDead' /\ FreshHolds' /\ DeletionHolds'
               /\ synced' => cache' = api'
               /\ pc' = "idle" => loc' = Absent
    <2>1. FreshHolds'
      BY <1>2, <1>n, <1>o DEF Forget
    <2> QED
      BY <1>2, <1>n, <2>1 DEF Forget
  <1>3. ASSUME NEW p \in Protocols, NEW i \in Ids, Gain(p, i)
        PROVE  /\ StaleDead' /\ FreshHolds' /\ DeletionHolds'
               /\ synced' => cache' = api'
               /\ pc' = "idle" => loc' = Absent
    <2>1. FreshHolds'
      BY <1>3, <1>n, <1>o DEF Gain
    <2> QED
      BY <1>3, <1>n, <2>1 DEF Gain
  <1>4. CASE Start
    <2>1. /\ pc = "idle" /\ fresh' = synced
          /\ UNCHANGED <<api, cache, synced, up>>
          /\ \/ UNCHANGED <<pc, loc>>
             \/ pc' \in {"resources", "delete"} /\ loc' = cache /\ todo' = Protocols
      BY <1>4 DEF Start, k8s, upstream, pass
    <2> QED
      BY <2>1
  <1>5. CASE SaveStatus
    <2>1. /\ pc = "save" /\ pc' = "idle" /\ loc' = Absent /\ UNCHANGED <<cache, up>>
          /\ IF fresh THEN api'.ids = loc.ids /\ ~synced'
                      ELSE UNCHANGED <<api, synced>>
      BY <1>5, <1>t, PassWrites DEF SaveStatus, upstream
    <2> QED
      BY <2>1
  <1>6. CASE DropFinalizer
    <2>1. /\ pc = "delFin" /\ pc' = "idle" /\ loc' = Absent /\ UNCHANGED <<cache, up>>
          /\ IF fresh THEN api' = Absent /\ ~synced' ELSE api' = api /\ (synced' => synced)
      BY <1>6 DEF DropFinalizer, upstream
    <2> QED
      BY <2>1
  <1>7. CASE Abort
    BY <1>7 DEF Abort, EndPass, k8s, upstream
  <1>8. CASE CacheSync
    BY <1>8 DEF CacheSync, pass, upstream
  <1>9. ASSUME NEW p \in Protocols, DeletePolicy(p)
        PROVE  /\ StaleDead' /\ FreshHolds' /\ DeletionHolds'
               /\ synced' => cache' = api'
               /\ pc' = "idle" => loc' = Absent
    <2>1. pc = "delete" /\ UNCHANGED <<api, cache, synced, fresh>>
      BY <1>9, <1>t, DeletionWrites
    <2>2. CASE pc' = "idle" /\ loc' = Absent /\ up' = up
      BY <2>1, <2>2
    <2>3. CASE /\ pc' = IF todo = {p} THEN "delFin" ELSE "delete"
               /\ todo' = todo \ {p} /\ p \in todo
               /\ loc'.ids = [loc.ids EXCEPT ![p] = None]
               /\ up' = [i \in Ids |-> IF i = loc.ids[p] THEN "gone" ELSE up[i]]
      <3>1. loc.ids[p] # None => up'[loc.ids[p]] # "live"
        BY <1>o, <2>3
      <3>2. FreshHolds'
        BY <1>n, <1>o, <2>1, <2>3, <3>1
      <3>3. DeletionHolds'
        BY <1>n, <1>o, <2>1, <2>3
      <3> QED
        BY <1>n, <2>1, <2>3, <3>2, <3>3
    <2> QED
      BY <1>9, <1>t, <2>2, <2>3, DeletionWrites
  <1> QED
    BY <1>1, <1>2, <1>3, <1>4, <1>5, <1>6, <1>7, <1>8, <1>9, <1>t, StepKinds

(* The ids of the two protocols are never confused: IdsMatchProtocol for   *)
(* every set of ids and resources.                                         *)
THEOREM IdsNotConfused == Spec => []IdsMatchProtocol
  <1>1. Inv => IdsMatchProtocol
    BY DEF Inv, NamedIds, Named, IdsMatchProtocol
  <1> QED
    BY <1>1, InitInv, StepInv, PTL DEF Spec

-----------------------------------------------------------------------------
(* Policies left behind.                                                   *)

(* Shrinking a bounded set keeps the bound; one more element raises it by  *)
(* one.                                                                    *)
LEMMA Shrink ==
  ASSUME NEW A, NEW B, NEW n \in Nat, IsFiniteSet(A), Cardinality(A) <= n,
         B \subseteq A
  PROVE  IsFiniteSet(B) /\ Cardinality(B) <= n
  BY FS_Subset, FS_CardinalityType

LEMMA Grow ==
  ASSUME NEW A, NEW B, NEW x, NEW n \in Nat, IsFiniteSet(A),
         Cardinality(A) <= n, B \subseteq A \cup {x}
  PROVE  IsFiniteSet(B) /\ Cardinality(B) <= n + 1
  <1>1. Cardinality(A) \in Nat
    BY FS_CardinalityType
  <1>2. /\ IsFiniteSet(A \cup {x})
        /\ Cardinality(A \cup {x}) \in {Cardinality(A), Cardinality(A) + 1}
    BY FS_AddElement
  <1>3. Cardinality(A \cup {x}) <= n + 1 /\ Cardinality(A \cup {x}) \in Nat
    BY <1>1, <1>2
  <1> QED
    BY <1>2, <1>3, Shrink

LEMMA GrowByTwo ==
  ASSUME NEW A, NEW B, NEW x, NEW y, NEW n \in Nat, IsFiniteSet(A),
         Cardinality(A) <= n, B \subseteq (A \cup {x}) \cup {y}
  PROVE  IsFiniteSet(B) /\ Cardinality(B) <= (n + 1) + 1
  <1>1. IsFiniteSet(A \cup {x}) /\ Cardinality(A \cup {x}) <= n + 1
    BY Grow
  <1>2. PICK m \in Nat : m = n + 1
    OBVIOUS
  <1>3. IsFiniteSet(B) /\ Cardinality(B) <= m + 1
    BY <1>1, <1>2, Grow
  <1> QED
    BY <1>2, <1>3

(* What a copy of the object names.                                        *)
LEMMA TrackedIds ==
  ASSUME NEW o, NEW i \in Ids
  PROVE  i \in Tracked(o) <=> i = o.ids["tcp"] \/ i = o.ids["udp"]
  BY DEF Tracked, Protocols

(* No step leaves a policy behind unless it is a lapse, which leaves those *)
(* the pass holds, one per protocol.                                       *)
LEMMA StepOrphans ==
  ASSUME Inv, [Next]_vars
  PROVE  \/ Orphans' \subseteq Orphans
         \/ /\ lapses' = lapses + 1
            /\ \E x, y : Orphans' \subseteq (Orphans \cup {x}) \cup {y}
  <1>t. Types /\ OneWay
    BY StepKinds, TypeParts DEF Inv
  <1>o. /\ api.ids \in [Protocols -> Ids \cup {None}]
        /\ cache.ids \in [Protocols -> Ids \cup {None}]
        /\ loc.ids \in [Protocols -> Ids \cup {None}]
    BY <1>t, ObjectFields DEF Types
  <1>a. Absent.ids["tcp"] = None /\ Absent.ids["udp"] = None
    BY LiteralObjects DEF Protocols
  <1>q. "tcp" \in Protocols /\ "udp" \in Protocols
    BY DEF Protocols
  <1>i. \A i \in Ids : i \in Orphans <=>
          /\ up[i] = "live"
          /\ i # api.ids["tcp"] /\ i # api.ids["udp"]
          /\ i # loc.ids["tcp"] /\ i # loc.ids["udp"]
    BY TrackedIds DEF Orphans
  <1>j. \A i \in Ids : i \in Orphans' <=>
          /\ up'[i] = "live"
          /\ i # api'.ids["tcp"] /\ i # api'.ids["udp"]
          /\ i # loc'.ids["tcp"] /\ i # loc'.ids["udp"]
    BY TrackedIds DEF Orphans, Tracked, Protocols
  <1>s. Orphans \subseteq Ids /\ Orphans' \subseteq Ids
    BY DEF Orphans
  <1>1. CASE Aside
    BY <1>1, <1>i, <1>j, <1>s DEF Aside, NothingNew
  <1>2. ASSUME NEW p \in Protocols, Forget(p) PROVE Orphans' \subseteq Orphans
    <2>1. \A i \in Ids : up'[i] = "live" => i # loc.ids[p]
      BY <1>2 DEF Forget
    <2>2. \A r \in Protocols : loc'.ids[r] = loc.ids[r] \/ r = p
      BY <1>2, <1>o DEF Forget
    <2> QED
      BY <1>2, <1>i, <1>j, <1>s, <1>q, <2>1, <2>2 DEF Forget, NothingNew
  <1>3. ASSUME NEW p \in Protocols, NEW g \in Ids, Gain(p, g)
        PROVE  Orphans' \subseteq Orphans
    <2>1. loc'.ids[p] = g /\ loc.ids[p] = None
      BY <1>3, <1>o DEF Gain
    <2>2. \A r \in Protocols : loc'.ids[r] = loc.ids[r] \/ r = p
      BY <1>3, <1>o DEF Gain
    <2>3. \A i \in Ids : i # g => up'[i] = up[i]
      BY <1>3, <1>t DEF Gain, Types
    <2>4. p = "tcp" \/ p = "udp"
      BY DEF Protocols
    <2> QED
      BY <1>3, <1>i, <1>j, <1>s, <1>q, <2>1, <2>2, <2>3, <2>4 DEF Gain
  <1>4. CASE Start
    <2>1. UNCHANGED <<api, up>> /\ loc = Absent
      BY <1>4 DEF Start, k8s, upstream, Inv
    <2> QED
      BY <1>a, <1>i, <1>j, <1>s, <2>1
  <1>5. CASE SaveStatus
    <2>1. pc # "idle" /\ loc' = Absent /\ up' = up
      BY <1>5 DEF SaveStatus, EndPass, upstream
    <2>2. CASE fresh
      <3>1. api'.ids = loc.ids
        BY <1>5, <1>t, <2>2, PassWrites
      <3>2. \A p \in Protocols : api.ids[p] # None /\ up[api.ids[p]] = "live" =>
              loc.ids[p] = api.ids[p]
        BY <2>1, <2>2 DEF Inv, FreshHolds
      <3> QED
        BY <1>a, <1>i, <1>j, <1>s, <1>q, <2>1, <3>1, <3>2
    <2>3. CASE ~fresh
      <3>1. lapses' = lapses + 1 /\ api' = api
        BY <1>5, <2>3 DEF SaveStatus
      <3>2. Orphans' \subseteq (Orphans \cup {loc.ids["tcp"]}) \cup {loc.ids["udp"]}
        BY <1>i, <1>j, <1>s, <2>1, <3>1
      <3> QED
        BY <3>1, <3>2
    <2> QED
      BY <2>2, <2>3
  <1>6. CASE DropFinalizer
    <2>1. pc = "delFin" /\ loc' = Absent /\ up' = up /\ api' = IF fresh THEN Absent ELSE api
      BY <1>6 DEF DropFinalizer, upstream
    <2>2. loc.ids["tcp"] = None /\ loc.ids["udp"] = None
      BY <1>q, <2>1 DEF Inv, DeletionHolds
    <2>3. fresh => \A p \in Protocols : api.ids[p] # None /\ up[api.ids[p]] = "live" =>
                     loc.ids[p] = api.ids[p]
      BY <2>1 DEF Inv, FreshHolds
    <2> QED
      BY <1>a, <1>i, <1>j, <1>s, <1>q, <2>1, <2>2, <2>3
  <1>7. CASE Abort
    <2>1. lapses' = lapses + 1 /\ api' = api /\ up' = up
      BY <1>7 DEF Abort, k8s, upstream
    <2>2. Orphans' \subseteq (Orphans \cup {loc.ids["tcp"]}) \cup {loc.ids["udp"]}
      BY <1>i, <1>j, <1>s, <2>1
    <2> QED
      BY <2>1, <2>2
  <1>8. CASE CacheSync
    BY <1>8, <1>i, <1>j, <1>s DEF CacheSync, pass, upstream
  <1>9. ASSUME NEW p \in Protocols, DeletePolicy(p) PROVE Orphans' \subseteq Orphans
    <2>1. pc = "delete" /\ api' = api
      BY <1>9, <1>t, DeletionWrites
    <2>2. CASE loc' = Absent /\ up' = up
      <3>1. \A r \in Protocols : loc.ids[r] # None /\ up[loc.ids[r]] = "live" =>
              loc.ids[r] = api.ids[r]
        BY <2>1 DEF Inv, DeletionHolds
      <3> QED
        BY <1>a, <1>i, <1>j, <1>s, <1>q, <2>1, <2>2, <3>1
    <2>3. CASE /\ loc'.ids = [loc.ids EXCEPT ![p] = None]
               /\ up' = [i \in Ids |-> IF i = loc.ids[p] THEN "gone" ELSE up[i]]
      <3>1. \A r \in Protocols : loc'.ids[r] = loc.ids[r] \/ r = p
        BY <1>o, <2>3
      <3>2. \A i \in Ids : up'[i] = "live" => up[i] = "live" /\ i # loc.ids[p]
        BY <2>3
      <3> QED
        BY <1>i, <1>j, <1>s, <1>q, <2>1, <3>1, <3>2
    <2> QED
      BY <1>9, <1>t, <2>2, <2>3, DeletionWrites
  <1> QED
    BY <1>1, <1>2, <1>3, <1>4, <1>5, <1>6, <1>7, <1>8, <1>9, <1>t, StepKinds

(* The bound on the policies left behind.                                  *)
LeakInv == Inv /\ IsFiniteSet(Orphans) /\ LeaksAccounted

LEMMA InitLeak == Init => LeakInv
  <1> SUFFICES ASSUME Init PROVE LeakInv
    OBVIOUS
  <1>1. Orphans = {}
    BY DEF Init, Orphans
  <1> QED
    BY <1>1, InitInv, FS_EmptySet DEF LeakInv, LeaksAccounted, Init

LEMMA StepLeak == LeakInv /\ [Next]_vars => LeakInv'
  <1> SUFFICES ASSUME LeakInv, [Next]_vars PROVE LeakInv'
    OBVIOUS
  <1>1. Inv /\ Inv' /\ IsFiniteSet(Orphans) /\ Cardinality(Orphans) <= 2 * lapses
    BY StepInv DEF LeakInv, LeaksAccounted
  <1>2. lapses \in Nat /\ lapses' \in {lapses, lapses + 1}
    BY <1>1, StepCounts DEF Inv, TypeOK
  <1>3. 2 * lapses \in Nat /\ 2 * (lapses + 1) = (2 * lapses + 1) + 1
    BY <1>2
  <1>4. CASE Orphans' \subseteq Orphans
    <2>1. IsFiniteSet(Orphans') /\ Cardinality(Orphans') <= 2 * lapses
      BY <1>1, <1>3, <1>4, Shrink
    <2>2. Cardinality(Orphans') \in Nat
      BY <2>1, FS_CardinalityType
    <2>3. Cardinality(Orphans') <= 2 * lapses'
      BY <1>2, <2>1, <2>2
    <2> QED
      BY <1>1, <2>1, <2>3 DEF LeakInv, LeaksAccounted
  <1>5. CASE /\ lapses' = lapses + 1
             /\ \E x, y : Orphans' \subseteq (Orphans \cup {x}) \cup {y}
    <2>1. PICK x, y : Orphans' \subseteq (Orphans \cup {x}) \cup {y}
      BY <1>5
    <2>2. PICK n \in Nat : n = 2 * lapses
      BY <1>3
    <2>3. IsFiniteSet(Orphans) /\ Cardinality(Orphans) <= n
      BY <1>1, <2>2
    <2>4. IsFiniteSet(Orphans') /\ Cardinality(Orphans') <= (n + 1) + 1
      BY <2>1, <2>3, GrowByTwo
    <2>5. Cardinality(Orphans') <= 2 * lapses'
      BY <1>3, <1>5, <2>2, <2>4
    <2> QED
      BY <1>1, <2>4, <2>5 DEF LeakInv, LeaksAccounted
  <1> QED
    BY <1>1, <1>4, <1>5, StepOrphans

(* A lapse leaves at most one policy per protocol behind and nothing else  *)
(* leaves any, the deletion of the object included: LeaksAccounted for     *)
(* every number of ids, resources and lapses.                              *)
THEOREM LeaksBounded == Spec => []LeaksAccounted
  <1>1. LeakInv => LeaksAccounted
    BY DEF LeakInv
  <1> QED
    BY <1>1, InitLeak, StepLeak, PTL DEF Spec

=============================================================================
