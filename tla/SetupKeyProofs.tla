--------------------------- MODULE SetupKeyProofs ---------------------------
(***************************************************************************)
(* Proofs about SetupKey for every set of keys and every bound.            *)
(***************************************************************************)
EXTENDS SetupKey, FiniteSetTheorems, TLAPS

(* No status, cached or read, names a key that was never created.          *)
KnownIds ==
    /\ api.sid # None => up[api.sid] # "unused"
    /\ cache.sid # None => up[cache.sid] # "unused"
    /\ loc.sid # None => up[loc.sid] # "unused"

(* The pass holds a key it created exactly from CreateKey to PatchReady;   *)
(* it is not the key it replaces, and the operator has not deleted it.     *)
NewKey ==
    /\ pc \in {"patchId", "apply", "delOld", "patchReady"} <=> new # None
    /\ new # None => up[new] \notin {"unused", "deleted"} /\ new # loc.sid

(* By the time the old key is deleted the Secret holds the new one.        *)
SecretReplaced == pc = "delOld" => secret \in {new, None} \cup Edits

(* Caches lag but do not invent: a copy seen deleting is of an object that *)
(* is deleting or gone, and only such a pass is in reconcileDelete.        *)
DeletionSeen ==
    /\ cache.phase = "deleting" => api.phase # "live"
    /\ pc \in {"delKey", "delFin"} => api.phase # "live" /\ cache.phase # "live"

(* Where the finalizer is known to be on the object.                       *)
FinalizerOn ==
    /\ api.phase = "gone" => ~api.fin
    /\ api.phase = "deleting" => api.fin
    /\ cache.phase = "live" /\ cache.fin => api.fin
    /\ pc \in {"groups", "finalizer"} /\ loc.fin => api.fin
    /\ pc \in {"getKey", "getSecret", "update", "create", "patchId", "apply",
               "delOld", "patchReady"} => api.fin

(* The pass calls the service about the key of the status only if there    *)
(* is one.                                                                 *)
IdInHand ==
    pc \in {"getKey", "getSecret", "update", "delOld", "delKey"} => loc.sid # None

Inv == /\ TypeOK /\ KnownIds /\ NewKey /\ SecretReplaced /\ DeletionSeen
       /\ FinalizerOn /\ IdInHand /\ SecretKeyNotDeleted /\ FinalizerGuardsKey

USE NoneAssumption, EditsAssumption, BoundsAssumption

(* The two object literals of the module are objects.                      *)
LEMMA LiteralObjects == Absent \in Objects /\ Created \in Objects
  BY DEF Absent, Created, Objects, Phases

(* The initial state has the right types.                                  *)
LEMMA InitType == Init => TypeOK
  <1> SUFFICES ASSUME Init PROVE TypeOK
    OBVIOUS
  <1> USE DEF Init
  <1>1. api \in Objects /\ cache \in Objects /\ loc \in Objects
    BY LiteralObjects
  <1>2. secret \in Contents /\ scache \in Contents
    BY DEF Contents
  <1>3. up \in [Keys -> UpStates] /\ groups \in [Keys -> 0..MaxGen]
    BY DEF UpStates
  <1>4. pc \in Pcs /\ new \in Keys \cup {None} /\ due \in BOOLEAN
    BY DEF Pcs
  <1>5. lapses \in 0..MaxLapses /\ lags \in 0..MaxLags /\ events \in 0..MaxEvents
    OBVIOUS
  <1> QED
    BY <1>1, <1>2, <1>3, <1>4, <1>5 DEF TypeOK

(* Every step keeps the types.                                             *)
LEMMA StepType == TypeOK /\ [Next]_vars => TypeOK'
  <1> SUFFICES ASSUME TypeOK, [Next]_vars PROVE TypeOK'
    OBVIOUS
  <1> USE LiteralObjects DEF TypeOK, Contents, UpStates, Pcs, world, counters,
        EndPass, Goto, Exists, DeleteUpstream
  <1>1. CASE Start
    <2> USE <1>1 DEF Start
    <2>1. api' \in Objects /\ cache' \in Objects /\ loc' \in Objects
      BY DEF Objects, Phases
    <2>2. secret' \in Contents /\ scache' \in Contents /\ new' \in Keys \cup {None}
      OBVIOUS
    <2>3. up' \in [Keys -> UpStates] /\ groups' \in [Keys -> 0..MaxGen]
      BY DEF Objects
    <2>4. pc' \in Pcs /\ due' \in BOOLEAN
      OBVIOUS
    <2>5. lapses' \in 0..MaxLapses /\ lags' \in 0..MaxLags /\ events' \in 0..MaxEvents
      OBVIOUS
    <2> QED
      BY <2>1, <2>2, <2>3, <2>4, <2>5
  <1>2. CASE GetGroupIDs
    BY <1>2 DEF GetGroupIDs
  <1>3. CASE AddFinalizer
    <2> USE <1>3 DEF AddFinalizer
    <2>1. api' \in Objects /\ cache' \in Objects /\ loc' \in Objects
      BY DEF Objects, Phases
    <2>2. secret' \in Contents /\ scache' \in Contents /\ new' \in Keys \cup {None}
      OBVIOUS
    <2>3. up' \in [Keys -> UpStates] /\ groups' \in [Keys -> 0..MaxGen]
      BY DEF Objects
    <2>4. pc' \in Pcs /\ due' \in BOOLEAN
      OBVIOUS
    <2>5. lapses' \in 0..MaxLapses /\ lags' \in 0..MaxLags /\ events' \in 0..MaxEvents
      OBVIOUS
    <2> QED
      BY <2>1, <2>2, <2>3, <2>4, <2>5
  <1>4. CASE GetKey
    BY <1>4 DEF GetKey
  <1>5. CASE GetSecret
    <2> USE <1>5 DEF GetSecret
    <2>1. api' \in Objects /\ cache' \in Objects /\ loc' \in Objects
      BY DEF Objects, Phases
    <2>2. secret' \in Contents /\ scache' \in Contents /\ new' \in Keys \cup {None}
      OBVIOUS
    <2>3. up' \in [Keys -> UpStates] /\ groups' \in [Keys -> 0..MaxGen]
      BY DEF Objects
    <2>4. pc' \in Pcs /\ due' \in BOOLEAN
      OBVIOUS
    <2>5. lapses' \in 0..MaxLapses /\ lags' \in 0..MaxLags /\ events' \in 0..MaxEvents
      OBVIOUS
    <2> QED
      BY <2>1, <2>2, <2>3, <2>4, <2>5
  <1>6. CASE UpdateKey
    <2> USE <1>6 DEF UpdateKey
    <2>1. api' \in Objects /\ cache' \in Objects /\ loc' \in Objects
      BY DEF Objects, Phases
    <2>2. secret' \in Contents /\ scache' \in Contents /\ new' \in Keys \cup {None}
      OBVIOUS
    <2>3. up' \in [Keys -> UpStates] /\ groups' \in [Keys -> 0..MaxGen]
      BY DEF Objects
    <2>4. pc' \in Pcs /\ due' \in BOOLEAN
      OBVIOUS
    <2>5. lapses' \in 0..MaxLapses /\ lags' \in 0..MaxLags /\ events' \in 0..MaxEvents
      OBVIOUS
    <2> QED
      BY <2>1, <2>2, <2>3, <2>4, <2>5
  <1>7. CASE CreateKey
    BY <1>7 DEF CreateKey, Objects, Phases
  <1>8. CASE PatchId
    <2> USE <1>8 DEF PatchId
    <2>1. api' \in Objects
      BY DEF Objects, Phases
    <2>2. pc' \in Pcs /\ due' \in BOOLEAN /\ loc' \in Objects /\ new' \in Keys \cup {None}
      OBVIOUS
    <2>3. UNCHANGED <<cache, secret, scache, up, groups, counters>>
      OBVIOUS
    <2> QED
      BY <2>1, <2>2, <2>3
  <1>9. CASE ApplySecret
    BY <1>9 DEF ApplySecret
  <1>10. CASE DeleteOldKey
    BY <1>10 DEF DeleteOldKey
  <1>11. CASE PatchReady
    BY <1>11 DEF PatchReady, Objects, Phases
  <1>12. CASE DeleteKey
    BY <1>12 DEF DeleteKey
  <1>13. CASE RemoveFinalizer
    BY <1>13 DEF RemoveFinalizer
  <1>14. CASE Abort
    BY <1>14 DEF Abort
  <1>15. CASE CacheSync
    BY <1>15 DEF CacheSync
  <1>16. CASE SecretSync
    BY <1>16 DEF SecretSync
  <1>17. CASE UserDelete
    BY <1>17 DEF UserDelete, Objects, Phases
  <1>18. CASE UserUpdate
    BY <1>18 DEF UserUpdate, Objects, Phases
  <1>19. CASE \E c \in Edits \cup {None} : UserEditSecret(c)
    BY <1>19 DEF UserEditSecret
  <1>20. CASE \E k \in Keys, s \in {"revoked", "overused", "removed"} :
               AdminChange(k, s)
    BY <1>20 DEF AdminChange
  <1>21. CASE CollectSecret
    BY <1>21 DEF CollectSecret
  <1>22. CASE Done \/ UNCHANGED vars
    BY <1>22 DEF Done, vars
  <1> QED
    BY <1>1, <1>2, <1>3, <1>4, <1>5, <1>6, <1>7, <1>8, <1>9, <1>10, <1>11,
       <1>12, <1>13, <1>14, <1>15, <1>16, <1>17, <1>18, <1>19, <1>20, <1>21,
       <1>22 DEF Next, Step, Environment

(* The initial state satisfies the invariant.                              *)
LEMMA InitInv == Init => Inv
  <1> SUFFICES ASSUME Init PROVE Inv
    OBVIOUS
  <1>1. TypeOK
    BY InitType
  <1>2. KnownIds /\ NewKey /\ SecretReplaced /\ DeletionSeen /\ FinalizerOn
        /\ IdInHand /\ SecretKeyNotDeleted /\ FinalizerGuardsKey
    BY DEF Init, KnownIds, NewKey, SecretReplaced, DeletionSeen, FinalizerOn,
           IdInHand, SecretKeyNotDeleted, FinalizerGuardsKey, Created, Absent
  <1> QED
    BY <1>1, <1>2 DEF Inv

(* Every step keeps the invariant.                                         *)
LEMMA StepInv == Inv /\ [Next]_vars => Inv'
  <1> SUFFICES ASSUME Inv, [Next]_vars PROVE Inv'
    OBVIOUS
  <1>type. TypeOK'
    BY StepType DEF Inv
  <1> SUFFICES /\ KnownIds' /\ NewKey' /\ SecretReplaced' /\ DeletionSeen'
               /\ FinalizerOn' /\ IdInHand' /\ SecretKeyNotDeleted'
               /\ FinalizerGuardsKey'
    BY <1>type DEF Inv
  <1> USE DEF Inv, TypeOK, KnownIds, NewKey, SecretReplaced, DeletionSeen,
         FinalizerOn, IdInHand, SecretKeyNotDeleted, FinalizerGuardsKey,
         Absent, Objects, Phases, Contents, UpStates, Pcs, world, counters,
         EndPass, Goto, Exists, DeleteUpstream
  <1>1. CASE Start
    BY <1>1 DEF Start
  <1>2. CASE GetGroupIDs
    BY <1>2 DEF GetGroupIDs
  <1>3. CASE AddFinalizer
    BY <1>3 DEF AddFinalizer
  <1>4. CASE GetKey
    BY <1>4 DEF GetKey
  <1>5. CASE GetSecret
    BY <1>5 DEF GetSecret
  <1>6. CASE UpdateKey
    BY <1>6 DEF UpdateKey
  <1>7. CASE CreateKey
    BY <1>7 DEF CreateKey
  <1>8. CASE PatchId
    BY <1>8 DEF PatchId
  <1>9. CASE ApplySecret
    BY <1>9 DEF ApplySecret
  <1>10. CASE DeleteOldKey
    BY <1>10 DEF DeleteOldKey
  <1>11. CASE PatchReady
    BY <1>11 DEF PatchReady
  <1>12. CASE DeleteKey
    BY <1>12 DEF DeleteKey
  <1>13. CASE RemoveFinalizer
    BY <1>13 DEF RemoveFinalizer
  <1>14. CASE Abort
    BY <1>14 DEF Abort
  <1>15. CASE CacheSync
    BY <1>15 DEF CacheSync
  <1>16. CASE SecretSync
    BY <1>16 DEF SecretSync
  <1>17. CASE UserDelete
    BY <1>17 DEF UserDelete
  <1>18. CASE UserUpdate
    BY <1>18 DEF UserUpdate
  <1>19. CASE \E c \in Edits \cup {None} : UserEditSecret(c)
    BY <1>19 DEF UserEditSecret
  <1>20. CASE \E k \in Keys, s \in {"revoked", "overused", "removed"} :
               AdminChange(k, s)
    BY <1>20 DEF AdminChange
  <1>21. CASE CollectSecret
    BY <1>21 DEF CollectSecret
  <1>22. CASE Done \/ UNCHANGED vars
    BY <1>22 DEF Done, vars
  <1> QED
    BY <1>1, <1>2, <1>3, <1>4, <1>5, <1>6, <1>7, <1>8, <1>9, <1>10, <1>11,
       <1>12, <1>13, <1>14, <1>15, <1>16, <1>17, <1>18, <1>19, <1>20, <1>21,
       <1>22 DEF Next, Step, Environment

(* Inv holds in every reachable state.                                     *)
THEOREM Invariance == Spec => []Inv
  BY InitInv, StepInv, PTL DEF Spec

(* Type correctness of the SetupKey controller's passes and patches.       *)
THEOREM TypeCorrect == Spec => []TypeOK
  BY InitType, StepType, PTL DEF Spec

(* While the object is live, the operator never has deleted the key that   *)
(* the Secret holds (Reconcile's order: status, Secret, old key).          *)
THEOREM SecretSafe == Spec => []SecretKeyNotDeleted
  BY Invariance, PTL DEF Inv

(* Every key the status names or a pass has just created is protected by   *)
(* the finalizer (AddFinalizer comes before SetupKeys.Create).             *)
THEOREM FinalizerSafe == Spec => []FinalizerGuardsKey
  BY Invariance, PTL DEF Inv

-----------------------------------------------------------------------------
(* The accounting of leaked keys.  Doomed adds to the orphans the key that *)
(* a pass working from an outdated status is about to lose track of: that  *)
(* pass has already been counted as a lapse.                               *)
AboutToBeLost == {k \in Keys : /\ k = api.sid
                           /\ k # loc.sid
                           /\ pc \notin {"idle", "apply", "delOld", "patchReady"}}
Doomed == Orphans \cup AboutToBeLost

(* The key of the status is gone upstream before the finalizer goes.       *)
KeyGone == pc = "delFin" /\ loc.sid # None => ~Exists(loc.sid)

LeakInv == /\ Inv
           /\ KeyGone
           /\ IsFiniteSet(Doomed)
           /\ Cardinality(Doomed) <= lapses

(* Shrinking a bounded set keeps the bound; one more element raises it by  *)
(* one.                                                                    *)
LEMMA Shrink ==
  ASSUME NEW A, NEW B, NEW n \in Nat, IsFiniteSet(A), Cardinality(A) <= n,
         B \subseteq A
  PROVE  IsFiniteSet(B) /\ Cardinality(B) <= n
  BY FS_Subset, FS_CardinalityType

LEMMA Grow ==
  ASSUME NEW A, NEW B, NEW x, NEW n \in Nat, IsFiniteSet(A),
         Cardinality(A) <= n, B \subseteq A \cup {x}
  PROVE  IsFiniteSet(B) /\ Cardinality(B) <= n + 1
  <1>0. Cardinality(A) \in Nat
    BY FS_CardinalityType
  <1>1. /\ IsFiniteSet(A \cup {x})
        /\ \/ Cardinality(A \cup {x}) = Cardinality(A)
           \/ Cardinality(A \cup {x}) = Cardinality(A) + 1
    BY FS_AddElement
  <1>2. Cardinality(A \cup {x}) <= n + 1 /\ Cardinality(A \cup {x}) \in Nat
    BY <1>0, <1>1
  <1> QED
    BY <1>1, <1>2, Shrink

(* At the start there are no keys at all.                                  *)
LEMMA InitLeak == Init => LeakInv
  <1> SUFFICES ASSUME Init PROVE LeakInv
    OBVIOUS
  <1>1. Inv
    BY InitInv
  <1>2. KeyGone /\ Doomed = {} /\ lapses = 0
    BY DEF Init, KeyGone, Doomed, Orphans, AboutToBeLost, Exists, Created
  <1> QED
    BY <1>1, <1>2, FS_EmptySet DEF LeakInv

(* Each step keeps KeyGone; it adds no doomed key, or it is a lapse and    *)
(* adds one.                                                               *)
LEMMA StepDoomed ==
  ASSUME Inv, KeyGone, [Next]_vars
  PROVE  /\ KeyGone'
         /\ \/ lapses' = lapses /\ Doomed' \subseteq Doomed
            \/ /\ lapses' = lapses + 1
               /\ \E x : Doomed' \subseteq Doomed \cup {x}
  <1> USE DEF Inv, TypeOK, KnownIds, NewKey, FinalizerOn, IdInHand,
         DeletionSeen, FinalizerGuardsKey, KeyGone, Absent, Objects, UpStates, world, counters,
         EndPass, Goto, Exists, DeleteUpstream, Doomed, Orphans, AboutToBeLost, InHand
  <1>1. CASE Start
    BY <1>1 DEF Start
  <1>2. CASE GetGroupIDs
    BY <1>2 DEF GetGroupIDs
  <1>3. CASE AddFinalizer
    BY <1>3 DEF AddFinalizer
  <1>4. CASE GetKey
    BY <1>4 DEF GetKey
  <1>5. CASE GetSecret
    BY <1>5 DEF GetSecret
  <1>6. CASE UpdateKey
    BY <1>6 DEF UpdateKey
  <1>7. CASE CreateKey
    BY <1>7 DEF CreateKey
  <1>8. CASE PatchId
    BY <1>8 DEF PatchId
  <1>9. CASE ApplySecret
    BY <1>9 DEF ApplySecret
  <1>10. CASE DeleteOldKey
    BY <1>10 DEF DeleteOldKey
  <1>11. CASE PatchReady
    BY <1>11 DEF PatchReady
  <1>12. CASE DeleteKey
    BY <1>12 DEF DeleteKey
  <1>13. CASE RemoveFinalizer
    BY <1>13 DEF RemoveFinalizer
  <1>14. CASE Abort
    BY <1>14 DEF Abort
  <1>15. CASE CacheSync
    BY <1>15 DEF CacheSync
  <1>16. CASE SecretSync
    BY <1>16 DEF SecretSync
  <1>17. CASE UserDelete
    BY <1>17 DEF UserDelete
  <1>18. CASE UserUpdate
    BY <1>18 DEF UserUpdate
  <1>19. CASE \E c \in Edits \cup {None} : UserEditSecret(c)
    BY <1>19 DEF UserEditSecret
  <1>20. CASE \E k \in Keys, s \in {"revoked", "overused", "removed"} :
               AdminChange(k, s)
    BY <1>20 DEF AdminChange
  <1>21. CASE CollectSecret
    BY <1>21 DEF CollectSecret
  <1>22. CASE Done \/ UNCHANGED vars
    BY <1>22 DEF Done, vars
  <1> QED
    BY <1>1, <1>2, <1>3, <1>4, <1>5, <1>6, <1>7, <1>8, <1>9, <1>10, <1>11,
       <1>12, <1>13, <1>14, <1>15, <1>16, <1>17, <1>18, <1>19, <1>20, <1>21,
       <1>22 DEF Next, Step, Environment

(* Every step keeps the bound.                                             *)
LEMMA StepLeak == LeakInv /\ [Next]_vars => LeakInv'
  <1> SUFFICES ASSUME LeakInv, [Next]_vars PROVE LeakInv'
    OBVIOUS
  <1>1. Inv' /\ lapses \in Nat
    BY StepInv DEF LeakInv, Inv, TypeOK
  <1>2. /\ KeyGone'
        /\ \/ lapses' = lapses /\ Doomed' \subseteq Doomed
           \/ /\ lapses' = lapses + 1
              /\ \E x : Doomed' \subseteq Doomed \cup {x}
    BY StepDoomed DEF LeakInv
  <1>3. IsFiniteSet(Doomed) /\ Cardinality(Doomed) <= lapses
    BY DEF LeakInv
  <1>4. IsFiniteSet(Doomed') /\ Cardinality(Doomed') <= lapses'
    <2>1. CASE lapses' = lapses /\ Doomed' \subseteq Doomed
      BY <2>1, <1>1, <1>3, Shrink
    <2>2. CASE lapses' = lapses + 1 /\ \E x : Doomed' \subseteq Doomed \cup {x}
      BY <2>2, <1>1, <1>3, Grow
    <2> QED
      BY <1>2, <2>1, <2>2
  <1> QED
    BY <1>1, <1>2, <1>4 DEF LeakInv

(* Every aborted pass, and every pass that read an outdated status, leaves *)
(* at most one setup key behind; without those none is ever left behind.   *)
THEOREM LeaksBounded == Spec => []LeaksAccounted
  <1>1. LeakInv => LeaksAccounted
    <2> SUFFICES ASSUME LeakInv PROVE LeaksAccounted
      OBVIOUS
    <2>1. lapses \in Nat /\ Orphans \subseteq Doomed
      BY DEF LeakInv, Inv, TypeOK, Doomed
    <2> QED
      BY <2>1, Shrink DEF LeakInv, LeaksAccounted
  <1> QED
    BY <1>1, InitLeak, StepLeak, PTL DEF Spec

-----------------------------------------------------------------------------
(* SetupKey implements Handle.                                             *)

(* The service hands ids out in order, so the key a pass is about to       *)
(* record is newer than the one the status names by then.                  *)
HandedOutInOrder ==
    \A j, k \in Keys : up[j] # "unused" /\ up[k] = "unused" => j < k
NewerInHand == pc = "patchId" /\ api.sid # None => api.sid < new

OrderInv == Inv /\ HandedOutInOrder /\ NewerInHand

(* At the start no key has been handed out.                                *)
LEMMA InitOrder == Init => OrderInv
  BY InitInv DEF OrderInv, HandedOutInOrder, NewerInHand, Init, Created

(* Every step keeps the order: only CreateKey hands out a key, the least   *)
(* unused one, and only PatchId writes the id.                             *)
LEMMA StepOrder == OrderInv /\ [Next]_vars => OrderInv'
  <1> SUFFICES ASSUME OrderInv, [Next]_vars
               PROVE  HandedOutInOrder' /\ NewerInHand'
    BY StepInv DEF OrderInv
  <1> USE KeysAssumption
      DEF OrderInv, HandedOutInOrder, NewerInHand, Inv, TypeOK, KnownIds,
          NewKey, Absent, Objects, UpStates, world, counters, EndPass, Goto,
          Exists, DeleteUpstream
  <1>1. CASE Start
    BY <1>1 DEF Start
  <1>2. CASE GetGroupIDs \/ GetKey \/ GetSecret \/ UpdateKey
    BY <1>2 DEF GetGroupIDs, GetKey, GetSecret, UpdateKey
  <1>3. CASE AddFinalizer
    BY <1>3 DEF AddFinalizer
  <1>4. CASE CreateKey
    <2>1. PICK k \in Keys : /\ up[k] = "unused"
                           /\ \A j \in Keys : up[j] = "unused" => k <= j
                           /\ up' = [up EXCEPT ![k] = "valid"]
                           /\ new' = k
      BY <1>4 DEF CreateKey
    <2>2. api' = api
      BY <1>4 DEF CreateKey
    <2>3. ASSUME NEW i \in Keys, NEW j \in Keys, up'[i] # "unused", up'[j] = "unused"
          PROVE  i < j
      <3>1. up[j] = "unused" /\ j # k /\ k <= j
        BY <2>1, <2>3
      <3>2. CASE i = k
        BY <3>1, <3>2
      <3>3. CASE i # k
        BY <2>1, <2>3, <3>1, <3>3
      <3> QED
        BY <3>2, <3>3
    <2>4. NewerInHand'
      BY <2>1, <2>2
    <2> QED
      BY <2>3, <2>4
  <1>5. CASE PatchId
    BY <1>5 DEF PatchId
  <1>6. CASE ApplySecret \/ DeleteOldKey \/ PatchReady \/ DeleteKey
    BY <1>6 DEF ApplySecret, DeleteOldKey, PatchReady, DeleteKey
  <1>7. CASE RemoveFinalizer \/ Abort
    BY <1>7 DEF RemoveFinalizer, Abort
  <1>8. CASE CacheSync \/ SecretSync \/ CollectSecret
    BY <1>8 DEF CacheSync, SecretSync, CollectSecret
  <1>9. CASE UserDelete \/ UserUpdate
    BY <1>9 DEF UserDelete, UserUpdate
  <1>10. CASE \E c \in Edits \cup {None} : UserEditSecret(c)
    BY <1>10 DEF UserEditSecret
  <1>11. CASE \E k \in Keys, s \in {"revoked", "overused", "removed"} :
               AdminChange(k, s)
    BY <1>11 DEF AdminChange
  <1>12. CASE Done \/ UNCHANGED vars
    BY <1>12 DEF Done, vars
  <1> QED
    BY <1>1, <1>2, <1>3, <1>4, <1>5, <1>6, <1>7, <1>8, <1>9, <1>10, <1>11,
       <1>12 DEF Next, Step, Environment

(* A step that deletes or removes one existing key and touches neither id  *)
(* nor phase is Disappear, any other change of an existing key's state     *)
(* that leaves it existing is a stutter.                                   *)
LEMMA KeyLost ==
  ASSUME TypeOK, NEW k \in Keys, Exists(k), NEW s \in UpStates \ {"unused"},
         up' = [up EXCEPT ![k] = s], UNCHANGED <<api>>
  PROVE  Published!Disappear(k) \/ UNCHANGED Published!hvars
  <1> USE DEF TypeOK, Exists, UpStates
  <1>1. CASE s \in {"valid", "overused", "revoked"}
    BY <1>1 DEF Published!hvars
  <1>2. CASE s \in {"removed", "deleted"}
    BY <1>2 DEF Published!Disappear
  <1> QED
    BY <1>1, <1>2

(* DeleteUpstream loses the key if it exists and changes nothing if not.   *)
LEMMA KeyDeleted ==
  ASSUME TypeOK, NEW k \in Keys, DeleteUpstream(k), UNCHANGED <<api>>
  PROVE  Published!Disappear(k) \/ UNCHANGED Published!hvars
  <1>1. CASE Exists(k)
    BY <1>1, KeyLost DEF DeleteUpstream, UpStates
  <1>2. CASE ~Exists(k)
    BY <1>2 DEF DeleteUpstream, Published!hvars, Exists
  <1> QED
    BY <1>1, <1>2

(* Every step is a step of Handle or leaves what Handle sees unchanged.    *)
LEMMA StepHandle ==
  OrderInv /\ [Next]_vars => [Published!HandleNext]_(Published!hvars)
  <1> SUFFICES ASSUME OrderInv, [Next]_vars
               PROVE  Published!HandleNext \/ UNCHANGED Published!hvars
    OBVIOUS
  <1>t. TypeOK
    BY DEF OrderInv, Inv
  <1>s. ASSUME UNCHANGED <<api.sid, api.phase, up>>
        PROVE  UNCHANGED Published!hvars
    BY <1>s DEF Published!hvars, Exists
  <1>1. CASE CreateKey
    <2>1. PICK k \in Keys : up[k] = "unused" /\ up' = [up EXCEPT ![k] = "valid"]
      BY <1>1 DEF CreateKey
    <2>2. Published!Appear(k)
      BY <1>1, <1>t, <2>1 DEF Published!Appear, CreateKey, TypeOK, Exists
    <2> QED
      BY <2>2 DEF Published!HandleNext
  <1>2. CASE PatchId
    <2>1. CASE api.phase = "gone"
      BY <1>2, <1>s, <2>1 DEF PatchId
    <2>2. CASE api.phase # "gone"
      <3>1. new \in Keys /\ up[new] # "unused"
        BY <1>2, <1>t DEF PatchId, OrderInv, Inv, NewKey, TypeOK
      <3>2. api.sid # None => api.sid < new
        BY <1>2 DEF PatchId, OrderInv, NewerInHand
      <3>3. api'.sid = new /\ api'.phase = api.phase /\ up' = up
        BY <1>2, <1>t, <2>2 DEF PatchId, TypeOK, Objects
      <3>4. Published!Publish(new)
        BY <1>t, <2>2, <3>1, <3>2, <3>3 DEF Published!Publish, TypeOK, Exists
      <3> QED
        BY <3>1, <3>4 DEF Published!HandleNext
    <2> QED
      BY <2>1, <2>2
  <1>3. CASE DeleteOldKey
    <2>1. loc.sid \in Keys /\ DeleteUpstream(loc.sid) /\ UNCHANGED <<api>>
      BY <1>3, <1>t DEF DeleteOldKey, OrderInv, Inv, IdInHand, TypeOK, Objects
    <2> QED
      BY <1>t, <2>1, KeyDeleted DEF Published!HandleNext
  <1>4. CASE DeleteKey
    <2>1. loc.sid \in Keys /\ DeleteUpstream(loc.sid) /\ UNCHANGED <<api>>
      BY <1>4, <1>t DEF DeleteKey, OrderInv, Inv, IdInHand, TypeOK, Objects
    <2> QED
      BY <1>t, <2>1, KeyDeleted DEF Published!HandleNext
  <1>5. CASE \E k \in Keys, s \in {"revoked", "overused", "removed"} :
               AdminChange(k, s)
    <2>1. PICK k \in Keys, s \in {"revoked", "overused", "removed"} :
            AdminChange(k, s)
      BY <1>5
    <2>2. Published!Disappear(k) \/ UNCHANGED Published!hvars
      BY <1>t, <2>1, KeyLost DEF AdminChange, UpStates
    <2> QED
      BY <2>2 DEF Published!HandleNext
  <1>6. CASE RemoveFinalizer
    <2>1. api' = Absent /\ up' = up /\ api.phase \in {"deleting", "gone"}
      BY <1>6, <1>t DEF RemoveFinalizer, OrderInv, Inv, DeletionSeen, TypeOK,
                        Objects, Phases
    <2>2. CASE api.phase = "deleting"
      BY <2>1, <2>2 DEF Published!HandleNext, Published!Withdraw, Absent, Exists
    <2>3. CASE api.phase = "gone"
      <3>1. api.sid = None
        BY <2>3 DEF OrderInv, Inv, FinalizerGuardsKey
      <3> QED
        BY <1>s, <2>1, <2>3, <3>1 DEF Absent
    <2> QED
      BY <2>1, <2>2, <2>3
  <1>7. CASE UserDelete
    <2>1. CASE api.fin
      BY <1>7, <1>t, <2>1 DEF UserDelete, Published!HandleNext,
         Published!Close, TypeOK, Objects, Exists
    <2>2. CASE ~api.fin
      <3>1. api.sid = None
        BY <2>2 DEF OrderInv, Inv, FinalizerGuardsKey
      <3> QED
        BY <1>7, <2>2, <3>1 DEF UserDelete, Published!HandleNext,
           Published!Withdraw, Absent, Exists
    <2> QED
      BY <2>1, <2>2
  <1>8. CASE UserUpdate \/ AddFinalizer \/ PatchReady
    <2>1. UNCHANGED <<api.sid, api.phase, up>>
      BY <1>8, <1>t DEF UserUpdate, AddFinalizer, PatchReady, TypeOK, Objects
    <2> QED
      BY <1>s, <2>1
  <1>9. CASE \/ Start \/ GetGroupIDs \/ GetKey \/ GetSecret \/ UpdateKey
             \/ ApplySecret \/ Abort \/ CacheSync \/ SecretSync
             \/ (\E c \in Edits \cup {None} : UserEditSecret(c))
             \/ CollectSecret \/ Done \/ UNCHANGED vars
    <2>1. UNCHANGED <<api.sid, api.phase, up>>
      BY <1>9 DEF Start, GetGroupIDs, GetKey, GetSecret, UpdateKey,
         ApplySecret, Abort, CacheSync, SecretSync, UserEditSecret,
         CollectSecret, Done, vars, world
    <2> QED
      BY <1>s, <2>1
  <1> QED
    BY <1>1, <1>2, <1>3, <1>4, <1>5, <1>6, <1>7, <1>8, <1>9
    DEF Next, Step, Environment

(* The SetupKey keeps the promise of Handle about status.setupKeyID:       *)
(* whatever the caches show and wherever a pass is cut off, the id only    *)
(* moves on to newer keys the service has handed out, and it vanishes only *)
(* with an object whose deletion a user has asked for.                     *)
THEOREM ImplementsHandle == Spec => KeyIsHandle
  <1>1. Init => Published!HandleInit
    BY DEF Init, Published!HandleInit, Created, Exists
  <1> QED
    BY <1>1, InitOrder, StepOrder, StepHandle, PTL
    DEF Spec, KeyIsHandle, Published!HandleSpec

=============================================================================
