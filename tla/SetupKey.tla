------------------------------ MODULE SetupKey ------------------------------
(***************************************************************************)
(* The v1alpha1 SetupKey controller (setupkey_controller.go): for one      *)
(* SetupKey object, from its creation to its removal, it keeps one setup   *)
(* key in the openZro management service and the plain key in a Secret.    *)
(*                                                                         *)
(* A reconcile pass is a sequence of remote calls; every call is one       *)
(* action, so that users, administrators, the lagging informer caches and  *)
(* crashes interleave with it.  The controller has one worker, so passes   *)
(* do not overlap.  Patches are merge patches without a resourceVersion:   *)
(* they are accepted however old the object was that the pass read.        *)
(***************************************************************************)
EXTENDS Naturals, FiniteSets

CONSTANTS
    Keys,        \* ids of setup keys, in the order they are handed out
    Edits,       \* contents a user can write into the Secret
    None,        \* no setup key id in the status / no Secret
    Prefix,      \* the first five characters of a Secret's content
    TooShort,    \* the "prefix" of a content with fewer than five characters
    MaxGen,      \* bound: generations of the object's spec
    MaxLapses,   \* bound: aborted passes and passes that read a stale id
    MaxLags,     \* bound: stale reads of the Secret
    MaxEvents    \* bound: edits of the Secret and changes made upstream

ASSUME KeysAssumption == Keys \subseteq Nat
ASSUME NoneAssumption == None \notin Keys \cup Edits
ASSUME EditsAssumption == Edits \cap Keys = {}
ASSUME PrefixAssumption == /\ DOMAIN Prefix = Keys \cup Edits
                           /\ \A k \in Keys : Prefix[k] # TooShort
ASSUME BoundsAssumption == /\ MaxGen \in Nat \ {0}
                           /\ MaxLapses \in Nat
                           /\ MaxLags \in Nat
                           /\ MaxEvents \in Nat

VARIABLES
    api,      \* the SetupKey object in the Kubernetes API
    cache,    \* the controller's informer copy of it
    secret,   \* content of the Secret in the Kubernetes API
    scache,   \* the informer copy of the Secret
    up,       \* state of every setup key in the management service
    groups,   \* generation of the spec whose AutoGroups an upstream key has
    pc,       \* the call the running pass makes next; "idle" between passes
    loc,      \* the object as the running pass read it
    new,      \* the setup key the running pass created
    due,      \* the work queue holds (or will hold) a request for the object
    lapses, lags, events

vars == <<api, cache, secret, scache, up, groups, pc, loc, new, due,
          lapses, lags, events>>
world == <<api, cache, secret, scache, up, groups, events>>
counters == <<lapses, lags, events>>

-----------------------------------------------------------------------------
Phases == {"live", "deleting", "gone"}
UpStates == {"unused", "valid", "overused", "revoked", "removed", "deleted"}
Pcs == {"idle", "groups", "finalizer", "getKey", "getSecret", "update",
        "create", "patchId", "apply", "delOld", "patchReady", "delKey",
        "delFin"}

(* phase: the object and its deletionTimestamp; fin: the controller's      *)
(* finalizer; sid: status.setupKeyID; gen: metadata.generation; obs: the   *)
(* generation for which Ready was marked (status.observedGeneration).      *)
Objects == [phase : Phases, fin : BOOLEAN, sid : Keys \cup {None},
            gen : 0..MaxGen, obs : 0..MaxGen]
Contents == Keys \cup Edits \cup {None}

Absent == [phase |-> "gone", fin |-> FALSE, sid |-> None, gen |-> 0,
           obs |-> 0]
Created == [phase |-> "live", fin |-> FALSE, sid |-> None, gen |-> 1,
            obs |-> 0]

(* Keys that exist in the management service.  "removed" is deleted by an  *)
(* administrator, "deleted" by the operator.                               *)
Exists(k) == up[k] \in {"valid", "overused", "revoked"}

TypeOK ==
    /\ api \in Objects
    /\ cache \in Objects
    /\ loc \in Objects
    /\ secret \in Contents
    /\ scache \in Contents
    /\ up \in [Keys -> UpStates]
    /\ groups \in [Keys -> 0..MaxGen]
    /\ pc \in Pcs
    /\ new \in Keys \cup {None}
    /\ due \in BOOLEAN
    /\ lapses \in 0..MaxLapses
    /\ lags \in 0..MaxLags
    /\ events \in 0..MaxEvents

Init ==
    /\ api = Created
    /\ cache = Absent
    /\ secret = None
    /\ scache = None
    /\ up = [k \in Keys |-> "unused"]
    /\ groups = [k \in Keys |-> 0]
    /\ pc = "idle"
    /\ loc = Absent
    /\ new = None
    /\ due = FALSE
    /\ lapses = 0
    /\ lags = 0
    /\ events = 0

-----------------------------------------------------------------------------
(* The reconcile pass.                                                     *)

(* The pass returns.  An error is requeued with backoff and a success      *)
(* after 15 minutes: either way the object stays in the work queue.        *)
EndPass == /\ pc' = "idle"
           /\ loc' = Absent
           /\ new' = None
           /\ due' = TRUE

Goto(label) == /\ pc' = label
               /\ UNCHANGED <<loc, new, due>>

(* Reads the object from the informer cache; an absent object ends the     *)
(* pass without a requeue.  A read whose setupKeyID is older than the      *)
(* API's counts as a lapse.                                                *)
Start ==
    /\ pc = "idle"
    /\ due
    /\ \/ lapses < MaxLapses \/ cache.sid = api.sid
    /\ lapses' = IF cache.sid = api.sid THEN lapses ELSE lapses + 1
    /\ due' = FALSE
    /\ loc' = cache
    /\ \/ cache.phase = "gone" /\ pc' = "idle"
       \/ cache.phase = "live" /\ pc' = "groups"
       \/ cache.phase = "deleting" /\ cache.sid # None /\ pc' = "delKey"
       \/ cache.phase = "deleting" /\ cache.sid = None /\ pc' = "delFin"
    /\ UNCHANGED <<new, lags, world>>

(* Group references that do not resolve end the pass before the finalizer  *)
(* is set: that outcome is Abort.                                          *)
GetGroupIDs ==
    /\ pc = "groups"
    /\ Goto("finalizer")
    /\ UNCHANGED <<counters, world>>

(* Mutant: the finalizer is added in memory only, without the Patch.       *)
AddFinalizerUnsaved ==
    /\ pc = "finalizer"
    /\ Goto(IF loc.sid = None THEN "create" ELSE "getKey")
    /\ UNCHANGED <<counters, world>>

(* Mutant: the whole object as it was read is written with the finalizer.  *)
AddFinalizerWhole ==
    /\ pc = "finalizer"
    /\ IF ~loc.fin /\ api.phase = "gone"
         THEN EndPass /\ UNCHANGED api
         ELSE /\ Goto(IF loc.sid = None THEN "create" ELSE "getKey")
              /\ api' = IF loc.fin THEN api
                        ELSE [api EXCEPT !.fin = TRUE, !.sid = loc.sid]
    /\ UNCHANGED <<cache, secret, scache, up, groups, counters>>

(* AddFinalizer and Patch.  Nothing is sent when the copy read already has *)
(* the finalizer; the patch of an object that is gone fails.               *)
AddFinalizer ==
    /\ pc = "finalizer"
    /\ \/ /\ loc.fin
          /\ Goto(IF loc.sid = None THEN "create" ELSE "getKey")
          /\ UNCHANGED api
       \/ /\ ~loc.fin /\ api.phase # "gone"
          /\ Goto(IF loc.sid = None THEN "create" ELSE "getKey")
          /\ api' = [api EXCEPT !.fin = TRUE]
       \/ /\ ~loc.fin /\ api.phase = "gone"
          /\ EndPass
          /\ UNCHANGED api
    /\ UNCHANGED <<cache, secret, scache, up, groups, counters>>

(* SetupKeys.Get: an overused key is an error, a missing one or one in     *)
(* another state than valid is replaced.                                   *)
GetKey ==
    /\ pc = "getKey"
    /\ \/ up[loc.sid] = "valid" /\ Goto("getSecret")
       \/ up[loc.sid] = "overused" /\ EndPass
       \/ up[loc.sid] \notin {"valid", "overused"} /\ Goto("create")
    /\ UNCHANGED <<counters, world>>

(* Mutant: a missing Secret counts as unmodified.                          *)
GetSecretLenient ==
    /\ pc = "getSecret"
    /\ Goto("update")
    /\ UNCHANGED <<counters, world>>

(* Reads the Secret from the informer cache and compares five characters.  *)
(* Slicing a shorter content panics; the panic is recovered as an error.   *)
GetSecret ==
    /\ pc = "getSecret"
    /\ \/ lags < MaxLags \/ scache = secret
    /\ lags' = IF scache = secret THEN lags ELSE lags + 1
    /\ \/ scache = None /\ Goto("create")
       \/ scache # None /\ Prefix[scache] = TooShort /\ EndPass
       \/ /\ scache # None /\ Prefix[scache] # TooShort
          /\ Goto(IF Prefix[scache] = Prefix[loc.sid] THEN "update" ELSE "create")
    /\ UNCHANGED <<lapses, world>>

(* SetupKeys.Update of the AutoGroups; a key that is gone is an error.     *)
UpdateKey ==
    /\ pc = "update"
    /\ groups' = IF Exists(loc.sid) THEN [groups EXCEPT ![loc.sid] = loc.gen]
                                    ELSE groups
    /\ EndPass
    /\ UNCHANGED <<api, cache, secret, scache, up, counters>>

CreateKey ==
    /\ pc = "create"
    /\ \E k \in Keys :
         /\ up[k] = "unused"
         /\ \A j \in Keys : up[j] = "unused" => k <= j
         /\ up' = [up EXCEPT ![k] = "valid"]
         /\ groups' = [groups EXCEPT ![k] = loc.gen]
         /\ new' = k
    /\ pc' = "patchId"
    /\ UNCHANGED <<loc, due, api, cache, secret, scache, counters>>

(* status.setupKeyID = resp.Id; Patch.                                     *)
PatchId ==
    /\ pc = "patchId"
    /\ IF api.phase = "gone"
         THEN EndPass /\ UNCHANGED api
         ELSE Goto("apply") /\ api' = [api EXCEPT !.sid = new]
    /\ UNCHANGED <<cache, secret, scache, up, groups, counters>>

(* Applies the Secret with the new key, owned by the object.               *)
ApplySecret ==
    /\ pc = "apply"
    /\ secret' = new
    /\ Goto(IF loc.sid = None THEN "patchReady" ELSE "delOld")
    /\ UNCHANGED <<api, cache, scache, up, groups, counters>>

(* SetupKeys.Delete of a key; one that is already gone is no error.        *)
DeleteUpstream(k) ==
    up' = IF Exists(k) THEN [up EXCEPT ![k] = "deleted"] ELSE up

(* Mutant: the id to delete is taken from the status, overwritten by now.  *)
DeleteStatusKey ==
    /\ pc = "delOld"
    /\ DeleteUpstream(new)
    /\ Goto("patchReady")
    /\ UNCHANGED <<api, cache, secret, scache, groups, counters>>

(* Mutant: a key that is no longer valid is not deleted.                   *)
KeepInvalidOldKey ==
    /\ pc = "delOld"
    /\ IF up[loc.sid] = "valid" THEN DeleteUpstream(loc.sid) ELSE UNCHANGED up
    /\ Goto("patchReady")
    /\ UNCHANGED <<api, cache, secret, scache, groups, counters>>

DeleteOldKey ==
    /\ pc = "delOld"
    /\ DeleteUpstream(loc.sid)
    /\ Goto("patchReady")
    /\ UNCHANGED <<api, cache, secret, scache, groups, counters>>

(* Mutant: the generation is read again after it was incremented.          *)
PatchReadyNext ==
    /\ pc = "patchReady"
    /\ api' = IF api.phase = "gone" THEN api ELSE [api EXCEPT !.obs = loc.gen + 1]
    /\ EndPass
    /\ UNCHANGED <<cache, secret, scache, up, groups, counters>>

(* MarkTrue(Ready) and Patch with the observed generation.                 *)
PatchReady ==
    /\ pc = "patchReady"
    /\ api' = IF api.phase = "gone" THEN api ELSE [api EXCEPT !.obs = loc.gen]
    /\ EndPass
    /\ UNCHANGED <<cache, secret, scache, up, groups, counters>>

(* reconcileDelete: the key in the status first, then the finalizer, whose *)
(* removal lets the object disappear.                                      *)
DeleteKey ==
    /\ pc = "delKey"
    /\ DeleteUpstream(loc.sid)
    /\ Goto("delFin")
    /\ UNCHANGED <<api, cache, secret, scache, groups, counters>>

(* A pass that removed the finalizer is not requeued; one whose object was *)
(* already gone gets NotFound from the patch, an error.                    *)
RemoveFinalizer ==
    /\ pc = "delFin"
    /\ api' = Absent
    /\ pc' = "idle"
    /\ loc' = Absent
    /\ new' = None
    /\ due' = (due \/ api.phase = "gone")
    /\ UNCHANGED <<cache, secret, scache, up, groups, counters>>

(* The call the pass is about to make fails, or the operator crashes; the  *)
(* call's effect lost with its answer is the call followed by Abort.  The  *)
(* requeue, or the initial list after a restart, brings the object back.   *)
Abort ==
    /\ pc # "idle"
    /\ lapses < MaxLapses
    /\ lapses' = lapses + 1
    /\ EndPass
    /\ UNCHANGED <<lags, world>>

-----------------------------------------------------------------------------
(* The environment.                                                        *)

(* The watch of SetupKeys delivers; every delivery enqueues the object.    *)
CacheSync ==
    /\ cache # api
    /\ cache' = api
    /\ due' = TRUE
    /\ UNCHANGED <<api, secret, scache, up, groups, pc, loc, new, counters>>

(* The watch of owned Secrets delivers and enqueues the owner.             *)
SecretSync ==
    /\ scache # secret
    /\ scache' = secret
    /\ due' = TRUE
    /\ UNCHANGED <<api, cache, secret, up, groups, pc, loc, new, counters>>

(* The user deletes the object: at once when it has no finalizer.          *)
UserDelete ==
    /\ api.phase = "live"
    /\ api' = IF api.fin THEN [api EXCEPT !.phase = "deleting"] ELSE Absent
    /\ UNCHANGED <<cache, secret, scache, up, groups, pc, loc, new, due, counters>>

(* The user changes spec.autoGroups.                                       *)
UserUpdate ==
    /\ api.phase = "live"
    /\ api.gen < MaxGen
    /\ api' = [api EXCEPT !.gen = @ + 1]
    /\ UNCHANGED <<cache, secret, scache, up, groups, pc, loc, new, due, counters>>

(* The user overwrites or deletes the Secret.                              *)
UserEditSecret(c) ==
    /\ events < MaxEvents
    /\ events' = events + 1
    /\ secret # None
    /\ secret' = c
    /\ UNCHANGED <<api, cache, scache, up, groups, pc, loc, new, due, lapses, lags>>

(* An administrator revokes or removes a key, or its usage limit is hit.   *)
AdminChange(k, s) ==
    /\ events < MaxEvents
    /\ events' = events + 1
    /\ Exists(k)
    /\ up' = [up EXCEPT ![k] = s]
    /\ UNCHANGED <<api, cache, secret, scache, groups, pc, loc, new, due, lapses, lags>>

(* Kubernetes collects the Secret of an object that is gone.               *)
CollectSecret ==
    /\ api.phase = "gone"
    /\ secret # None
    /\ secret' = None
    /\ UNCHANGED <<api, cache, scache, up, groups, pc, loc, new, due, counters>>

(* Nothing is left to do: the object is gone and everyone knows.           *)
Done ==
    /\ api.phase = "gone" /\ cache = api /\ secret = None /\ scache = None
    /\ pc = "idle" /\ ~due
    /\ UNCHANGED vars

-----------------------------------------------------------------------------
Step == \/ Start \/ GetGroupIDs \/ AddFinalizer \/ GetKey \/ GetSecret
        \/ UpdateKey \/ CreateKey \/ PatchId \/ ApplySecret \/ DeleteOldKey
        \/ PatchReady \/ DeleteKey \/ RemoveFinalizer

Environment == \/ CacheSync
               \/ SecretSync
               \/ UserDelete
               \/ UserUpdate
               \/ \E c \in Edits \cup {None} : UserEditSecret(c)
               \/ \E k \in Keys, s \in {"revoked", "overused", "removed"} :
                    AdminChange(k, s)
               \/ CollectSecret

Next == Step \/ Abort \/ Environment \/ Done

Spec == Init /\ [][Next]_vars

(* The worker takes the next request and carries it through, the watches   *)
(* deliver and Kubernetes collects; users, administrators and faults are   *)
(* free to stop.                                                           *)
Fairness == /\ WF_vars(Step)
            /\ WF_vars(CacheSync)
            /\ WF_vars(SecretSync)
            /\ WF_vars(CollectSecret)

FairSpec == Spec /\ Fairness

-----------------------------------------------------------------------------
(* Properties.                                                             *)

(* The order of the writes (status, Secret, then the old key): while the   *)
(* object is not being deleted, the operator never has deleted the key its *)
(* Secret hands to workloads, whatever the caches show and wherever a pass *)
(* was cut off.                                                            *)
SecretKeyNotDeleted ==
    api.phase = "live" /\ secret \in Keys => up[secret] # "deleted"

(* A key the pass has created, or the status names, is always behind the   *)
(* finalizer: the object cannot vanish with it however the deletion and    *)
(* the pass interleave.                                                    *)
FinalizerGuardsKey ==
    (api.sid # None \/ new # None) => api.fin /\ api.phase # "gone"

(* Keys that exist upstream although no status names them and the running  *)
(* pass will not record or delete them.                                    *)
InHand == {k \in Keys : \/ pc = "patchId" /\ k = new
                        \/ pc \in {"apply", "delOld"} /\ k = loc.sid}
Orphans == {k \in Keys : Exists(k) /\ k # api.sid /\ k \notin InHand}

(* Every aborted pass and every pass that worked from an outdated status   *)
(* leaks at most one key; without those nothing leaks, deletion included.  *)
LeaksAccounted == Cardinality(Orphans) <= lapses

(* The operator recovers from every fault: in the end the object and its   *)
(* Secret are gone, or the Secret agrees with a valid key that has the     *)
(* AutoGroups of the current spec.  Two states the code leaves alone: an   *)
(* overused key, and a Secret whose content is too short to be compared.   *)
Settled ==
    \/ api.phase = "gone" /\ secret = None
    \/ /\ api.phase = "live"
       /\ api.sid # None
       /\ \/ /\ up[api.sid] = "valid"
             /\ groups[api.sid] = api.gen
             /\ secret # None
             /\ Prefix[secret] = Prefix[api.sid]
          \/ up[api.sid] = "overused"
          \/ secret # None /\ Prefix[secret] = TooShort
EventuallySettled == <>[]Settled

(* The SetupKey implements Handle with the setup key id of its status:     *)
(* whatever a pass read and wherever it was cut off, the id only moves on  *)
(* to newer keys, and it goes with the object only after a deletion.       *)
Published == INSTANCE Handle WITH
    Ids <- Keys, id <- api.sid, phase <- api.phase,
    there <- [k \in Keys |-> CASE up[k] = "unused" -> "unused"
                               [] Exists(k) -> "live"
                               [] OTHER -> "dead"]
KeyIsHandle == Published!HandleSpec
=============================================================================
