-------------------------------- MODULE Group --------------------------------
(***************************************************************************)
(* The v1alpha1 Group controller (group_controller.go): for one Group      *)
(* object it keeps one group in the management service.  NetworkRouter     *)
(* extends this module: it applies the Group and waits for its id.         *)
(*                                                                         *)
(* As in SetupKey, every remote call is an action and patches carry no     *)
(* resourceVersion.  A pass that succeeds is not requeued: only a watch    *)
(* event (or a restart) brings the Group back.                             *)
(***************************************************************************)
EXTENDS Naturals, FiniteSets

CONSTANTS
    Groups,      \* ids of groups, in the order they are handed out
    Names,       \* spec.name of the Group
    None,        \* no id
    MaxLapses,   \* bound: passes cut off and passes that started from an old id
    MaxEvents    \* bound: changes made by an administrator

ASSUME GroupsAssumption == Groups \subseteq Nat /\ None \notin Groups
ASSUME NamesAssumption == None \notin Names
ASSUME BoundsAssumption == MaxLapses \in Nat /\ MaxEvents \in Nat

VARIABLES
    grp, gcache,  \* the Group in the Kubernetes API, and the informer's copy
    gup,          \* state of every group in the management service
    gname,        \* and its name there
    gpc, gloc,    \* the running pass and the Group as it read it
    gnew,         \* the id the upsert returned
    gdue,         \* the work queue holds the Group
    lapses, events

gvars == <<grp, gcache, gup, gname, gpc, gloc, gnew, gdue>>

-----------------------------------------------------------------------------
GObjects == [phase : {"live", "deleting", "gone"}, fin : BOOLEAN,
             gid : Groups \cup {None}, name : Names \cup {None}]
GAbsent == [phase |-> "gone", fin |-> FALSE, gid |-> None, name |-> None]

UpStates == {"unused", "live", "removed", "deleted"}

GTypeOK ==
    /\ {grp, gcache, gloc} \subseteq GObjects
    /\ gup \in [Groups -> UpStates]
    /\ gname \in [Groups -> Names \cup {None}]
    /\ gpc \in {"idle", "finalizer", "update", "create", "patch", "delete",
                "delFin"}
    /\ gnew \in Groups \cup {None}
    /\ gdue \in BOOLEAN

GInit ==
    /\ grp = GAbsent
    /\ gcache = GAbsent
    /\ gup = [g \in Groups |-> "unused"]
    /\ gname = [g \in Groups |-> None]
    /\ gpc = "idle"
    /\ gloc = GAbsent
    /\ gnew = None
    /\ gdue = FALSE

GEnd(requeue) == /\ gpc' = "idle"
                 /\ gloc' = GAbsent
                 /\ gnew' = None
                 /\ gdue' = (gdue \/ requeue)

GGoto(label) == /\ gpc' = label
                /\ UNCHANGED <<gloc, gdue>>

(* An absent Group ends the pass.  A status older than the API's is a      *)
(* lapse.                                                                  *)
GStart ==
    /\ gpc = "idle"
    /\ gdue
    /\ lapses < MaxLapses \/ gcache.gid = grp.gid
    /\ lapses' = IF gcache.gid = grp.gid THEN lapses ELSE lapses + 1
    /\ gdue' = FALSE
    /\ \/ gcache.phase = "gone" /\ UNCHANGED <<gpc, gloc>>
       \/ gcache.phase = "live" /\ gpc' = "finalizer" /\ gloc' = gcache
       \/ gcache.phase = "deleting" /\ gpc' = "delete" /\ gloc' = gcache
    /\ UNCHANGED <<grp, gcache, gup, gname, gnew, events>>

(* Mutant: the finalizer is added in memory only.                          *)
GAddFinalizerUnsaved ==
    /\ gpc = "finalizer"
    /\ GGoto(IF gloc.gid = None THEN "create" ELSE "update")
    /\ UNCHANGED <<grp, gcache, gup, gname, gnew, lapses, events>>

(* AddFinalizer and Patch, before anything is created upstream.            *)
GAddFinalizer ==
    /\ gpc = "finalizer"
    /\ \/ /\ gloc.fin \/ grp.phase # "gone"
          /\ grp' = IF gloc.fin THEN grp ELSE [grp EXCEPT !.fin = TRUE]
          /\ GGoto(IF gloc.gid = None THEN "create" ELSE "update")
          /\ UNCHANGED gnew
       \/ ~gloc.fin /\ grp.phase = "gone" /\ GEnd(TRUE) /\ UNCHANGED grp
    /\ UNCHANGED <<gcache, gup, gname, lapses, events>>

(* Groups.Update; a group that is not found is created again.              *)
GUpdate ==
    /\ gpc = "update"
    /\ \/ /\ gup[gloc.gid] = "live"
          /\ gname' = [gname EXCEPT ![gloc.gid] = gloc.name]
          /\ gnew' = gloc.gid
          /\ GGoto("patch")
       \/ gup[gloc.gid] # "live" /\ GGoto("create") /\ UNCHANGED <<gname, gnew>>
    /\ UNCHANGED <<grp, gcache, gup, lapses, events>>

GCreate ==
    /\ gpc = "create"
    /\ \E g \in Groups :
         /\ gup[g] = "unused"
         /\ \A h \in Groups : gup[h] = "unused" => g <= h
         /\ gup' = [gup EXCEPT ![g] = "live"]
         /\ gname' = [gname EXCEPT ![g] = gloc.name]
         /\ gnew' = g
    /\ GGoto("patch")
    /\ UNCHANGED <<grp, gcache, lapses, events>>

(* Patch of the id (if it changed), Ready and observedGeneration.          *)
GPatch ==
    /\ gpc = "patch"
    /\ \/ /\ grp.phase # "gone"
          /\ grp' = IF gnew = gloc.gid THEN grp ELSE [grp EXCEPT !.gid = gnew]
          /\ GEnd(FALSE)
       \/ grp.phase = "gone" /\ GEnd(TRUE) /\ UNCHANGED grp
    /\ UNCHANGED <<gcache, gup, gname, lapses, events>>

(* reconcileDelete: the group first, then the finalizer, whose removal     *)
(* lets a deleted Group disappear.  The patch names no particular object:  *)
(* a Group applied anew under the same name stays, without the finalizer.  *)
GDelete ==
    /\ gpc = "delete"
    /\ gup' = IF gloc.gid # None /\ gup[gloc.gid] = "live"
                THEN [gup EXCEPT ![gloc.gid] = "deleted"] ELSE gup
    /\ GGoto("delFin")
    /\ UNCHANGED <<grp, gcache, gname, gnew, lapses, events>>

GRemoveFinalizer ==
    /\ gpc = "delFin"
    /\ grp' = IF grp.phase = "deleting" THEN GAbsent ELSE [grp EXCEPT !.fin = FALSE]
    /\ GEnd(grp.phase = "gone")
    /\ UNCHANGED <<gcache, gup, gname, lapses, events>>

GAbort ==
    /\ gpc # "idle"
    /\ lapses < MaxLapses
    /\ lapses' = lapses + 1
    /\ GEnd(TRUE)
    /\ UNCHANGED <<grp, gcache, gup, gname, events>>

(* An administrator removes the group.                                     *)
AdminRemovesGroup(g) ==
    /\ gup[g] = "live"
    /\ events < MaxEvents
    /\ events' = events + 1
    /\ gup' = [gup EXCEPT ![g] = "removed"]
    /\ UNCHANGED <<grp, gcache, gname, gpc, gloc, gnew, gdue, lapses>>

GStep == \/ GStart \/ GAddFinalizer \/ GUpdate \/ GCreate \/ GPatch
         \/ GDelete \/ GRemoveFinalizer

-----------------------------------------------------------------------------
(* Groups in the service that neither the status names nor the running     *)
(* pass is about to record.                                                *)
GroupOrphans == {g \in Groups : /\ gup[g] = "live"
                                /\ g # grp.gid
                                /\ ~(gpc = "patch" /\ g = gnew)}
=============================================================================
