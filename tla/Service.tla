------------------------------ MODULE Service ------------------------------
(***************************************************************************)
(* The Service controller (service_controller.go) for one Service, over    *)
(* the OZResource controller: the annotations of an exposed Service become *)
(* the spec of the OZResource of the same name, through one OZRoutingPeer. *)
(*                                                                         *)
(* The controllers meet in the OZResource alone.  Each reads it from the   *)
(* same informer, so what the API accepts is what nobody has changed since *)
(* the informer's copy.  The Service controller watches Services only, and *)
(* a pass that succeeds with an OZResource at hand is not repeated.        *)
(***************************************************************************)
EXTENDS OZResource

CONSTANTS
    Configs,     \* what the annotations and the ports of a Service may say
    First        \* what they say when the Service is first seen

(* exposed: the expose annotation; pols, filter, src and groups: the other *)
(* annotations, {} standing for one that is missing; valid: the list of    *)
(* policy ports parses; ports: the ports of the Service.                   *)
ASSUME ConfigsAssumption ==
    /\ Configs \subseteq [exposed : BOOLEAN, pols : SUBSET Policies, src : BOOLEAN,
                          ports : Seq(Nat), filter : SUBSET Nat, valid : BOOLEAN,
                          groups : (SUBSET Groups) \ {{}}]
    /\ First \in Configs

VARIABLES
    svc, scache,  \* the Service in the API and the informer's copy
    spc, sloc,    \* the running pass and its copy
    sfresh,       \* its resourceVersion is still the API's
    sdue,
    rp,           \* the OZRoutingPeer: "absent", "pending" or "ready"
    missed,       \* the last pass to end well left an OZResource it did not want
    clash         \* a write of this controller has doomed a save of the other

service == <<svc, scache, spc, sloc, sfresh, sdue, rp, missed>>
vars == <<ovars, lapses, events, history, service, clash>>

-----------------------------------------------------------------------------
Services == [phase : {"live", "deleting", "gone"}, fin : BOOLEAN, cfg : Configs]

NoService == [phase |-> "gone", fin |-> FALSE, cfg |-> First]

TypeOK ==
    /\ RTypeOK
    /\ {svc, scache, sloc} \subseteq Services
    /\ spc \in {"idle", "addFin", "expose", "hide", "removeFin"}
    /\ rp \in {"absent", "pending", "ready"}
    /\ {sfresh, sdue, missed, clash} \subseteq BOOLEAN

Init ==
    /\ RInit
    /\ svc = [phase |-> "live", fin |-> FALSE, cfg |-> First]
    /\ scache = svc
    /\ spc = "idle"
    /\ sloc = NoService
    /\ sfresh = FALSE
    /\ sdue = TRUE
    /\ rp = "absent"
    /\ missed = FALSE
    /\ clash = FALSE

-----------------------------------------------------------------------------
(* reconcileNBResource and applyPolicy: the spec that a Service asks for.  *)

FilteredOut(v, c) == c.filter # {} /\ v \notin c.filter

(* Mutant: the filter applies to new ports only.                           *)
EditKeeping(list, v, c) ==
    IF FilteredOut(v, c) \/ Contains(list, v) THEN list ELSE Append(list, v)

(* What one port of the Service does to the list.                          *)
Edit(list, v, c) ==
    IF FilteredOut(v, c) THEN Without(list, v)
    ELSE IF Contains(list, v) THEN list ELSE Append(list, v)

(* The list that the OZResource has is edited, port by port: ports of the  *)
(* Service that the filter excludes are taken out, the others added.  A    *)
(* port that the Service no longer has stays.                              *)
Ports(old, c) ==
    LET list[i \in 0..Len(c.ports)] ==
          IF i = 0 THEN old ELSE Edit(list[i - 1], c.ports[i], c)
    IN  list[Len(c.ports)]

(* Without the policy annotation the ports go with the policies they were  *)
(* for, and the source groups stay.                                        *)
NewSpec(old, c) ==
    [pols |-> c.pols,
     ports |-> IF c.pols # {} THEN Ports(old.ports, c)
               ELSE IF old.pols # {} THEN <<>> ELSE old.ports,
     src |-> IF c.pols # {} THEN c.src ELSE old.src,
     groups |-> c.groups]

SpecEqual(a, b) == /\ a.pols = b.pols /\ a.groups = b.groups /\ a.src = b.src
                   /\ Equivalent(a.ports, b.ports)

-----------------------------------------------------------------------------
(* The reconcile pass.                                                     *)

SEnd(again) == /\ spc' = "idle"
               /\ sloc' = NoService
               /\ sfresh' = FALSE
               /\ sdue' = (sdue \/ again)

SGoto(label) == spc' = label /\ UNCHANGED <<sloc, sfresh, sdue>>

(* Another writer has changed the OZResource under a running pass.         *)
Overtake == /\ clash' = (clash \/ (pc # "idle" /\ fresh))
            /\ fresh' = FALSE

SStart ==
    /\ spc = "idle"
    /\ sdue
    /\ sdue' = FALSE
    /\ \/ scache.phase = "gone" /\ UNCHANGED <<spc, sloc, sfresh>>
       \/ /\ scache.phase # "gone"
          /\ sloc' = scache
          /\ sfresh' = (scache = svc)
          /\ spc' = CASE scache.phase = "live" /\ scache.cfg.exposed ->
                           IF scache.fin THEN "expose" ELSE "addFin"
                      [] OTHER -> "hide"
    /\ UNCHANGED <<svc, scache, rp, missed, clash, ovars, lapses, events, history>>

(* exposeService: the finalizer, an error on conflict.                     *)
SAddFinalizer ==
    /\ spc = "addFin"
    /\ \/ /\ sfresh
          /\ svc' = [svc EXCEPT !.fin = TRUE]
          /\ sloc' = [sloc EXCEPT !.fin = TRUE]
          /\ spc' = "expose"
          /\ UNCHANGED <<sfresh, sdue>>
       \/ ~sfresh /\ UNCHANGED svc /\ SEnd(TRUE)
    /\ UNCHANGED <<scache, rp, missed, clash, ovars, lapses, events, history>>

(* The routing peer: created when missing, waited for until it has a       *)
(* network.                                                                *)
ExposeRouter ==
    /\ spc = "expose"
    /\ rp # "ready"
    /\ rp' = "pending"
    /\ UNCHANGED svc
    /\ SEnd(TRUE)
    /\ UNCHANGED <<scache, missed, clash, ovars, lapses, events, history>>

(* The OZResource is created when the informer has none, and updated when  *)
(* the spec is not the one it has, which also takes the finalizer of the   *)
(* OZResource controller out of the list.  An OZResource that exists after *)
(* all and a conflict are errors; so is an annotation that does not parse. *)
ExposeResource ==
    /\ spc = "expose"
    /\ rp = "ready"
    /\ UNCHANGED svc
    /\ LET c == sloc.cfg
           spec == NewSpec(rcache.spec, c)
           invalid == c.pols # {} /\ ~c.valid
           same == rcache.phase # "gone" /\ SpecEqual(rcache.spec, spec)
           accepted == IF rcache.phase = "gone" THEN ozr.phase = "gone" ELSE rcache = ozr
       IN \/ invalid /\ SEnd(TRUE) /\ UNCHANGED <<ozr, fresh, missed, clash>>
          \/ /\ ~invalid /\ same
             /\ SEnd(FALSE)
             /\ missed' = (ozr.phase # "live" \/ ~SpecEqual(ozr.spec, spec))
             /\ UNCHANGED <<ozr, fresh, clash>>
          \/ /\ ~invalid /\ ~same /\ accepted
             /\ ozr' = IF rcache.phase = "gone" THEN New(spec)
                       ELSE [ozr EXCEPT !.spec = spec, !.rfin = FALSE]
             /\ SEnd(FALSE)
             /\ Overtake
             /\ missed' = (ozr'.phase # "live")
          \/ /\ ~invalid /\ ~same /\ ~accepted
             /\ SEnd(TRUE)
             /\ UNCHANGED <<ozr, fresh, missed, clash>>
    /\ UNCHANGED <<scache, rp, rcache, others, up, pc, loc, gids, todo, due, autoPolicy,
                   lapses, events, history>>

(* Mutant: the finalizer goes before the OZResource, and nobody deletes it *)
(* if the Service is gone then.                                            *)
HideKeepingResource ==
    /\ spc = "hide"
    /\ missed' = FALSE
    /\ UNCHANGED <<svc, ozr, fresh, clash>>
    /\ IF sloc.fin THEN SGoto("removeFin") ELSE SEnd(FALSE)
    /\ UNCHANGED <<scache, rp, rcache, others, up, pc, loc, gids, todo, due, autoPolicy,
                   lapses, events, history>>

(* hideService: the OZResource is deleted if the informer has one; Delete  *)
(* on one that is gone is an error.                                        *)
HideResource ==
    /\ spc = "hide"
    /\ UNCHANGED svc
    /\ \/ /\ rcache.phase = "gone" \/ ozr.phase # "gone"
          /\ \/ /\ rcache.phase # "gone" /\ ozr.phase = "live"
                /\ ozr' = [ozr EXCEPT !.phase = "deleting"]
                /\ Overtake
             \/ /\ rcache.phase = "gone" \/ ozr.phase # "live"
                /\ UNCHANGED <<ozr, fresh, clash>>
          /\ missed' = (ozr'.phase = "live")
          /\ IF sloc.fin THEN SGoto("removeFin") ELSE SEnd(FALSE)
       \/ /\ rcache.phase # "gone" /\ ozr.phase = "gone"
          /\ SEnd(TRUE)
          /\ UNCHANGED <<ozr, fresh, clash, missed>>
    /\ UNCHANGED <<scache, rp, rcache, others, up, pc, loc, gids, todo, due, autoPolicy,
                   lapses, events, history>>

SRemoveFinalizer ==
    /\ spc = "removeFin"
    /\ \/ /\ sfresh
          /\ svc' = [svc EXCEPT !.fin = FALSE,
                                !.phase = IF @ = "deleting" THEN "gone" ELSE @]
          /\ SEnd(FALSE)
       \/ ~sfresh /\ UNCHANGED svc /\ SEnd(TRUE)
    /\ UNCHANGED <<scache, rp, missed, clash, ovars, lapses, events, history>>

SAbort ==
    /\ spc # "idle"
    /\ Eventful
    /\ lapses' = lapses + 1
    /\ UNCHANGED svc
    /\ SEnd(TRUE)
    /\ UNCHANGED <<scache, rp, missed, clash, ovars, events, history>>

-----------------------------------------------------------------------------
(* The watch, the OZRoutingPeer controller and the users.                  *)

SCacheSync ==
    /\ scache # svc
    /\ scache' = svc
    /\ sdue' = TRUE
    /\ UNCHANGED <<svc, spc, sloc, sfresh, rp, missed, clash, ovars, lapses, events, history>>

RouterReady ==
    /\ rp = "pending"
    /\ rp' = "ready"
    /\ UNCHANGED <<svc, scache, spc, sloc, sfresh, sdue, missed, clash, ovars,
                   lapses, events, history>>

(* A user edits, deletes or creates the Service.                           *)
UserChange ==
    /\ Eventful
    /\ events' = events + 1
    /\ \/ \E c \in Configs \ {svc.cfg} : svc.phase = "live" /\ svc' = [svc EXCEPT !.cfg = c]
       \/ svc.phase = "live" /\ svc' = [svc EXCEPT !.phase = IF svc.fin THEN "deleting" ELSE "gone"]
       \/ \E c \in Configs : /\ svc.phase = "gone"
                             /\ svc' = [phase |-> "live", fin |-> FALSE, cfg |-> c]
    /\ sfresh' = FALSE
    /\ UNCHANGED <<scache, spc, sloc, sdue, rp, missed, clash, ovars, lapses, history>>

SStep == \/ SStart \/ SAddFinalizer \/ ExposeRouter \/ ExposeResource
         \/ HideResource \/ SRemoveFinalizer

SameService == UNCHANGED <<service, clash, autoPolicy>>

Next == \/ SStep \/ SAbort \/ SCacheSync \/ RouterReady \/ UserChange
        \/ RStep /\ SameService
        \/ Abort /\ SameService
        \/ CacheSync /\ SameService
        \/ OtherSync /\ SameService
        \/ OtherControllers /\ SameService
        \/ AdminRemoves /\ SameService

(* Workers, informers and the other controllers make progress.             *)
Fairness ==
    /\ WF_vars(SStep)
    /\ WF_vars(RStep /\ SameService)
    /\ WF_vars(CacheSync /\ SameService)
    /\ WF_vars(OtherSync /\ SameService)
    /\ WF_vars(SCacheSync \/ RouterReady \/ (OtherControllers /\ SameService))

Spec == Init /\ [][Next]_vars /\ Fairness

-----------------------------------------------------------------------------
(* Properties.                                                             *)

(* Only a pass cut off, a failed call or a save that a write of the other  *)
(* controller dooms loses the id of a network resource that was created:   *)
(* in every other case the OZResource takes its network resource with it,  *)
(* whatever users do to the Service meanwhile.                             *)
OrphansAccounted == Orphans # {} => lapses > 0 \/ clash

(* The groups of a network resource are all those of one configuration of  *)
(* the Service, never a part of them, unless handleGroups has gone on      *)
(* after an OZGroup it could not release (a failed call, or a write that   *)
(* rested on an outdated copy): no other failure, change by a user or      *)
(* outdated copy makes a pass go on with a list that is not complete.      *)
GroupsComplete ==
    \A i \in Live : (\E c \in Configs : up[i].groups = c.groups) \/ ungrouped

(* A policy that the user wrote does not list an OZResource that is gone   *)
(* unless, after the policy's status was written, a pass was cut off, its  *)
(* save was doomed, or another policy of the list ended it in an error, or *)
(* the pass that was to take the entry out read an outdated copy of the    *)
(* policy that did not have it yet.                                        *)
PoliciesReleased ==
    ozr.phase = "gone" => \A p \in Policies :
        pol[p].managed => lapses > 0 \/ clash \/ broken \/ p \in overlooked

Exposed == svc.phase = "live" /\ svc.cfg.exposed
Allowed == {v \in Range(svc.cfg.ports) : ~FilteredOut(v, svc.cfg)}

(* The OZResource and the network resource give what the Service asks for. *)
Served ==
    /\ ozr.phase = "live" /\ ozr.ready = "true"
    /\ ozr.sid \in Live /\ up[ozr.sid].groups = svc.cfg.groups
    /\ ozr.spols = svc.cfg.pols
    /\ \A p \in svc.cfg.pols :
         \/ /\ IF p \in ozr.map THEN gen[p].managed ELSE pol[p].managed
            /\ Allowed \subseteq Range(ozr.sports)
         \/ pol[p].st = "absent" /\ ~autoPolicy

(* What may stand in the way for good: an annotation that does not parse,  *)
(* a policy to generate without source groups, and the name of the network *)
(* resource taken by an orphan.                                            *)
Wedged == \/ svc.cfg.pols # {} /\ ~svc.cfg.valid
          \/ autoPolicy /\ ~svc.cfg.src /\ \E p \in svc.cfg.pols : pol[p].st = "absent"
          \/ ozr.ready = "dup"

(* "reconcileNBResource ensures OZResource settings are in-line with       *)
(* Service definition and annotations": with every pass and informer up to *)
(* date, whatever list of ports the edits started from, a port of the      *)
(* Service is open if and only if the annotation allows it.  Ports that    *)
(* the Service no longer has are not covered: they stay open.              *)
PortsInLine ==
    /\ Exposed /\ svc.cfg.pols # {} /\ svc.cfg.valid
    /\ spc = "idle" /\ ~sdue /\ scache = svc
    /\ ozr.phase = "live" /\ rcache = ozr /\ ~missed
    => \A v \in Range(svc.cfg.ports) : v \in Range(ozr.spec.ports) <=> v \in Allowed

(* Once users and failures stop, an exposed Service is served and a hidden *)
(* one has no OZResource, or the last pass missed the change that          *)
(* another was making to the OZResource at the time.                       *)
EventuallySettled ==
    <>[](/\ Exposed => Served \/ Wedged \/ missed
         /\ ~Exposed => ozr.phase = "gone" \/ missed)
=============================================================================
