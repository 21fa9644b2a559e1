------------------------ MODULE NetworkResourceProofs ------------------------
(***************************************************************************)
(* Proofs about NetworkResource for every set of networks, ids, zones and  *)
(* addresses and every bound, over any router that behaves as Handle says: *)
(* type correctness, and the accounting of the network resources and the   *)
(* DNS records left behind.                                                *)
(***************************************************************************)
EXTENDS NetworkResource, FiniteSetTheorems, TLAPS

USE IdsAssumption, NoneAssumption, BoundsAssumption, ChoicesAssumption

-----------------------------------------------------------------------------
(* The invariant.                                                          *)

(* Calls before the resource is saved, and before the record is.           *)
ResourceCalls == {"depend", "update", "create", "patchRes"}
RecordCalls == {"zone", "dropRec", "updateRec", "createRec", "patchReady"}
Teardown == {"delRes", "delRec", "delFin"}

(* Networks the pass, the status and the resources have come across.       *)
Known == {n \in Nets : \/ n \in {rnid, rcache.nid, cur.net}
                       \/ n \in {api.nid, cache.nid, loc.nid}
                       \/ \E r \in Resources : n = res[r].net}

(* The router never goes back to a network: of the networks known every    *)
(* one but the newest was left, and only the router's can be the newest.   *)
NetOrder ==
    /\ \A m, n \in Known : m < n => m \in left
    /\ rnid # None => \A n \in Known : n <= rnid
    /\ rphase = "gone" => rnid = None
    /\ rnid = None /\ rphase # "gone" => Known = {}

(* Nor does the status: what the pass works with is at least as new as any *)
(* copy of it.                                                             *)
NotAhead(o) ==
    o.nid # None => /\ rcache.nid # None => o.nid <= rcache.nid
                    /\ cur.net # None => o.nid <= cur.net
                    /\ api.phase # "gone" => api.nid # None /\ o.nid <= api.nid
NetForward ==
    /\ NotAhead(api) /\ NotAhead(cache) /\ NotAhead(loc)
    /\ cur.net # None /\ rcache.nid # None => cur.net <= rcache.nid

(* The phases and the finalizer.                                           *)
Phases ==
    /\ api.phase = "gone" => /\ ~api.fin /\ api.nid = None /\ api.res = None
                             /\ api.zid = None /\ api.rec = None
    /\ api.phase = "deleting" => api.fin
    /\ cache.phase = "deleting" => api.phase # "live"
    /\ pc \in Teardown => api.phase # "live"
    /\ pc = "idle" => loc = Absent /\ cur = Nothing
    /\ api.phase # "gone" /\ (cache.fin \/ loc.fin \/ pc \in RecordCalls) => api.fin

(* What a copy of the status says of the resource is true of it, and the   *)
(* pass creates another one only when this one is gone or in a network     *)
(* that was left.                                                          *)
NamesResource(o) ==
    /\ o.res = None <=> o.nid = None
    /\ o.res # None => o.fin /\ res[o.res].st # "unused" /\ res[o.res].net = o.nid
ResourceIds ==
    /\ NamesResource(api) /\ NamesResource(cache) /\ NamesResource(loc)
    /\ pc = "update" => loc.res # None
    /\ pc \in {"update", "create", "patchRes"} => cur.net # None
    /\ pc = "patchRes" => /\ cur.res # None
                          /\ res[cur.res].st # "unused" /\ res[cur.res].net = cur.net
    /\ loc.res # None /\ (\/ pc = "create" \/ pc \in {"delRec", "delFin"}
                          \/ pc = "patchRes" /\ cur.res # loc.res) =>
         \/ res[loc.res].st # "live"
         \/ pc \in {"create", "patchRes"} /\ loc.nid # cur.net

(* A copy of the status names a record that was created, and the pass has  *)
(* deleted or looked in vain for it when it creates another.               *)
NamesRecord(o) ==
    /\ o.rec = None <=> o.zid = None
    /\ o.rec # None => /\ o.fin /\ rec[o.rec].st # "unused"
                       /\ api.phase # "gone" => api.rec # None
                       /\ o.rec = api.rec => o.zid = api.zid
RecordIds ==
    /\ NamesRecord(api) /\ NamesRecord(cache) /\ NamesRecord(loc)
    /\ pc \in {"update", "create", "patchRes"} \cup RecordCalls => cur.zone # None
    /\ pc = "updateRec" => loc.rec # None /\ loc.zid = cur.zone
    /\ pc = "patchReady" =>
         /\ cur.rec # None /\ rec[cur.rec].st # "unused"
         /\ cur.rec = loc.rec => loc.zid = cur.zone
         /\ cur.rec # loc.rec => /\ rec[cur.rec].zone = cur.zone
                                 /\ cur.rec \notin {api.rec, cache.rec}
    /\ loc.rec # None /\ (\/ pc \in {"createRec", "delFin"}
                          \/ pc = "patchReady" /\ cur.rec # loc.rec) =>
         rec[loc.rec].st # "live" \/ rec[loc.rec].zone # loc.zid

Inv == TypeOK /\ NetOrder /\ NetForward /\ Phases /\ ResourceIds /\ RecordIds

(* The resources a lapse may cost: those left behind, and the one that a   *)
(* pass which read an old status will forget.  None stands for the one     *)
(* that a pass may yet create for an object that is gone.                  *)
ResourceDoomed ==
    {r \in Resources : \/ /\ res[r].st = "live" /\ r # api.res
                          /\ res[r].net \notin left
                          /\ ~(pc = "patchRes" /\ r = cur.res /\ r # loc.res)
                       \/ r = api.res /\ r # loc.res /\ pc \in ResourceCalls \cup Teardown}
    \cup (IF api.phase = "gone" /\ pc \in ResourceCalls THEN {None} ELSE {})

(* The same for records, where a record is also lost when the status has   *)
(* it in another zone than it is in.  None stands for the one that a pass  *)
(* on an old status may save so, too.                                      *)
RecordDoomed ==
    {r \in Records : \/ /\ rec[r].st = "live"
                        /\ r # api.rec \/ rec[r].zone # api.zid
                        /\ ~(pc = "patchReady" /\ r = cur.rec /\ r # loc.rec)
                     \/ /\ r = api.rec /\ r # loc.rec
                        /\ pc \in ResourceCalls \cup RecordCalls \cup Teardown}
    \cup (IF /\ api.phase = "gone" \/ api.rec # loc.rec
             /\ pc \in ResourceCalls \cup RecordCalls THEN {None} ELSE {})

LeakInv == /\ Inv
           /\ IsFiniteSet(ResourceDoomed) /\ Cardinality(ResourceDoomed) <= lapses
           /\ IsFiniteSet(RecordDoomed) /\ Cardinality(RecordDoomed) <= 2 * lapses

-----------------------------------------------------------------------------
(* Types.                                                                  *)

Pcs == {"idle", "depend", "markFalse", "update", "create", "patchRes", "zone",
        "dropRec", "updateRec", "createRec", "patchReady", "delRes", "delRec", "delFin"}
Obtained == [ip : IPs \cup {None}, net : Nets \cup {None},
             zone : Zones \cup {None}, res : Resources \cup {None},
             rec : Records \cup {None}]
Routers == [found : BOOLEAN, nid : Nets \cup {None}, served : BOOLEAN, zone : Zones]
NetResources == [st : UpStates, net : Nets \cup {None}, ip : IPs \cup {None}]
DNSRecords == [st : UpStates, zone : Zones \cup {None}, ip : IPs \cup {None}]

(* The parts of the type invariant: the environment, and the controller.   *)
WorldTypes ==
    /\ net \in [Nets -> {"unused", "live", "dead"}]
    /\ rnid \in Nets \cup {None}
    /\ rphase \in {"live", "deleting", "gone"}
    /\ served \in BOOLEAN
    /\ zone \in Zones
    /\ rcache \in Routers
    /\ left \subseteq Nets
    /\ svc \in IPs \cup {None} /\ scache \in IPs \cup {None}
OwnTypes ==
    /\ api \in Objects /\ cache \in Objects /\ loc \in Objects
    /\ res \in [Resources -> NetResources]
    /\ rec \in [Records -> DNSRecords]
    /\ pc \in Pcs
    /\ cur \in Obtained
    /\ due \in BOOLEAN
Counts == lapses \in 0..MaxLapses /\ events \in 0..MaxEvents

LEMMA TypeParts == TypeOK <=> WorldTypes /\ OwnTypes /\ Counts
  BY DEF TypeOK, WorldTypes, OwnTypes, Counts, Pcs, Obtained, Routers,
     NetResources, DNSRecords

(* Fields of the records, and the writes that keep them what they are.     *)
LEMMA LiteralObjects == Absent \in Objects /\ Created \in Objects /\ Nothing \in Obtained
  BY DEF Absent, Created, Objects, Nothing, Obtained

LEMMA AbsentFields ==
  /\ Absent.phase = "gone" /\ ~Absent.fin /\ Absent.nid = None /\ Absent.res = None
  /\ Absent.zid = None /\ Absent.rec = None
  /\ Nothing.net = None /\ Nothing.res = None /\ Nothing.zone = None
  /\ Nothing.rec = None
  BY DEF Absent, Nothing

LEMMA ObjectFields ==
  ASSUME NEW o \in Objects
  PROVE  /\ o.phase \in {"live", "deleting", "gone"} /\ o.fin \in BOOLEAN
         /\ o.nid \in Nets \cup {None} /\ o.res \in Resources \cup {None}
         /\ o.zid \in Zones \cup {None} /\ o.rec \in Records \cup {None}
  BY DEF Objects

LEMMA ObtainedFields ==
  ASSUME NEW c \in Obtained
  PROVE  /\ c.ip \in IPs \cup {None} /\ c.net \in Nets \cup {None}
         /\ c.zone \in Zones \cup {None} /\ c.res \in Resources \cup {None}
         /\ c.rec \in Records \cup {None}
  BY DEF Obtained

LEMMA RouterFields ==
  ASSUME NEW q \in Routers
  PROVE  /\ q.nid \in Nets \cup {None} /\ q.zone \in Zones
         /\ q.found \in BOOLEAN /\ q.served \in BOOLEAN
  BY DEF Routers

LEMMA RouterNowType == WorldTypes => RouterNow \in Routers
  BY DEF WorldTypes, RouterNow, Routers

(* A step leaves the counters alone or adds one to one of them.            *)
Tally == /\ \/ lapses' = lapses
            \/ lapses < MaxLapses /\ lapses' = lapses + 1
         /\ \/ events' = events
            \/ events < MaxEvents /\ events' = events + 1

LEMMA StepTally == [Next]_vars => Tally
  <1> SUFFICES ASSUME [Next]_vars PROVE Tally
    OBVIOUS
  <1> USE DEF Tally
  <1>1. CASE Start
    BY <1>1 DEF Start
  <1>2. CASE Step /\ ~Start
    BY <1>2 DEF Step, GetDependencies, MarkFalse, UpdateResource, CreateResource,
       PatchResource, GetZone, DeleteOldRecord, UpdateRecord, CreateRecord, PatchReady,
       DeleteResource, DeleteRecord, RemoveFinalizer
  <1>3. CASE Abort
    BY <1>3 DEF Abort
  <1>4. CASE CacheSync \/ RouterSync \/ ServiceSync
    BY <1>4 DEF CacheSync, RouterSync, ServiceSync
  <1>5. CASE RouterChange
    BY <1>5 DEF RouterChange, Event
  <1>6. CASE UserDelete
    BY <1>6 DEF UserDelete
  <1>7. CASE \/ \E ip \in IPs \cup {None} : UserChangesService(ip)
             \/ \E z \in Zones : UserChangesZone(z)
             \/ \E r \in Records : AdminRemovesRecord(r)
    BY <1>7 DEF UserChangesService, UserChangesZone, AdminRemovesRecord, Event
  <1>8. CASE UNCHANGED vars
    BY <1>8 DEF vars
  <1> QED
    BY <1>1, <1>2, <1>3, <1>4, <1>5, <1>6, <1>7, <1>8 DEF Next

LEMMA StepCounts ==
  ASSUME Counts, [Next]_vars PROVE Counts'
  <1>1. Tally
    BY StepTally
  <1>2. lapses' \in 0..MaxLapses
    BY <1>1 DEF Counts, Tally
  <1>3. events' \in 0..MaxEvents
    BY <1>1 DEF Counts, Tally
  <1> QED
    BY <1>2, <1>3 DEF Counts

(* The steps of others than the controller.                                *)
Outside == \/ RouterSync \/ ServiceSync \/ RouterChange
           \/ \E ip \in IPs \cup {None} : UserChangesService(ip)
           \/ \E z \in Zones : UserChangesZone(z)

(* Every step keeps the types of the environment.                          *)
LEMMA StepWorldTypes ==
  ASSUME WorldTypes, [Next]_vars PROVE WorldTypes'
  <1> USE DEF WorldTypes
  <1>1. CASE RouterSync
    BY <1>1, RouterNowType DEF RouterSync, svcvars
  <1>2. CASE ServiceSync
    BY <1>2 DEF ServiceSync, rtvars
  <1>3. CASE RouterChange
    <2>1. UNCHANGED <<zone, rcache, svc, scache>>
      BY <1>3 DEF RouterChange, svcvars
    <2>2. net' \in [Nets -> {"unused", "live", "dead"}]
      BY <1>3 DEF RouterChange, Router!Appear, Router!Disappear, Router!Publish,
         Router!Close, Router!Withdraw
    <2>3. rnid' \in Nets \cup {None} /\ rphase' \in {"live", "deleting", "gone"}
      BY <1>3 DEF RouterChange, Router!Appear, Router!Disappear, Router!Publish,
         Router!Close, Router!Withdraw
    <2>4. served' \in BOOLEAN
      BY <1>3 DEF RouterChange
    <2>5. left' \subseteq Nets
      BY <1>3 DEF RouterChange
    <2> QED
      BY <2>1, <2>2, <2>3, <2>4, <2>5
  <1>4. CASE \E ip \in IPs \cup {None} : UserChangesService(ip)
    BY <1>4 DEF UserChangesService, rtvars
  <1>5. CASE \E z \in Zones : UserChangesZone(z)
    BY <1>5 DEF UserChangesZone, svcvars
  <1>6. CASE UNCHANGED <<rtvars, svcvars>>
    BY <1>6 DEF rtvars, svcvars
  <1>7. Outside \/ UNCHANGED <<rtvars, svcvars>>
    BY DEF Next, Step, Start, GetDependencies, MarkFalse, UpdateResource, CreateResource,
       PatchResource, GetZone, DeleteOldRecord, UpdateRecord, CreateRecord, PatchReady,
       DeleteResource, DeleteRecord, RemoveFinalizer, Abort, CacheSync, UserDelete,
       AdminRemovesRecord, Outside, vars
  <1> QED
    BY <1>1, <1>2, <1>3, <1>4, <1>5, <1>6, <1>7 DEF Outside

(* A resource or record changes its state and address only, but for the    *)
(* one that is created.                                                    *)
SameResource(r) == res'[r].st = res[r].st /\ res'[r].net = res[r].net
Aged(was, now) == now = was \/ (was = "live" /\ now \notin {"live", "unused"})
ResourcesAge == \A r \in Resources : /\ res'[r].net = res[r].net
                                     /\ Aged(res[r].st, res'[r].st)
SameRecord(r) == rec'[r].st = rec[r].st /\ rec'[r].zone = rec[r].zone
RecordsAge == \A r \in Records : /\ rec'[r].zone = rec[r].zone
                                 /\ Aged(rec[r].st, rec'[r].st)

LEMMA ResourceUpdate ==
  ASSUME OwnTypes, NEW r, NEW i \in IPs \cup {None}, res' = [res EXCEPT ![r].ip = i]
  PROVE  /\ res' \in [Resources -> NetResources]
         /\ \A q \in Resources : SameResource(q)
  <1> SUFFICES ASSUME NEW q \in Resources
               PROVE  res'[q] \in NetResources /\ SameResource(q)
    BY DEF OwnTypes
  <1>1. res[q] \in NetResources
    BY DEF OwnTypes
  <1>2. res'[q] = res[q] \/ res'[q] = [res[q] EXCEPT !.ip = i]
    BY DEF OwnTypes
  <1> QED
    BY <1>1, <1>2 DEF NetResources, SameResource

LEMMA ResourceEnd ==
  ASSUME OwnTypes, NEW r \in Resources, res[r].st = "live",
         res' = [res EXCEPT ![r].st = "deleted"]
  PROVE  /\ res' \in [Resources -> NetResources]
         /\ ResourcesAge /\ res'[r].st # "live"
  <1>1. ASSUME NEW q \in Resources
        PROVE  /\ res'[q] \in NetResources /\ res'[q].net = res[q].net
               /\ Aged(res[q].st, res'[q].st)
               /\ q = r => res'[q].st # "live"
    <2>1. res[q] \in NetResources
      BY DEF OwnTypes
    <2>2. \/ q # r /\ res'[q] = res[q]
          \/ q = r /\ res'[q] = [res[q] EXCEPT !.st = "deleted"]
      BY DEF OwnTypes
    <2> QED
      BY <2>1, <2>2 DEF NetResources, Aged, UpStates
  <1> QED
    BY <1>1 DEF OwnTypes, ResourcesAge

LEMMA ResourcesLost ==
  ASSUME OwnTypes, NEW n,
         res' = [r \in Resources |-> IF res[r].st = "live" /\ res[r].net = n
                                       THEN [res[r] EXCEPT !.st = "lost"] ELSE res[r]]
  PROVE  res' \in [Resources -> NetResources] /\ ResourcesAge
  <1>1. ASSUME NEW q \in Resources
        PROVE  /\ res'[q] \in NetResources /\ res'[q].net = res[q].net
               /\ Aged(res[q].st, res'[q].st)
    <2>1. res[q] \in NetResources
      BY DEF OwnTypes
    <2>2. \/ res'[q] = res[q]
          \/ res[q].st = "live" /\ res'[q] = [res[q] EXCEPT !.st = "lost"]
      BY DEF OwnTypes
    <2> QED
      BY <2>1, <2>2 DEF NetResources, Aged, UpStates
  <1> QED
    BY <1>1 DEF OwnTypes, ResourcesAge

LEMMA ResourceNew ==
  ASSUME OwnTypes, NEW r \in Resources, NEW n \in Nets \cup {None},
         NEW i \in IPs \cup {None},
         res' = [res EXCEPT ![r] = [st |-> "live", net |-> n, ip |-> i]]
  PROVE  /\ res' \in [Resources -> NetResources]
         /\ res'[r].st = "live" /\ res'[r].net = n
         /\ \A q \in Resources \ {r} : SameResource(q)
  <1>1. [st |-> "live", net |-> n, ip |-> i] \in NetResources
    BY DEF NetResources, UpStates
  <1> QED
    BY <1>1 DEF OwnTypes, SameResource

LEMMA RecordUpdate ==
  ASSUME OwnTypes, NEW r, NEW i \in IPs \cup {None}, rec' = [rec EXCEPT ![r].ip = i]
  PROVE  /\ rec' \in [Records -> DNSRecords]
         /\ \A q \in Records : SameRecord(q)
  <1> SUFFICES ASSUME NEW q \in Records
               PROVE  rec'[q] \in DNSRecords /\ SameRecord(q)
    BY DEF OwnTypes
  <1>1. rec[q] \in DNSRecords
    BY DEF OwnTypes
  <1>2. rec'[q] = rec[q] \/ rec'[q] = [rec[q] EXCEPT !.ip = i]
    BY DEF OwnTypes
  <1> QED
    BY <1>1, <1>2 DEF DNSRecords, SameRecord

LEMMA RecordEnd ==
  ASSUME OwnTypes, NEW r \in Records, NEW how \in {"deleted", "removed"},
         rec[r].st = "live", rec' = [rec EXCEPT ![r].st = how]
  PROVE  /\ rec' \in [Records -> DNSRecords]
         /\ RecordsAge /\ rec'[r].st # "live"
  <1>1. ASSUME NEW q \in Records
        PROVE  /\ rec'[q] \in DNSRecords /\ rec'[q].zone = rec[q].zone
               /\ Aged(rec[q].st, rec'[q].st)
               /\ q = r => rec'[q].st # "live"
    <2>1. rec[q] \in DNSRecords
      BY DEF OwnTypes
    <2>2. \/ q # r /\ rec'[q] = rec[q]
          \/ q = r /\ rec'[q] = [rec[q] EXCEPT !.st = how]
      BY DEF OwnTypes
    <2> QED
      BY <2>1, <2>2 DEF DNSRecords, Aged, UpStates
  <1> QED
    BY <1>1 DEF OwnTypes, RecordsAge

LEMMA RecordNew ==
  ASSUME OwnTypes, NEW r \in Records, NEW z \in Zones \cup {None},
         NEW i \in IPs \cup {None},
         rec' = [rec EXCEPT ![r] = [st |-> "live", zone |-> z, ip |-> i]]
  PROVE  /\ rec' \in [Records -> DNSRecords]
         /\ rec'[r].st = "live" /\ rec'[r].zone = z
         /\ \A q \in Records \ {r} : SameRecord(q)
  <1>1. [st |-> "live", zone |-> z, ip |-> i] \in DNSRecords
    BY DEF DNSRecords, UpStates
  <1> QED
    BY <1>1 DEF OwnTypes, SameRecord

(* DropRecord deletes the record if it is in the zone it was looked for.   *)
Dropped == /\ rec' \in [Records -> DNSRecords] /\ RecordsAge
           /\ loc.rec # None => rec'[loc.rec].st # "live" \/ rec'[loc.rec].zone # loc.zid

LEMMA DropEffect ==
  ASSUME OwnTypes, DropRecord(loc.zid, loc.rec) PROVE Dropped
  <1>1. loc.rec \in Records \cup {None}
    BY ObjectFields DEF OwnTypes
  <1>2. CASE loc.rec # None /\ rec[loc.rec].st = "live" /\ rec[loc.rec].zone = loc.zid
    <2>1. rec' = [rec EXCEPT ![loc.rec].st = "deleted"]
      BY <1>2 DEF DropRecord
    <2> QED
      BY <1>1, <1>2, <2>1, RecordEnd DEF Dropped
  <1>3. CASE ~(loc.rec # None /\ rec[loc.rec].st = "live" /\ rec[loc.rec].zone = loc.zid)
    <2>1. rec' = rec
      BY <1>3 DEF DropRecord
    <2> QED
      BY <1>3, <2>1 DEF Dropped, RecordsAge, Aged, OwnTypes
  <1> QED
    BY <1>2, <1>3

-----------------------------------------------------------------------------
(* What the steps do, field by field.                                      *)

Ends == pc' = "idle" /\ loc' = Absent /\ cur' = Nothing
Kept == /\ api'.phase = api.phase /\ api'.fin = api.fin /\ api'.nid = api.nid
        /\ api'.res = api.res /\ api'.zid = api.zid /\ api'.rec = api.rec

Begins ==
    /\ pc = "idle" /\ UNCHANGED <<api, cache, res, rec, cur>>
    /\ \/ pc' = "idle" /\ loc' = loc
       \/ pc' = "depend" /\ loc' = cache /\ cache.phase = "live"
       \/ pc' = "delRes" /\ loc' = cache /\ cache.phase = "deleting"
    /\ \/ lapses' = lapses + 1
       \/ /\ cache.res = api.res /\ cache.rec = api.rec
          /\ ~(cache.phase = "live" /\ api.phase = "gone")

Depends ==
    /\ pc = "depend" /\ UNCHANGED <<api, cache, res, rec, loc>>
    /\ \/ pc' = "markFalse" /\ cur' = cur
       \/ /\ pc' = IF loc.res = None THEN "create" ELSE "update"
          /\ rcache.nid # None /\ cur'.net = rcache.nid
          /\ cur'.zone = rcache.zone

Marks == pc = "markFalse" /\ Ends /\ Kept /\ UNCHANGED <<cache, res, rec>>

UpdatesResource ==
    /\ pc = "update" /\ UNCHANGED <<api, cache, rec, loc>>
    /\ \A r \in Resources : SameResource(r)
    /\ cur'.net = cur.net /\ cur'.zone = cur.zone
    /\ \/ /\ res[loc.res].st = "live" /\ res[loc.res].net = cur.net
          /\ pc' = "patchRes" /\ cur'.res = loc.res
       \/ /\ res[loc.res].st # "live" \/ res[loc.res].net # cur.net
          /\ pc' = "create" /\ res' = res

CreatesResource ==
    /\ pc = "create" /\ UNCHANGED <<api, cache, rec>>
    /\ \/ Ends /\ res' = res
       \/ /\ pc' = "patchRes" /\ loc' = loc
          /\ cur'.net = cur.net /\ cur'.zone = cur.zone
          /\ cur'.res \in Resources /\ res[cur'.res].st = "unused"
          /\ res'[cur'.res].st = "live" /\ res'[cur'.res].net = cur.net
          /\ \A q \in Resources \ {cur'.res} : SameResource(q)

PatchesResource ==
    /\ pc = "patchRes" /\ UNCHANGED <<cache, res, rec>>
    /\ \/ /\ loc.fin /\ cur.net = loc.nid /\ cur.res = loc.res
          /\ pc' = "zone" /\ UNCHANGED <<api, loc, cur>>
       \/ /\ api.phase # "gone"
          /\ api'.phase = api.phase /\ api'.fin
          /\ api'.nid = (IF cur.net = loc.nid THEN api.nid ELSE cur.net)
          /\ api'.res = (IF cur.res = loc.res THEN api.res ELSE cur.res)
          /\ api'.zid = api.zid /\ api'.rec = api.rec
          /\ pc' = "zone" /\ UNCHANGED <<loc, cur>>
       \/ api.phase = "gone" /\ api' = api /\ Ends

FindsZone ==
    /\ pc = "zone" /\ UNCHANGED <<api, cache, res, rec>>
    /\ \/ Ends
       \/ /\ UNCHANGED <<loc, cur>>
          /\ \/ pc' = "updateRec" /\ loc.zid = cur.zone
             \/ pc' = "createRec" /\ loc.zid = None
             \/ pc' = "dropRec"

DropsRecord == /\ pc = "dropRec" /\ pc' = "createRec"
               /\ UNCHANGED <<api, cache, res, loc, cur>> /\ Dropped

UpdatesRecord ==
    /\ pc = "updateRec" /\ UNCHANGED <<api, cache, res, loc>>
    /\ \A r \in Records : SameRecord(r)
    /\ cur'.zone = cur.zone /\ cur'.net = cur.net
    /\ \/ pc' = "patchReady" /\ cur'.rec = loc.rec
       \/ /\ rec[loc.rec].st # "live" \/ rec[loc.rec].zone # loc.zid
          /\ pc' = "createRec" /\ rec' = rec

CreatesRecord ==
    /\ pc = "createRec" /\ UNCHANGED <<api, cache, res, loc>>
    /\ pc' = "patchReady" /\ cur'.zone = cur.zone /\ cur'.net = cur.net
    /\ cur'.rec \in Records /\ rec[cur'.rec].st = "unused"
    /\ rec'[cur'.rec].st = "live" /\ rec'[cur'.rec].zone = cur.zone
    /\ \A q \in Records \ {cur'.rec} : SameRecord(q)

PatchesReady ==
    /\ pc = "patchReady" /\ UNCHANGED <<cache, res, rec>> /\ Ends
    /\ \/ /\ api.phase # "gone"
          /\ api'.phase = api.phase /\ api'.fin = api.fin
          /\ api'.nid = api.nid /\ api'.res = api.res
          /\ api'.zid = (IF cur.zone = loc.zid THEN api.zid ELSE cur.zone)
          /\ api'.rec = (IF cur.rec = loc.rec THEN api.rec ELSE cur.rec)
       \/ api.phase = "gone" /\ api' = api

DeletesResource ==
    /\ pc = "delRes" /\ pc' = "delRec" /\ UNCHANGED <<api, cache, rec, loc, cur>>
    /\ ResourcesAge
    /\ loc.res # None => res'[loc.res].st # "live" \/ res'[loc.res].net # loc.nid

DeletesRecord ==
    /\ pc = "delRec" /\ pc' = "delFin" /\ UNCHANGED <<api, cache, res, loc, cur>>
    /\ Dropped

Removes == pc = "delFin" /\ Ends /\ api' = Absent /\ UNCHANGED <<cache, res, rec>>

Aborts == /\ pc # "idle" /\ lapses' = lapses + 1
          /\ Ends /\ UNCHANGED <<api, cache, res, rec>>

Syncs == cache' = api /\ UNCHANGED <<api, res, rec, pc, loc, cur>>

IsDeleted ==
    /\ api.phase = "live" /\ UNCHANGED <<cache, res, rec, pc, loc, cur>>
    /\ \/ /\ api.fin /\ api'.phase = "deleting"
          /\ api'.fin = api.fin /\ api'.nid = api.nid /\ api'.res = api.res
          /\ api'.zid = api.zid /\ api'.rec = api.rec
       \/ /\ ~api.fin /\ api' = Absent
          /\ pc = "idle" \/ lapses' = lapses + 1

(* A step of somebody else on the service's side, or none.                 *)
Elsewhere == UNCHANGED <<api, cache, pc, loc, cur>> /\ ResourcesAge /\ RecordsAge

Effect == \/ Begins \/ Depends \/ Marks \/ UpdatesResource \/ CreatesResource
          \/ PatchesResource \/ FindsZone \/ DropsRecord \/ UpdatesRecord \/ CreatesRecord
          \/ PatchesReady \/ DeletesResource \/ DeletesRecord \/ Removes
          \/ Aborts \/ Syncs \/ IsDeleted \/ Elsewhere

(* Every step has one of these effects and keeps the controller's types.   *)
Typed == /\ api' \in Objects /\ cache' \in Objects /\ loc' \in Objects
         /\ res' \in [Resources -> NetResources] /\ rec' \in [Records -> DNSRecords]
         /\ pc' \in Pcs /\ cur' \in Obtained

LEMMA PassEffect ==
  ASSUME WorldTypes, OwnTypes,
         \/ Start \/ GetDependencies \/ MarkFalse \/ UpdateResource
         \/ CreateResource \/ PatchResource
  PROVE  Typed /\ Effect
  <1> USE LiteralObjects DEF Typed, Pcs
  <1>t. /\ api \in Objects /\ cache \in Objects /\ loc \in Objects
        /\ res \in [Resources -> NetResources] /\ rec \in [Records -> DNSRecords]
        /\ cur \in Obtained /\ rcache \in Routers /\ scache \in IPs \cup {None}
    BY DEF OwnTypes, WorldTypes
  <1>f. /\ cur.ip \in IPs \cup {None} /\ cur.net \in Nets \cup {None}
        /\ loc.res \in Resources \cup {None}
    BY <1>t, ObjectFields, ObtainedFields
  <1>1. CASE Start
    <2>1. Begins
      BY <1>1 DEF Start, Outdated, Begins
    <2>2. Typed
      BY <1>1, <1>t DEF Start
    <2> QED
      BY <2>1, <2>2 DEF Effect
  <1>2. CASE GetDependencies
    <2>1. CASE Goto("markFalse")
      <3>1. Depends
        BY <1>2, <2>1 DEF GetDependencies, Goto, Depends
      <3>2. Typed
        BY <1>2, <1>t, <2>1 DEF GetDependencies, Goto
      <3> QED
        BY <3>1, <3>2 DEF Effect
    <2>2. CASE /\ rcache.nid # None
               /\ pc' = IF loc.res = None THEN "create" ELSE "update"
               /\ cur' = [cur EXCEPT !.ip = scache, !.net = rcache.nid,
                                     !.zone = rcache.zone]
      <3>1. /\ cur' \in Obtained /\ cur'.net = rcache.nid /\ cur'.zone = rcache.zone
        <4>1. rcache.nid \in Nets \cup {None} /\ rcache.zone \in Zones \cup {None}
          BY <1>t, RouterFields
        <4> QED
          BY <1>t, <2>2, <4>1 DEF Obtained
      <3>2. loc' = loc
        BY <1>2, <2>2 DEF GetDependencies, Goto
      <3>3. Depends
        BY <1>2, <2>2, <3>1, <3>2 DEF GetDependencies, Depends
      <3>4. Typed
        BY <1>2, <1>t, <2>2, <3>1, <3>2 DEF GetDependencies
      <3> QED
        BY <3>3, <3>4 DEF Effect
    <2> QED
      BY <1>2, <2>1, <2>2 DEF GetDependencies
  <1>3. CASE MarkFalse
    <2>1. api' \in Objects /\ Kept
      <3>1. api' = api \/ api' = [api EXCEPT !.ready = "false"]
        BY <1>3 DEF MarkFalse
      <3> QED
        BY <1>t, <3>1 DEF Objects, Kept
    <2>2. Marks
      BY <1>3, <2>1 DEF MarkFalse, EndPass, Marks, Ends
    <2>3. Typed
      BY <1>3, <1>t, <2>1 DEF MarkFalse, EndPass
    <2> QED
      BY <2>2, <2>3 DEF Effect
  <1>4. CASE UpdateResource
    <2>1. CASE pc' = "patchRes"
      <3>1. /\ res' = [res EXCEPT ![loc.res].ip = cur.ip]
            /\ cur' = [cur EXCEPT !.res = loc.res]
            /\ res[loc.res].st = "live" /\ res[loc.res].net = cur.net
        BY <1>4, <2>1 DEF UpdateResource
      <3>2. /\ res' \in [Resources -> NetResources]
            /\ \A r \in Resources : SameResource(r)
        BY <1>f, <3>1, ResourceUpdate
      <3>3. /\ cur' \in Obtained /\ cur'.net = cur.net /\ cur'.zone = cur.zone
            /\ cur'.res = loc.res
        BY <1>t, <1>f, <3>1 DEF Obtained
      <3>4. UpdatesResource
        BY <1>4, <2>1, <3>1, <3>2, <3>3 DEF UpdateResource, UpdatesResource
      <3>5. Typed
        BY <1>4, <1>t, <2>1, <3>2, <3>3 DEF UpdateResource
      <3> QED
        BY <3>4, <3>5 DEF Effect
    <2>2. CASE pc' = "create"
      <3>1. UpdatesResource
        BY <1>4, <2>2 DEF UpdateResource, UpdatesResource, SameResource
      <3>2. Typed
        BY <1>4, <1>t, <2>2 DEF UpdateResource
      <3> QED
        BY <3>1, <3>2 DEF Effect
    <2> QED
      BY <1>4, <2>1, <2>2 DEF UpdateResource
  <1>5. CASE CreateResource
    <2>1. CASE EndPass(TRUE) /\ res' = res
      <3>1. CreatesResource
        BY <1>5, <2>1 DEF CreateResource, EndPass, CreatesResource, Ends
      <3>2. Typed
        BY <1>5, <1>t, <2>1 DEF CreateResource, EndPass
      <3> QED
        BY <3>1, <3>2 DEF Effect
    <2>2. CASE \E r \in Resources :
                 /\ res[r].st = "unused"
                 /\ res' = [res EXCEPT ![r] = [st |-> "live", net |-> cur.net,
                                               ip |-> cur.ip]]
                 /\ cur' = [cur EXCEPT !.res = r]
                 /\ pc' = "patchRes" /\ loc' = loc
      <3>1. PICK r \in Resources :
                 /\ res[r].st = "unused"
                 /\ res' = [res EXCEPT ![r] = [st |-> "live", net |-> cur.net,
                                               ip |-> cur.ip]]
                 /\ cur' = [cur EXCEPT !.res = r]
                 /\ pc' = "patchRes" /\ loc' = loc
        BY <2>2
      <3>2. /\ res' \in [Resources -> NetResources]
            /\ res'[r].st = "live" /\ res'[r].net = cur.net
            /\ \A q \in Resources \ {r} : SameResource(q)
        BY <1>f, <3>1, ResourceNew
      <3>3. /\ cur' \in Obtained /\ cur'.net = cur.net /\ cur'.zone = cur.zone
            /\ cur'.res = r
        BY <1>t, <3>1 DEF Obtained
      <3>4. CreatesResource
        BY <1>5, <3>1, <3>2, <3>3 DEF CreateResource, CreatesResource
      <3>5. Typed
        BY <1>5, <1>t, <3>1, <3>2, <3>3 DEF CreateResource
      <3> QED
        BY <3>4, <3>5 DEF Effect
    <2> QED
      BY <1>5, <2>1, <2>2 DEF CreateResource
  <1>6. CASE PatchResource
    <2>1. CASE /\ loc.fin /\ cur.net = loc.nid /\ cur.res = loc.res
               /\ Goto("zone") /\ api' = api
      <3>1. PatchesResource
        BY <1>6, <2>1 DEF PatchResource, Goto, PatchesResource
      <3>2. Typed
        BY <1>6, <1>t, <2>1 DEF PatchResource, Goto
      <3> QED
        BY <3>1, <3>2 DEF Effect
    <2>2. CASE /\ api.phase # "gone"
               /\ api' = [api EXCEPT !.fin = TRUE,
                                     !.nid = IF cur.net = loc.nid THEN @ ELSE cur.net,
                                     !.res = IF cur.res = loc.res THEN @ ELSE cur.res]
               /\ Goto("zone")
      <3>1. /\ api.nid \in Nets \cup {None} /\ api.res \in Resources \cup {None}
            /\ cur.res \in Resources \cup {None}
        BY <1>t, ObjectFields, ObtainedFields
      <3>2. /\ api' \in Objects /\ api'.phase = api.phase /\ api'.fin
            /\ api'.zid = api.zid /\ api'.rec = api.rec
            /\ api'.nid = (IF cur.net = loc.nid THEN api.nid ELSE cur.net)
            /\ api'.res = (IF cur.res = loc.res THEN api.res ELSE cur.res)
        <4> DEFINE n == IF cur.net = loc.nid THEN api.nid ELSE cur.net
                   r == IF cur.res = loc.res THEN api.res ELSE cur.res
        <4>1. api' = [api EXCEPT !.fin = TRUE, !.nid = n, !.res = r]
          BY <2>2
        <4>2. n \in Nets \cup {None} /\ r \in Resources \cup {None}
          BY <1>f, <3>1
        <4> HIDE DEF n, r
        <4>3. /\ api' \in Objects /\ api'.phase = api.phase /\ api'.fin
              /\ api'.zid = api.zid /\ api'.rec = api.rec
              /\ api'.nid = n /\ api'.res = r
          BY <1>t, <4>1, <4>2 DEF Objects
        <4> QED
          BY <4>3 DEF n, r
      <3>3. PatchesResource
        BY <1>6, <2>2, <3>2 DEF PatchResource, Goto, PatchesResource
      <3>4. Typed
        BY <1>6, <1>t, <2>2, <3>2 DEF PatchResource, Goto
      <3> QED
        BY <3>3, <3>4 DEF Effect
    <2>3. CASE api.phase = "gone" /\ EndPass(TRUE) /\ api' = api
      <3>1. PatchesResource
        BY <1>6, <2>3 DEF PatchResource, EndPass, PatchesResource, Ends
      <3>2. Typed
        BY <1>6, <1>t, <2>3 DEF PatchResource, EndPass
      <3> QED
        BY <3>1, <3>2 DEF Effect
    <2> QED
      BY <1>6, <2>1, <2>2, <2>3 DEF PatchResource
  <1> QED
    BY <1>1, <1>2, <1>3, <1>4, <1>5, <1>6

LEMMA RecordEffect ==
  ASSUME WorldTypes, OwnTypes,
         \/ GetZone \/ DeleteOldRecord \/ UpdateRecord \/ CreateRecord \/ PatchReady
         \/ DeleteResource \/ DeleteRecord \/ RemoveFinalizer
  PROVE  Typed /\ Effect
  <1> USE LiteralObjects DEF Typed, Pcs
  <1>t. /\ api \in Objects /\ cache \in Objects /\ loc \in Objects
        /\ res \in [Resources -> NetResources] /\ rec \in [Records -> DNSRecords]
        /\ cur \in Obtained
    BY DEF OwnTypes
  <1>f. /\ cur.ip \in IPs \cup {None} /\ cur.zone \in Zones \cup {None}
        /\ cur.rec \in Records \cup {None}
        /\ loc.res \in Resources \cup {None} /\ loc.rec \in Records \cup {None}
    BY <1>t, ObjectFields, ObtainedFields
  <1>1. CASE GetZone
    <2>1. CASE EndPass(TRUE)
      <3>1. FindsZone
        BY <1>1, <2>1 DEF GetZone, EndPass, FindsZone, Ends
      <3>2. Typed
        BY <1>1, <1>t, <2>1 DEF GetZone, EndPass
      <3> QED
        BY <3>1, <3>2 DEF Effect
    <2>2. CASE \/ loc.zid = cur.zone /\ Goto("updateRec")
               \/ loc.zid = None /\ Goto("createRec")
               \/ Goto("dropRec")
      <3>1. FindsZone
        BY <1>1, <2>2 DEF GetZone, Goto, FindsZone
      <3>2. Typed
        BY <1>1, <1>t, <2>2 DEF GetZone, Goto
      <3> QED
        BY <3>1, <3>2 DEF Effect
    <2> QED
      BY <1>1, <2>1, <2>2 DEF GetZone
  <1>0. CASE DeleteOldRecord
    <2>1. Dropped
      BY <1>0, DropEffect DEF DeleteOldRecord
    <2>2. DropsRecord
      BY <1>0, <2>1 DEF DeleteOldRecord, Goto, DropsRecord
    <2>3. Typed
      BY <1>0, <1>t, <2>1 DEF DeleteOldRecord, Goto, Dropped
    <2> QED
      BY <2>2, <2>3 DEF Effect
  <1>2. CASE UpdateRecord
    <2>1. CASE pc' = "patchReady"
      <3>1. /\ rec' = [rec EXCEPT ![loc.rec].ip = cur.ip]
            /\ cur' = [cur EXCEPT !.rec = loc.rec]
        BY <1>2, <2>1 DEF UpdateRecord
      <3>2. /\ rec' \in [Records -> DNSRecords]
            /\ \A r \in Records : SameRecord(r)
        BY <1>f, <3>1, RecordUpdate
      <3>3. /\ cur' \in Obtained /\ cur'.zone = cur.zone /\ cur'.net = cur.net
            /\ cur'.rec = loc.rec
        BY <1>t, <1>f, <3>1 DEF Obtained
      <3>4. UpdatesRecord
        BY <1>2, <2>1, <3>2, <3>3 DEF UpdateRecord, UpdatesRecord
      <3>5. Typed
        BY <1>2, <1>t, <2>1, <3>2, <3>3 DEF UpdateRecord
      <3> QED
        BY <3>4, <3>5 DEF Effect
    <2>2. CASE pc' = "createRec"
      <3>1. UpdatesRecord
        BY <1>2, <2>2 DEF UpdateRecord, UpdatesRecord, SameRecord
      <3>2. Typed
        BY <1>2, <1>t, <2>2 DEF UpdateRecord
      <3> QED
        BY <3>1, <3>2 DEF Effect
    <2> QED
      BY <1>2, <2>1, <2>2 DEF UpdateRecord
  <1>3. CASE CreateRecord
    <2>1. PICK r \in Records :
               /\ rec[r].st = "unused"
               /\ rec' = [rec EXCEPT ![r] = [st |-> "live", zone |-> cur.zone,
                                             ip |-> cur.ip]]
               /\ cur' = [cur EXCEPT !.rec = r]
      BY <1>3 DEF CreateRecord
    <2>2. /\ rec' \in [Records -> DNSRecords]
          /\ rec'[r].st = "live" /\ rec'[r].zone = cur.zone
          /\ \A q \in Records \ {r} : SameRecord(q)
      BY <1>f, <2>1, RecordNew
    <2>3. /\ cur' \in Obtained /\ cur'.zone = cur.zone /\ cur'.net = cur.net
          /\ cur'.rec = r
      BY <1>t, <2>1 DEF Obtained
    <2>4. CreatesRecord
      BY <1>3, <2>1, <2>2, <2>3 DEF CreateRecord, CreatesRecord
    <2>5. Typed
      BY <1>3, <1>t, <2>1, <2>2, <2>3 DEF CreateRecord
    <2> QED
      BY <2>4, <2>5 DEF Effect
  <1>4. CASE PatchReady
    <2>1. CASE api.phase # "gone"
      <3>1. /\ api.zid \in Zones \cup {None} /\ api.rec \in Records \cup {None}
            /\ api.ready \in {"unknown", "false", "true"}
        BY <1>t DEF Objects
      <3> DEFINE z == IF cur.zone = loc.zid THEN api.zid ELSE cur.zone
                 r == IF cur.rec = loc.rec THEN api.rec ELSE cur.rec
                 v == IF loc.ready = "true" THEN api.ready ELSE "true"
      <3>2. api' = [api EXCEPT !.zid = z, !.rec = r, !.ready = v]
        BY <1>4, <2>1 DEF PatchReady
      <3>3. /\ z \in Zones \cup {None} /\ r \in Records \cup {None}
            /\ v \in {"unknown", "false", "true"}
        BY <1>f, <3>1
      <3> HIDE DEF z, r, v
      <3>4. /\ api' \in Objects /\ api'.phase = api.phase /\ api'.fin = api.fin
            /\ api'.nid = api.nid /\ api'.res = api.res
            /\ api'.zid = z /\ api'.rec = r
        BY <1>t, <3>2, <3>3 DEF Objects
      <3>5. PatchesReady
        BY <1>4, <2>1, <3>4 DEF PatchReady, EndPass, PatchesReady, Ends, z, r
      <3>6. Typed
        BY <1>4, <1>t, <3>4 DEF PatchReady, EndPass
      <3> QED
        BY <3>5, <3>6 DEF Effect
    <2>2. CASE api.phase = "gone"
      <3>1. PatchesReady
        BY <1>4, <2>2 DEF PatchReady, EndPass, PatchesReady, Ends
      <3>2. Typed
        BY <1>4, <1>t, <2>2 DEF PatchReady, EndPass
      <3> QED
        BY <3>1, <3>2 DEF Effect
    <2> QED
      BY <2>1, <2>2
  <1>5. CASE DeleteResource
    <2>1. CASE loc.res # None /\ res[loc.res].st = "live" /\ res[loc.res].net = loc.nid
      <3>1. res' = [res EXCEPT ![loc.res].st = "deleted"]
        BY <1>5, <2>1 DEF DeleteResource
      <3>2. /\ res' \in [Resources -> NetResources]
            /\ ResourcesAge /\ res'[loc.res].st # "live"
        BY <1>f, <2>1, <3>1, ResourceEnd
      <3>3. DeletesResource
        BY <1>5, <3>2 DEF DeleteResource, Goto, DeletesResource
      <3>4. Typed
        BY <1>5, <1>t, <3>2 DEF DeleteResource, Goto
      <3> QED
        BY <3>3, <3>4 DEF Effect
    <2>2. CASE ~(loc.res # None /\ res[loc.res].st = "live" /\ res[loc.res].net = loc.nid)
      <3>1. res' = res
        BY <1>5, <2>2 DEF DeleteResource
      <3>2. DeletesResource
        BY <1>5, <2>2, <3>1 DEF DeleteResource, Goto, DeletesResource, ResourcesAge, Aged
      <3>3. Typed
        BY <1>5, <1>t, <3>1 DEF DeleteResource, Goto
      <3> QED
        BY <3>2, <3>3 DEF Effect
    <2> QED
      BY <2>1, <2>2
  <1>6. CASE DeleteRecord
    <2>1. Dropped
      BY <1>6, DropEffect DEF DeleteRecord
    <2>2. DeletesRecord
      BY <1>6, <2>1 DEF DeleteRecord, Goto, DeletesRecord
    <2>3. Typed
      BY <1>6, <1>t, <2>1 DEF DeleteRecord, Goto, Dropped
    <2> QED
      BY <2>2, <2>3 DEF Effect
  <1>7. CASE RemoveFinalizer
    <2>1. Removes
      BY <1>7 DEF RemoveFinalizer, EndPass, Removes, Ends
    <2>2. Typed
      BY <1>7, <1>t DEF RemoveFinalizer, EndPass
    <2> QED
      BY <2>1, <2>2 DEF Effect
  <1> QED
    BY <1>0, <1>1, <1>2, <1>3, <1>4, <1>5, <1>6, <1>7

(* The steps of others, and the passes that end early.                     *)
LEMMA OutsideEffect ==
  ASSUME WorldTypes, OwnTypes,
         \/ Abort \/ CacheSync \/ UserDelete \/ Outside
         \/ \E r \in Records : AdminRemovesRecord(r)
         \/ UNCHANGED vars
  PROVE  Typed /\ Effect
  <1> USE LiteralObjects DEF Typed, Pcs
  <1>t. /\ api \in Objects /\ cache \in Objects /\ loc \in Objects
        /\ res \in [Resources -> NetResources] /\ rec \in [Records -> DNSRecords]
        /\ cur \in Obtained /\ pc \in Pcs
    BY DEF OwnTypes
  <1>1. CASE Abort
    <2>1. Aborts
      BY <1>1 DEF Abort, EndPass, Aborts, Ends
    <2>2. Typed
      BY <1>1, <1>t DEF Abort, EndPass
    <2> QED
      BY <2>1, <2>2 DEF Effect
  <1>2. CASE CacheSync
    <2>1. Syncs
      BY <1>2 DEF CacheSync, Syncs
    <2>2. Typed
      BY <1>2, <1>t DEF CacheSync
    <2> QED
      BY <2>1, <2>2 DEF Effect
  <1>3. CASE UserDelete
    <2>1. CASE api.fin
      <3>1. api' = [api EXCEPT !.phase = "deleting"]
        BY <1>3, <2>1 DEF UserDelete
      <3>2. /\ api' \in Objects /\ api'.phase = "deleting" /\ api'.fin = api.fin
            /\ api'.nid = api.nid /\ api'.res = api.res
            /\ api'.zid = api.zid /\ api'.rec = api.rec
        BY <1>t, <3>1 DEF Objects
      <3>3. IsDeleted
        BY <1>3, <2>1, <3>2 DEF UserDelete, IsDeleted
      <3>4. Typed
        BY <1>3, <1>t, <3>2 DEF UserDelete
      <3> QED
        BY <3>3, <3>4 DEF Effect
    <2>2. CASE ~api.fin
      <3>1. IsDeleted
        BY <1>3, <2>2 DEF UserDelete, IsDeleted
      <3>2. Typed
        BY <1>3, <1>t, <2>2 DEF UserDelete
      <3> QED
        BY <3>1, <3>2 DEF Effect
    <2> QED
      BY <2>1, <2>2
  <1>4. CASE \E r \in Records : AdminRemovesRecord(r)
    <2>1. PICK r \in Records : AdminRemovesRecord(r)
      BY <1>4
    <2>2. rec' \in [Records -> DNSRecords] /\ RecordsAge
      BY <2>1, RecordEnd DEF AdminRemovesRecord
    <2>3. Elsewhere
      BY <2>1, <2>2 DEF AdminRemovesRecord, Elsewhere, ResourcesAge, Aged
    <2>4. Typed
      BY <1>t, <2>1, <2>2 DEF AdminRemovesRecord
    <2> QED
      BY <2>3, <2>4 DEF Effect
  <1>5. CASE RouterChange
    <2>1. UNCHANGED <<api, cache, rec, pc, loc, cur>>
      BY <1>5 DEF RouterChange
    <2>2. res' \in [Resources -> NetResources] /\ ResourcesAge
      <3>1. CASE res' = res
        BY <1>t, <3>1 DEF ResourcesAge, Aged
      <3>2. CASE \E n \in Nets :
                   res' = [r \in Resources |->
                             IF res[r].st = "live" /\ res[r].net = n
                               THEN [res[r] EXCEPT !.st = "lost"] ELSE res[r]]
        BY <3>2, ResourcesLost
      <3> QED
        BY <1>5, <3>1, <3>2 DEF RouterChange
    <2>3. Elsewhere
      BY <2>1, <2>2 DEF Elsewhere, RecordsAge, Aged
    <2>4. Typed
      BY <1>t, <2>1, <2>2
    <2> QED
      BY <2>3, <2>4 DEF Effect
  <1>6. CASE UNCHANGED <<api, cache, res, rec, pc, loc, cur>>
    <2>1. Elsewhere
      BY <1>6 DEF Elsewhere, ResourcesAge, RecordsAge, Aged
    <2>2. Typed
      BY <1>t, <1>6
    <2> QED
      BY <2>1, <2>2 DEF Effect
  <1>7. CASE \/ RouterSync \/ ServiceSync \/ UNCHANGED vars
             \/ \E ip \in IPs \cup {None} : UserChangesService(ip)
             \/ \E z \in Zones : UserChangesZone(z)
    BY <1>6, <1>7 DEF RouterSync, ServiceSync, UserChangesService, UserChangesZone,
       ownvars, vars
  <1> QED
    BY <1>1, <1>2, <1>3, <1>4, <1>5, <1>7 DEF Outside

LEMMA StepEffect ==
  ASSUME WorldTypes, OwnTypes, [Next]_vars PROVE Typed /\ Effect
  BY PassEffect, RecordEffect, OutsideEffect DEF Next, Step, Outside

LEMMA StepDue ==
  ASSUME OwnTypes, [Next]_vars PROVE due' \in BOOLEAN
  <1> USE DEF OwnTypes, EndPass, Goto
  <1>1. CASE Step
    BY <1>1 DEF Step, Start, GetDependencies, MarkFalse, UpdateResource,
       CreateResource, PatchResource, GetZone, DeleteOldRecord, UpdateRecord, CreateRecord,
       PatchReady, DeleteResource, DeleteRecord, RemoveFinalizer
  <1>2. CASE Abort \/ CacheSync \/ RouterSync \/ ServiceSync \/ RouterChange \/ UserDelete
    BY <1>2 DEF Abort, CacheSync, RouterSync, ServiceSync, RouterChange, UserDelete
  <1>3. CASE \/ \E ip \in IPs \cup {None} : UserChangesService(ip)
             \/ \E z \in Zones : UserChangesZone(z)
             \/ \E r \in Records : AdminRemovesRecord(r)
             \/ UNCHANGED vars
    BY <1>3 DEF UserChangesService, UserChangesZone, AdminRemovesRecord, ownvars, vars
  <1> QED
    BY <1>1, <1>2, <1>3 DEF Next

LEMMA StepType == TypeOK /\ [Next]_vars => TypeOK'
  <1> SUFFICES ASSUME TypeOK, [Next]_vars PROVE TypeOK'
    OBVIOUS
  <1>1. WorldTypes /\ OwnTypes /\ Counts
    BY TypeParts
  <1>2. WorldTypes' /\ Typed /\ Counts' /\ due' \in BOOLEAN
    BY <1>1, StepWorldTypes, StepEffect, StepCounts, StepDue
  <1>3. OwnTypes'
    BY <1>2 DEF OwnTypes, Typed
  <1> QED
    BY <1>2, <1>3 DEF TypeOK, WorldTypes, OwnTypes, Counts, Pcs, Obtained, Routers,
       NetResources, DNSRecords

LEMMA InitType == Init => TypeOK
  <1> SUFFICES ASSUME Init PROVE WorldTypes /\ OwnTypes /\ Counts
    BY TypeParts
  <1>1. /\ net \in [Nets -> {"unused", "live", "dead"}] /\ rnid = None
        /\ rphase = "live" /\ served = FALSE /\ left = {}
    BY DEF Init, Router!HandleInit
  <1>2. zone \in Zones /\ svc \in IPs \cup {None} /\ scache = svc
    BY DEF Init
  <1>3. rcache \in Routers
    BY <1>1, <1>2 DEF Init, RouterNow, Routers
  <1>4. WorldTypes
    BY <1>1, <1>2, <1>3 DEF WorldTypes
  <1>5. res \in [Resources -> NetResources]
    BY DEF Init, NetResources, UpStates
  <1>6. rec \in [Records -> DNSRecords]
    BY DEF Init, DNSRecords, UpStates
  <1>7. OwnTypes
    BY <1>5, <1>6, LiteralObjects DEF Init, OwnTypes, Pcs
  <1>8. Counts
    BY DEF Init, Counts
  <1> QED
    BY <1>4, <1>7, <1>8

(* Type correctness: every value the controller and its environment keep,  *)
(* and that the bounds hold.                                               *)
THEOREM TypeCorrect == Spec => []TypeOK
  BY InitType, StepType, PTL DEF Spec

-----------------------------------------------------------------------------
(* Every step keeps the invariant.                                         *)

LEMMA Fields ==
  ASSUME OwnTypes
  PROVE  /\ api.phase \in {"live", "deleting", "gone"} /\ api.fin \in BOOLEAN
         /\ cache.fin \in BOOLEAN /\ loc.fin \in BOOLEAN
         /\ api.nid \in Nets \cup {None} /\ api.res \in Resources \cup {None}
         /\ api.zid \in Zones \cup {None} /\ api.rec \in Records \cup {None}
         /\ cache.nid \in Nets \cup {None} /\ cache.res \in Resources \cup {None}
         /\ cache.zid \in Zones \cup {None} /\ cache.rec \in Records \cup {None}
         /\ loc.nid \in Nets \cup {None} /\ loc.res \in Resources \cup {None}
         /\ loc.zid \in Zones \cup {None} /\ loc.rec \in Records \cup {None}
         /\ cur.net \in Nets \cup {None} /\ cur.res \in Resources \cup {None}
         /\ cur.zone \in Zones \cup {None} /\ cur.rec \in Records \cup {None}
  <1>1. /\ api \in Objects /\ cache \in Objects /\ loc \in Objects
        /\ cur \in Obtained
    BY DEF OwnTypes
  <1> QED
    BY <1>1, ObjectFields, ObtainedFields

LEMMA StepPhases ==
  ASSUME OwnTypes, Phases, Effect PROVE Phases'
  <1> USE AbsentFields, Fields DEF Phases, Teardown, RecordCalls, Ends, Kept
  <1>1. CASE Begins
    BY <1>1 DEF Begins
  <1>2. CASE Depends \/ Marks
    BY <1>2 DEF Depends, Marks
  <1>3. CASE UpdatesResource \/ CreatesResource
    BY <1>3 DEF UpdatesResource, CreatesResource
  <1>4. CASE PatchesResource
    BY <1>4 DEF PatchesResource
  <1>5. CASE FindsZone \/ DropsRecord \/ UpdatesRecord \/ CreatesRecord
    BY <1>5 DEF FindsZone, DropsRecord, UpdatesRecord, CreatesRecord, Ends
  <1>6. CASE PatchesReady
    BY <1>6 DEF PatchesReady
  <1>7. CASE DeletesResource \/ DeletesRecord
    BY <1>7 DEF DeletesResource, DeletesRecord
  <1>8. CASE Removes \/ Aborts
    BY <1>8 DEF Removes, Aborts
  <1>9. CASE Syncs
    BY <1>9 DEF Syncs
  <1>10. CASE IsDeleted
    BY <1>10 DEF IsDeleted
  <1>11. CASE Elsewhere
    BY <1>11 DEF Elsewhere
  <1> QED
    BY <1>1, <1>2, <1>3, <1>4, <1>5, <1>6, <1>7, <1>8, <1>9, <1>10, <1>11 DEF Effect

(* What was created stays created, in the network it was created in, and   *)
(* what is gone stays gone.                                                *)
ResourcesGoOn ==
    \A r \in Resources : res[r].st # "unused" =>
        /\ res'[r].st # "unused" /\ res'[r].net = res[r].net
        /\ res[r].st # "live" => res'[r].st # "live"
RecordsGoOn ==
    \A r \in Records : rec[r].st # "unused" =>
        /\ rec'[r].st # "unused" /\ rec'[r].zone = rec[r].zone
        /\ rec[r].st # "live" => rec'[r].st # "live"

LEMMA GoOn ==
  ASSUME OwnTypes, Effect PROVE ResourcesGoOn /\ RecordsGoOn
  <1> USE DEF ResourcesGoOn, RecordsGoOn
  <1>1. ResourcesAge \/ res' = res \/ (\A r \in Resources : SameResource(r))
        => ResourcesGoOn
    BY DEF ResourcesAge, Aged, SameResource
  <1>2. CreatesResource => ResourcesGoOn
    BY DEF CreatesResource, SameResource, Ends
  <1>3. RecordsAge \/ rec' = rec \/ (\A r \in Records : SameRecord(r))
        => RecordsGoOn
    BY DEF RecordsAge, Aged, SameRecord
  <1>4. CreatesRecord => RecordsGoOn
    BY DEF CreatesRecord, SameRecord
  <1>5. \/ ResourcesAge \/ res' = res \/ (\A r \in Resources : SameResource(r))
        \/ CreatesResource
    BY DEF Effect, Begins, Depends, Marks, UpdatesResource, PatchesResource, FindsZone, DropsRecord,
       UpdatesRecord, CreatesRecord, PatchesReady, DeletesResource, DeletesRecord,
       Removes, Aborts, Syncs, IsDeleted, Elsewhere
  <1>6. \/ RecordsAge \/ rec' = rec \/ (\A r \in Records : SameRecord(r))
        \/ CreatesRecord
    BY DEF Effect, Begins, Depends, Marks, UpdatesResource, CreatesResource,
       PatchesResource, FindsZone, DropsRecord, UpdatesRecord, PatchesReady, DeletesResource,
       DeletesRecord, Removes, Aborts, Syncs, IsDeleted, Elsewhere, Dropped
  <1> QED
    BY <1>1, <1>2, <1>3, <1>4, <1>5, <1>6

LEMMA StepResourceIds ==
  ASSUME OwnTypes, Phases, NetForward, ResourceIds, Effect PROVE ResourceIds'
  <1> USE AbsentFields, Fields DEF ResourceIds, NamesResource
  <1>g. ResourcesGoOn
    BY GoOn
  <1>1. CASE Begins
    BY <1>1, <1>g DEF Begins, ResourcesGoOn, Phases
  <1>2. CASE Depends \/ Marks
    BY <1>2, <1>g DEF Depends, Marks, ResourcesGoOn, Ends, Kept
  <1>3. CASE UpdatesResource
    BY <1>3, <1>g DEF UpdatesResource, ResourcesGoOn, SameResource
  <1>4. CASE CreatesResource
    BY <1>4, <1>g DEF CreatesResource, ResourcesGoOn, Ends
  <1>5. CASE PatchesResource
    <2>1. CASE api' = api
      BY <1>5, <1>g, <2>1 DEF PatchesResource, ResourcesGoOn, Ends
    <2>2. CASE cur.res = loc.res /\ api.phase # "gone" /\ api' # api
      <3>1. cur.net = loc.nid
        BY <1>5, <2>2 DEF PatchesResource
      <3> QED
        BY <1>5, <1>g, <2>2, <3>1 DEF PatchesResource, ResourcesGoOn, Ends
    <2>3. CASE cur.res # loc.res /\ api.phase # "gone" /\ api' # api
      <3>1. cur.net = loc.nid => api.nid = cur.net
        <4>1. CASE cur.net = loc.nid
          <5>1. /\ cur.net # None /\ api.nid # None
                /\ loc.nid <= api.nid /\ api.nid <= cur.net
            BY <1>5, <2>3, <4>1 DEF PatchesResource, NetForward, NotAhead
          <5>2. cur.net \in Nat /\ api.nid \in Nat
            BY <5>1
          <5> QED
            BY <4>1, <5>1, <5>2
        <4> QED
          BY <4>1
      <3>2. api'.nid = cur.net /\ api'.res = cur.res /\ api'.fin
        BY <1>5, <2>3, <3>1 DEF PatchesResource
      <3> QED
        BY <1>5, <1>g, <2>3, <3>2 DEF PatchesResource, ResourcesGoOn, Ends
    <2> QED
      BY <1>5, <2>1, <2>2, <2>3 DEF PatchesResource
  <1>6. CASE FindsZone \/ DropsRecord \/ UpdatesRecord \/ CreatesRecord
    BY <1>6, <1>g DEF FindsZone, DropsRecord, UpdatesRecord, CreatesRecord, Ends, ResourcesGoOn
  <1>7. CASE PatchesReady
    BY <1>7, <1>g DEF PatchesReady, ResourcesGoOn, Ends
  <1>8. CASE DeletesResource \/ DeletesRecord
    BY <1>8, <1>g DEF DeletesResource, DeletesRecord, ResourcesGoOn
  <1>9. CASE Removes \/ Aborts
    BY <1>9, <1>g DEF Removes, Aborts, ResourcesGoOn, Ends
  <1>10. CASE Syncs
    BY <1>10, <1>g DEF Syncs, ResourcesGoOn
  <1>11. CASE IsDeleted
    BY <1>11, <1>g DEF IsDeleted, ResourcesGoOn
  <1>12. CASE Elsewhere
    BY <1>12, <1>g DEF Elsewhere, ResourcesGoOn
  <1> QED
    BY <1>1, <1>2, <1>3, <1>4, <1>5, <1>6, <1>7, <1>8, <1>9, <1>10, <1>11,
       <1>12 DEF Effect

LEMMA StepRecordIds ==
  ASSUME OwnTypes, WorldTypes, Phases, RecordIds, Effect PROVE RecordIds'
  <1> USE AbsentFields, Fields DEF RecordIds, NamesRecord, RecordCalls
  <1>g. RecordsGoOn
    BY GoOn
  <1>1. CASE Begins
    BY <1>1, <1>g DEF Begins, RecordsGoOn, Phases
  <1>2. CASE Depends \/ Marks
    <2>1. rcache.zone # None
      BY RouterFields DEF WorldTypes
    <2> QED
      BY <1>2, <1>g, <2>1 DEF Depends, Marks, RecordsGoOn, Ends, Kept
  <1>3. CASE UpdatesResource
    BY <1>3, <1>g DEF UpdatesResource, RecordsGoOn
  <1>4. CASE CreatesResource
    BY <1>4, <1>g DEF CreatesResource, RecordsGoOn, Ends
  <1>5. CASE PatchesResource
    BY <1>5, <1>g DEF PatchesResource, RecordsGoOn, Ends
  <1>6. CASE FindsZone \/ DropsRecord
    BY <1>6, <1>g DEF FindsZone, DropsRecord, RecordsGoOn, Dropped, Ends
  <1>7. CASE UpdatesRecord
    BY <1>7, <1>g DEF UpdatesRecord, RecordsGoOn, SameRecord
  <1>8. CASE CreatesRecord
    BY <1>8, <1>g DEF CreatesRecord, RecordsGoOn
  <1>9. CASE PatchesReady
    BY <1>9, <1>g DEF PatchesReady, RecordsGoOn, Ends, Phases
  <1>10. CASE DeletesResource \/ DeletesRecord
    BY <1>10, <1>g DEF DeletesResource, DeletesRecord, RecordsGoOn, Dropped
  <1>11. CASE Removes \/ Aborts
    BY <1>11, <1>g DEF Removes, Aborts, RecordsGoOn, Ends
  <1>12. CASE Syncs
    BY <1>12, <1>g DEF Syncs, RecordsGoOn
  <1>13. CASE IsDeleted
    BY <1>13, <1>g DEF IsDeleted, RecordsGoOn
  <1>14. CASE Elsewhere
    BY <1>14, <1>g DEF Elsewhere, RecordsGoOn
  <1> QED
    BY <1>1, <1>2, <1>3, <1>4, <1>5, <1>6, <1>7, <1>8, <1>9, <1>10, <1>11,
       <1>12, <1>13, <1>14 DEF Effect

(* What the steps do to the router, and what its informer shows of it.     *)
RouterStays == UNCHANGED <<rnid, rphase, rcache, left>>
RouterSeen == rcache'.nid = rnid /\ UNCHANGED <<rnid, rphase, left>>
RouterMoves == /\ UNCHANGED <<rphase, rcache>> /\ rphase # "gone"
               /\ rnid' \in Nets /\ (rnid # None => rnid < rnid')
               /\ left' = left \cup ({rnid} \ {None})
RouterCloses == rphase = "live" /\ rphase' = "deleting" /\ UNCHANGED <<rnid, rcache, left>>
RouterGoes == rphase' = "gone" /\ rnid' = None /\ UNCHANGED <<rcache, left>>

LEMMA RouterEffect ==
  ASSUME WorldTypes, OwnTypes, [Next]_vars
  PROVE  \/ RouterStays
         \/ /\ RouterSeen \/ RouterMoves \/ RouterCloses \/ RouterGoes
            /\ UNCHANGED <<api, cache, pc, loc, cur>>
            /\ \A r \in Resources : res'[r].net = res[r].net
  <1>1. CASE RouterSync
    BY <1>1 DEF RouterSync, RouterNow, RouterSeen
  <1>2. CASE RouterChange
    <2>1. UNCHANGED <<rcache, api, cache, pc, loc, cur>>
      BY <1>2 DEF RouterChange
    <2>2. \A r \in Resources : res'[r].net = res[r].net
      <3>1. CASE \E n \in Nets :
                   res' = [r \in Resources |->
                             IF res[r].st = "live" /\ res[r].net = n
                               THEN [res[r] EXCEPT !.st = "lost"] ELSE res[r]]
        BY <3>1, ResourcesLost DEF ResourcesAge
      <3>2. CASE res' = res
        BY <3>2
      <3> QED
        BY <1>2, <3>1, <3>2 DEF RouterChange
    <2>3. RouterStays \/ RouterMoves \/ RouterCloses \/ RouterGoes
      <3>1. CASE \E n \in Nets : (Router!Appear(n) \/ Router!Disappear(n)) /\ UNCHANGED left
        BY <2>1, <3>1 DEF Router!Appear, Router!Disappear, RouterStays
      <3>2. CASE \E n \in Nets : /\ Router!Publish(n)
                                 /\ left' = left \cup ({rnid} \ {None})
        BY <2>1, <3>2 DEF Router!Publish, RouterMoves
      <3>3. CASE Router!Close /\ UNCHANGED left
        BY <2>1, <3>3 DEF Router!Close, RouterCloses
      <3>4. CASE Router!Withdraw /\ UNCHANGED left
        BY <2>1, <3>4 DEF Router!Withdraw, RouterGoes
      <3>5. CASE UNCHANGED <<rnid, rphase, left>>
        BY <2>1, <3>5 DEF RouterStays
      <3> QED
        BY <1>2, <3>1, <3>2, <3>3, <3>4, <3>5 DEF RouterChange
    <2> QED
      BY <2>1, <2>2, <2>3
  <1>3. CASE \E z \in Zones : UserChangesZone(z)
    BY <1>3 DEF UserChangesZone, RouterStays
  <1>4. CASE ServiceSync \/ \E ip \in IPs \cup {None} : UserChangesService(ip)
    BY <1>4 DEF ServiceSync, UserChangesService, rtvars, RouterStays
  <1>5. UNCHANGED rtvars => RouterStays
    BY DEF rtvars, RouterStays
  <1>6. Outside \/ UNCHANGED rtvars
    BY DEF Next, Step, Start, GetDependencies, MarkFalse, UpdateResource, CreateResource,
       PatchResource, GetZone, DeleteOldRecord, UpdateRecord, CreateRecord, PatchReady,
       DeleteResource, DeleteRecord, RemoveFinalizer, Abort, CacheSync, UserDelete,
       AdminRemovesRecord, Outside, vars
  <1> QED
    BY <1>1, <1>2, <1>3, <1>4, <1>5, <1>6 DEF Outside

(* A controller step makes no network known that was not.                  *)
LEMMA StepKnown ==
  ASSUME WorldTypes, OwnTypes, ResourceIds, RouterStays, Effect
  PROVE  Known' \subseteq Known
  <1> USE AbsentFields, Fields DEF RouterStays
  <1>1. /\ cur'.net \in Known \cup {None} /\ api'.nid \in Known \cup {None}
        /\ cache'.nid \in Known \cup {None} /\ loc'.nid \in Known \cup {None}
    <2> USE DEF Known
    <2>0. rcache.nid \in Nets \cup {None}
      BY RouterFields DEF WorldTypes
    <2>1. CASE Begins \/ Depends \/ Marks
      BY <2>0, <2>1 DEF Begins, Depends, Marks, Ends, Kept
    <2>2. CASE UpdatesResource \/ CreatesResource
      BY <2>2 DEF UpdatesResource, CreatesResource, Ends
    <2>3. CASE PatchesResource
      BY <2>3 DEF PatchesResource, Ends
    <2>4. CASE FindsZone \/ DropsRecord \/ UpdatesRecord \/ CreatesRecord
      BY <2>4 DEF FindsZone, DropsRecord, UpdatesRecord, CreatesRecord, Ends
    <2>5. CASE PatchesReady \/ Removes \/ Aborts
      BY <2>5 DEF PatchesReady, Removes, Aborts, Ends
    <2>6. CASE DeletesResource \/ DeletesRecord \/ Syncs \/ Elsewhere
      BY <2>6 DEF DeletesResource, DeletesRecord, Syncs, Elsewhere
    <2>7. CASE IsDeleted
      BY <2>7 DEF IsDeleted
    <2> QED
      BY <2>1, <2>2, <2>3, <2>4, <2>5, <2>6, <2>7 DEF Effect
  <1>2. ASSUME NEW r \in Resources PROVE res'[r].net \in {res[r].net, cur.net}
    <2>1. CASE ResourcesAge \/ res' = res \/ (\A q \in Resources : SameResource(q))
      BY <2>1 DEF ResourcesAge, SameResource
    <2>2. CASE CreatesResource
      BY <2>2 DEF CreatesResource, SameResource
    <2> QED
      BY <2>1, <2>2 DEF Effect, Begins, Depends, Marks, UpdatesResource, PatchesResource,
         FindsZone, DropsRecord, UpdatesRecord, CreatesRecord, PatchesReady, DeletesResource,
         DeletesRecord, Removes, Aborts, Syncs, IsDeleted, Elsewhere
  <1> QED
    BY <1>1, <1>2 DEF Known

LEMMA StepNetForward ==
  ASSUME WorldTypes, OwnTypes, NetOrder, Phases, ResourceIds, NetForward, [Next]_vars
  PROVE  NetForward'
  <1>e. Effect
    BY StepEffect
  <1>n. /\ cur.net # None => cur.net \in Nat /\ cur.net \in Known
        /\ api.nid # None => api.nid \in Nat /\ api.nid \in Known
        /\ cache.nid # None => cache.nid \in Nat /\ cache.nid \in Known
        /\ loc.nid # None => loc.nid \in Nat /\ loc.nid \in Known
        /\ rcache.nid # None => rcache.nid \in Nat
    <2>1. rcache.nid \in Nets \cup {None}
      BY RouterFields DEF WorldTypes
    <2> QED
      BY <2>1, Fields DEF Known
  <1>1. CASE RouterStays
    <2> USE <1>1, <1>n, AbsentFields, Fields DEF NetForward, NotAhead, RouterStays, Phases
    <2>1. CASE Begins
      BY <2>1 DEF Begins
    <2>2. CASE Depends
      BY <2>2 DEF Depends
    <2>3. CASE Marks
      BY <2>3 DEF Marks, Ends, Kept
    <2>4. CASE UpdatesResource \/ CreatesResource
      BY <2>4 DEF UpdatesResource, CreatesResource, Ends
    <2>5. CASE PatchesResource
      <3>1. CASE api' = api
        BY <2>5, <3>1 DEF PatchesResource, Ends
      <3>2. CASE api.phase # "gone" /\ api' # api
        <4>1. /\ UNCHANGED <<cache, loc, cur>> /\ api'.phase = api.phase
              /\ api'.nid = (IF cur.net = loc.nid THEN api.nid ELSE cur.net)
              /\ cur.net # None
          BY <2>5, <3>2 DEF PatchesResource, ResourceIds
        <4> QED
          BY <3>2, <4>1
      <3> QED
        BY <2>5, <3>1, <3>2 DEF PatchesResource
    <2>6. CASE FindsZone \/ DropsRecord \/ UpdatesRecord \/ CreatesRecord
      BY <2>6 DEF FindsZone, DropsRecord, UpdatesRecord, CreatesRecord, Ends
    <2>7. CASE PatchesReady
      BY <2>7 DEF PatchesReady, Ends
    <2>8. CASE Removes \/ Aborts
      BY <2>8 DEF Removes, Aborts, Ends
    <2>9. CASE DeletesResource \/ DeletesRecord \/ Syncs \/ Elsewhere
      BY <2>9 DEF DeletesResource, DeletesRecord, Syncs, Elsewhere
    <2>10. CASE IsDeleted
      BY <2>10 DEF IsDeleted
    <2> QED
      BY <1>e, <2>1, <2>2, <2>3, <2>4, <2>5, <2>6, <2>7, <2>8, <2>9, <2>10 DEF Effect
  <1>2. CASE RouterSeen /\ UNCHANGED <<api, cache, pc, loc, cur>>
    BY <1>2, <1>n DEF RouterSeen, NetOrder, NetForward, NotAhead
  <1>3. CASE /\ RouterMoves \/ RouterCloses \/ RouterGoes
             /\ UNCHANGED <<api, cache, pc, loc, cur>>
    BY <1>3 DEF RouterMoves, RouterCloses, RouterGoes, NetForward, NotAhead
  <1> QED
    BY <1>1, <1>2, <1>3, RouterEffect

LEMMA StepNetOrder ==
  ASSUME WorldTypes, OwnTypes, ResourceIds, NetOrder, [Next]_vars PROVE NetOrder'
  <1>e. Effect
    BY StepEffect
  <1>n. rnid \in Nets \cup {None} /\ rcache.nid \in Nets \cup {None} /\ left \subseteq Nets
    BY RouterFields DEF WorldTypes
  <1>1. CASE RouterStays
    <2>1. Known' \subseteq Known
      BY <1>1, <1>e, StepKnown
    <2> QED
      BY <1>1, <2>1 DEF RouterStays, NetOrder
  <1>2. CASE /\ RouterSeen \/ RouterCloses \/ RouterGoes
             /\ UNCHANGED <<api, cache, pc, loc, cur>>
             /\ \A r \in Resources : res'[r].net = res[r].net
    <2>1. Known' \subseteq Known
      BY <1>n, <1>2 DEF Known, RouterSeen, RouterCloses, RouterGoes
    <2>2. CASE RouterSeen \/ RouterGoes
      BY <2>1, <2>2 DEF RouterSeen, RouterGoes, NetOrder
    <2>3. CASE RouterCloses
      BY <2>1, <2>3 DEF RouterCloses, NetOrder
    <2> QED
      BY <1>2, <2>2, <2>3
  <1>3. CASE /\ RouterMoves /\ UNCHANGED <<api, cache, pc, loc, cur>>
             /\ \A r \in Resources : res'[r].net = res[r].net
    <2>1. Known' \subseteq Known \cup {rnid'}
      BY <1>3 DEF Known, RouterMoves
    <2>2. \A n \in Known : n \in Nat /\ n < rnid' /\ n \in left'
      <3>1. SUFFICES ASSUME NEW n \in Known PROVE n \in Nat /\ n < rnid' /\ n \in left'
        OBVIOUS
      <3>2. n \in Nat /\ rnid' \in Nat
        BY <1>3 DEF Known, RouterMoves
      <3>3. rnid # None /\ n <= rnid /\ rnid \in Nat /\ rnid < rnid'
        BY <1>n, <1>3 DEF NetOrder, RouterMoves
      <3>4. n < rnid \/ n = rnid
        BY <3>2, <3>3
      <3>5. n \in left'
        <4>1. rnid \in Known
          BY <1>n, <3>3 DEF Known
        <4> QED
          BY <1>3, <3>3, <3>4, <4>1 DEF NetOrder, RouterMoves
      <3> QED
        BY <3>2, <3>3, <3>5
    <2>3. rnid' \in Nat /\ rnid' # None /\ rphase' # "gone"
      BY <1>3 DEF RouterMoves
    <2> QED
      BY <2>1, <2>2, <2>3 DEF NetOrder
  <1> QED
    BY <1>1, <1>2, <1>3, RouterEffect

LEMMA InitInv == Init => Inv
  <1> SUFFICES ASSUME Init PROVE Inv
    OBVIOUS
  <1>1. TypeOK
    BY InitType
  <1>2. /\ api = Created /\ cache = Absent /\ loc = Absent /\ cur = Nothing
        /\ pc = "idle" /\ rnid = None /\ rphase = "live" /\ rcache.nid = None
        /\ \A r \in Resources : res[r].net = None
    BY DEF Init, RouterNow, Router!HandleInit
  <1>3. /\ Created.phase = "live" /\ ~Created.fin /\ Created.nid = None
        /\ Created.res = None /\ Created.zid = None /\ Created.rec = None
    BY DEF Created
  <1>4. NetOrder
    <2>1. Known = {}
      BY <1>2, <1>3, AbsentFields DEF Known
    <2> QED
      BY <1>2, <2>1 DEF NetOrder
  <1>5. NetForward
    BY <1>2, <1>3, AbsentFields DEF NetForward, NotAhead
  <1>6. Phases
    BY <1>2, <1>3, AbsentFields DEF Phases, Teardown, RecordCalls
  <1>7. ResourceIds
    BY <1>2, <1>3, AbsentFields DEF ResourceIds, NamesResource
  <1>8. RecordIds
    BY <1>2, <1>3, AbsentFields DEF RecordIds, NamesRecord, RecordCalls
  <1> QED
    BY <1>1, <1>4, <1>5, <1>6, <1>7, <1>8 DEF Inv

LEMMA StepInv == Inv /\ [Next]_vars => Inv'
  <1> SUFFICES ASSUME Inv, [Next]_vars PROVE Inv'
    OBVIOUS
  <1>1. WorldTypes /\ OwnTypes
    BY TypeParts DEF Inv
  <1>2. Effect
    BY <1>1, StepEffect
  <1>3. TypeOK'
    BY StepType DEF Inv
  <1>4. NetOrder' /\ NetForward'
    BY <1>1, StepNetOrder, StepNetForward DEF Inv
  <1>5. Phases' /\ ResourceIds' /\ RecordIds'
    BY <1>1, <1>2, StepPhases, StepResourceIds, StepRecordIds DEF Inv
  <1> QED
    BY <1>3, <1>4, <1>5 DEF Inv

(* Inv holds in every reachable state, whatever the router does.           *)
THEOREM Invariance == Spec => []Inv
  BY InitInv, StepInv, PTL DEF Spec

-----------------------------------------------------------------------------
(* What is left behind.                                                    *)

(* A step dooms no resource unless it is a lapse, which dooms one, or the  *)
(* patch that finds the object gone: it loses the resource it has created  *)
(* instead of the one it might have created.                               *)
LEMMA StepResourceDoomed ==
  ASSUME Inv, WorldTypes, OwnTypes, Effect, left \subseteq left'
  PROVE  \/ ResourceDoomed' \subseteq ResourceDoomed
         \/ /\ lapses' = lapses + 1
            /\ \E x : ResourceDoomed' \subseteq ResourceDoomed \cup {x}
         \/ \E a \in ResourceDoomed :
              \E x : ResourceDoomed' \subseteq (ResourceDoomed \ {a}) \cup {x}
  <1> USE AbsentFields, Fields DEF ResourceCalls, Teardown
  <1>i. Phases /\ ResourceIds
    BY DEF Inv
  <1>1. CASE Begins
    <2>1. CASE lapses' = lapses + 1
      <3>1. ResourceDoomed' \subseteq
              ResourceDoomed \cup {IF api.phase = "gone" THEN None ELSE api.res}
        BY <1>1, <1>i DEF Begins, ResourceDoomed, Phases
      <3> QED
        BY <2>1, <3>1
    <2>2. CASE cache.res = api.res /\ ~(cache.phase = "live" /\ api.phase = "gone")
      BY <1>1, <2>2 DEF Begins, ResourceDoomed
    <2> QED
      BY <1>1, <2>1, <2>2 DEF Begins
  <1>2. CASE Depends \/ Marks
    BY <1>2 DEF Depends, Marks, Ends, Kept, ResourceDoomed
  <1>3. CASE UpdatesResource
    BY <1>3 DEF UpdatesResource, SameResource, ResourceDoomed
  <1>4. CASE CreatesResource
    <2>1. CASE Ends /\ res' = res
      BY <1>4, <2>1 DEF CreatesResource, Ends, ResourceDoomed
    <2>2. CASE pc' = "patchRes"
      <3>1. cur'.res # loc.res /\ cur'.res # api.res
        BY <1>4, <1>i, <2>2 DEF CreatesResource, Ends, ResourceIds, NamesResource
      <3> QED
        BY <1>4, <2>2, <3>1 DEF CreatesResource, Ends, SameResource, ResourceDoomed
    <2> QED
      BY <1>4, <2>1, <2>2 DEF CreatesResource
  <1>5. CASE PatchesResource
    <2>1. CASE cur.res = loc.res
      <3>1. api'.res = api.res /\ api'.phase = api.phase
        BY <1>5, <2>1 DEF PatchesResource
      <3> QED
        BY <1>5, <2>1, <3>1 DEF PatchesResource, Ends, ResourceDoomed
    <2>2. CASE cur.res # loc.res /\ api.phase # "gone"
      <3>1. api'.res = cur.res /\ api'.phase = api.phase /\ pc' = "zone"
        BY <1>5, <2>2 DEF PatchesResource
      <3>2. loc.res # None => res[loc.res].st # "live" \/ res[loc.res].net \in left
        <4>1. SUFFICES ASSUME loc.res # None, res[loc.res].st = "live"
                       PROVE  loc.nid \in left /\ res[loc.res].net = loc.nid
          OBVIOUS
        <4>2. /\ loc.nid # cur.net /\ loc.nid # None /\ cur.net # None
              /\ res[loc.res].net = loc.nid
          BY <1>5, <1>i, <2>2, <4>1 DEF PatchesResource, ResourceIds, NamesResource
        <4>3. loc.nid \in Known /\ cur.net \in Known /\ loc.nid \in Nat /\ cur.net \in Nat
          BY <4>2 DEF Known
        <4>4. loc.nid < cur.net
          BY <4>2, <4>3 DEF Inv, NetForward, NotAhead
        <4> QED
          BY <4>2, <4>3, <4>4 DEF Inv, NetOrder
      <3> QED
        BY <1>5, <2>2, <3>1, <3>2 DEF PatchesResource, ResourceDoomed
    <2>3. CASE cur.res # loc.res /\ api.phase = "gone"
      <3>1. api' = api /\ Ends
        BY <1>5, <2>3 DEF PatchesResource
      <3>2. None \in ResourceDoomed
        BY <1>5, <2>3 DEF PatchesResource, ResourceDoomed
      <3>3. ResourceDoomed' \subseteq (ResourceDoomed \ {None}) \cup {cur.res}
        BY <1>5, <3>1 DEF PatchesResource, Ends, ResourceDoomed
      <3> QED
        BY <3>2, <3>3
    <2> QED
      BY <2>1, <2>2, <2>3
  <1>6. CASE FindsZone \/ DropsRecord \/ UpdatesRecord \/ CreatesRecord
    BY <1>6 DEF FindsZone, DropsRecord, UpdatesRecord, CreatesRecord, Ends, ResourceDoomed
  <1>7. CASE PatchesReady
    BY <1>7 DEF PatchesReady, Ends, ResourceDoomed
  <1>8. CASE DeletesResource \/ DeletesRecord
    BY <1>8 DEF DeletesResource, DeletesRecord, ResourcesAge, Aged, ResourceDoomed
  <1>9. CASE Removes
    BY <1>9, <1>i DEF Removes, Ends, ResourceDoomed, ResourceIds, NamesResource
  <1>10. CASE Aborts
    <2>1. ResourceDoomed' \subseteq ResourceDoomed \cup {cur.res}
      BY <1>10 DEF Aborts, Ends, ResourceDoomed
    <2> QED
      BY <1>10, <2>1 DEF Aborts
  <1>11. CASE Syncs
    BY <1>11 DEF Syncs, ResourceDoomed
  <1>12. CASE IsDeleted
    <2>1. CASE api.fin
      BY <1>12, <2>1 DEF IsDeleted, ResourceDoomed
    <2>2. CASE ~api.fin
      <3>1. api'.phase = "gone" /\ api'.res = None /\ api.res = None
        BY <1>12, <1>i, <2>2 DEF IsDeleted, ResourceIds, NamesResource
      <3>2. CASE pc = "idle"
        BY <1>12, <3>1, <3>2 DEF IsDeleted, ResourceDoomed
      <3>3. CASE lapses' = lapses + 1
        <4>1. ResourceDoomed' \subseteq ResourceDoomed \cup {None}
          BY <1>12, <3>1 DEF IsDeleted, ResourceDoomed
        <4> QED
          BY <3>3, <4>1
      <3> QED
        BY <1>12, <2>2, <3>2, <3>3 DEF IsDeleted
    <2> QED
      BY <2>1, <2>2
  <1>13. CASE Elsewhere
    BY <1>13 DEF Elsewhere, ResourcesAge, Aged, ResourceDoomed
  <1> QED
    BY <1>1, <1>2, <1>3, <1>4, <1>5, <1>6, <1>7, <1>8, <1>9, <1>10, <1>11,
       <1>12, <1>13 DEF Effect

(* The same of the records, of which a lapse dooms two.                    *)
LEMMA StepRecordDoomed ==
  ASSUME Inv, WorldTypes, OwnTypes, Effect
  PROVE  \/ RecordDoomed' \subseteq RecordDoomed
         \/ /\ lapses' = lapses + 1
            /\ \E x, y : RecordDoomed' \subseteq (RecordDoomed \cup {x}) \cup {y}
         \/ \E a \in RecordDoomed :
              \E x : RecordDoomed' \subseteq (RecordDoomed \ {a}) \cup {x}
  <1> USE AbsentFields, Fields DEF ResourceCalls, RecordCalls, Teardown
  <1>i. Phases /\ RecordIds
    BY DEF Inv
  <1>1. CASE Begins
    <2>1. CASE lapses' = lapses + 1
      <3>1. RecordDoomed' \subseteq (RecordDoomed \cup {None}) \cup {api.rec}
        BY <1>1 DEF Begins, RecordDoomed
      <3> QED
        BY <2>1, <3>1
    <2>2. CASE cache.rec = api.rec /\ ~(cache.phase = "live" /\ api.phase = "gone")
      BY <1>1, <2>2 DEF Begins, RecordDoomed
    <2> QED
      BY <1>1, <2>1, <2>2 DEF Begins
  <1>2. CASE Depends \/ Marks
    BY <1>2 DEF Depends, Marks, Ends, Kept, RecordDoomed
  <1>3. CASE UpdatesResource
    BY <1>3 DEF UpdatesResource, RecordDoomed
  <1>4. CASE CreatesResource
    BY <1>4 DEF CreatesResource, Ends, RecordDoomed
  <1>5. CASE PatchesResource
    BY <1>5 DEF PatchesResource, Ends, RecordDoomed
  <1>6. CASE FindsZone \/ DropsRecord
    BY <1>6 DEF FindsZone, DropsRecord, Ends, Dropped, RecordsAge, Aged, RecordDoomed
  <1>7. CASE UpdatesRecord
    BY <1>7 DEF UpdatesRecord, SameRecord, RecordDoomed
  <1>8. CASE CreatesRecord
    <2>1. cur'.rec # loc.rec /\ cur'.rec # api.rec
      BY <1>8, <1>i DEF CreatesRecord, RecordIds, NamesRecord
    <2> QED
      BY <1>8, <2>1 DEF CreatesRecord, SameRecord, RecordDoomed
  <1>9. CASE PatchesReady
    <2>0. pc = "patchReady" /\ pc' = "idle" /\ rec' = rec
      BY <1>9 DEF PatchesReady, Ends
    <2>1. CASE cur.rec = loc.rec
      <3>1. api'.rec = api.rec /\ api'.zid = api.zid /\ api'.phase = api.phase
        BY <1>9, <1>i, <2>1 DEF PatchesReady, RecordIds
      <3> QED
        BY <2>0, <2>1, <3>1 DEF RecordDoomed
    <2>2. CASE cur.rec # loc.rec /\ api.phase # "gone" /\ api.rec = loc.rec
      <3>1. api'.rec = cur.rec /\ rec[cur.rec].zone = cur.zone /\ api'.zid = cur.zone
        BY <1>9, <1>i, <2>2 DEF PatchesReady, RecordIds, NamesRecord
      <3>2. loc.rec # None =>
              rec[loc.rec].st # "live" \/ rec[loc.rec].zone # api.zid
        BY <2>0, <2>2, <1>i DEF RecordIds, NamesRecord
      <3> QED
        BY <2>0, <2>2, <3>1, <3>2 DEF RecordDoomed
    <2>3. CASE cur.rec # loc.rec /\ (api.phase = "gone" \/ api.rec # loc.rec)
      <3>1. None \in RecordDoomed
        BY <2>0, <2>3 DEF RecordDoomed
      <3>2. api'.rec = cur.rec \/ (api'.rec = api.rec /\ api'.zid = api.zid)
        BY <1>9, <2>3 DEF PatchesReady
      <3>3. RecordDoomed' \subseteq (RecordDoomed \ {None}) \cup {cur.rec}
        <4>1. ASSUME NEW r \in RecordDoomed', r # cur.rec
              PROVE  r \in RecordDoomed /\ r # None
          <5>1. /\ r \in Records /\ rec[r].st = "live"
                /\ r # api'.rec \/ rec[r].zone # api'.zid
            BY <2>0, <4>1 DEF RecordDoomed
          <5>2. CASE r # api.rec \/ rec[r].zone # api.zid
            BY <4>1, <5>1, <5>2 DEF RecordDoomed
          <5>3. CASE r = api.rec /\ api.rec # loc.rec
            BY <2>0, <5>1, <5>3 DEF RecordDoomed
          <5>4. CASE r = api.rec /\ api.phase = "gone"
            BY <1>i, <5>1, <5>4 DEF Phases
          <5> QED
            BY <2>3, <5>2, <5>3, <5>4
        <4> QED
          BY <4>1
      <3> QED
        BY <3>1, <3>3
    <2> QED
      BY <2>1, <2>2, <2>3
  <1>10. CASE DeletesResource \/ DeletesRecord
    BY <1>10 DEF DeletesResource, DeletesRecord, Dropped, RecordsAge, Aged, RecordDoomed
  <1>11. CASE Removes
    <2>1. loc.rec # None => rec[loc.rec].st # "live" \/ rec[loc.rec].zone # loc.zid
      BY <1>11, <1>i DEF Removes, RecordIds
    <2>2. loc.rec # None /\ loc.rec = api.rec => loc.zid = api.zid
      BY <1>i DEF RecordIds, NamesRecord
    <2> QED
      BY <1>11, <2>1, <2>2 DEF Removes, Ends, RecordDoomed
  <1>12. CASE Aborts
    <2>1. RecordDoomed' \subseteq (RecordDoomed \cup {cur.rec}) \cup {cur.rec}
      BY <1>12 DEF Aborts, Ends, RecordDoomed
    <2> QED
      BY <1>12, <2>1 DEF Aborts
  <1>13. CASE Syncs
    BY <1>13 DEF Syncs, RecordDoomed
  <1>14. CASE IsDeleted
    <2>1. CASE api.fin
      BY <1>14, <2>1 DEF IsDeleted, RecordDoomed
    <2>2. CASE ~api.fin
      <3>1. /\ api'.phase = "gone" /\ api'.rec = None /\ api.rec = None
            /\ api'.zid = None /\ api.zid = None
        BY <1>14, <1>i, <2>2 DEF IsDeleted, RecordIds, NamesRecord
      <3>2. CASE pc = "idle"
        BY <1>14, <3>1, <3>2 DEF IsDeleted, RecordDoomed
      <3>3. CASE lapses' = lapses + 1
        <4>1. RecordDoomed' \subseteq (RecordDoomed \cup {None}) \cup {None}
          BY <1>14, <3>1 DEF IsDeleted, RecordDoomed
        <4> QED
          BY <3>3, <4>1
      <3> QED
        BY <1>14, <2>2, <3>2, <3>3 DEF IsDeleted
    <2> QED
      BY <2>1, <2>2
  <1>15. CASE Elsewhere
    BY <1>15 DEF Elsewhere, RecordsAge, Aged, RecordDoomed
  <1> QED
    BY <1>1, <1>2, <1>3, <1>4, <1>5, <1>6, <1>7, <1>8, <1>9, <1>10, <1>11,
       <1>12, <1>13, <1>14, <1>15 DEF Effect

(* Shrinking a bounded set keeps the bound, and so does exchanging an      *)
(* element; one or two more elements raise it by as many.                  *)
LEMMA Shrink ==
  ASSUME NEW A, NEW B, NEW n \in Nat, IsFiniteSet(A), Cardinality(A) <= n,
         B \subseteq A
  PROVE  IsFiniteSet(B) /\ Cardinality(B) <= n
  BY FS_Subset, FS_CardinalityType

LEMMA Grow ==
  ASSUME NEW A, NEW B, NEW x, NEW n \in Nat, IsFiniteSet(A),
         Cardinality(A) <= n, B \subseteq A \cup {x}
  PROVE  IsFiniteSet(B) /\ Cardinality(B) <= n + 1
  <1>1. Cardinality(A) \in Nat
    BY FS_CardinalityType
  <1>2. /\ IsFiniteSet(A \cup {x})
        /\ Cardinality(A \cup {x}) \in {Cardinality(A), Cardinality(A) + 1}
    BY FS_AddElement
  <1>3. Cardinality(A \cup {x}) <= n + 1 /\ Cardinality(A \cup {x}) \in Nat
    BY <1>1, <1>2
  <1> QED
    BY <1>2, <1>3, Shrink

LEMMA Exchange ==
  ASSUME NEW A, NEW B, NEW a \in A, NEW x, NEW n \in Nat, IsFiniteSet(A),
         Cardinality(A) <= n, B \subseteq (A \ {a}) \cup {x}
  PROVE  IsFiniteSet(B) /\ Cardinality(B) <= n
  <1>1. IsFiniteSet(A \ {a}) /\ Cardinality(A \ {a}) = Cardinality(A) - 1
    BY FS_RemoveElement
  <1>2. Cardinality(A) \in Nat /\ Cardinality(A \ {a}) \in Nat
    BY <1>1, FS_CardinalityType
  <1>3. n - 1 \in Nat /\ Cardinality(A \ {a}) <= n - 1
    BY <1>1, <1>2
  <1>4. IsFiniteSet(B) /\ Cardinality(B) <= (n - 1) + 1
    BY <1>1, <1>3, Grow
  <1> QED
    BY <1>4

LEMMA GrowTwo ==
  ASSUME NEW A, NEW B, NEW n \in Nat, IsFiniteSet(A), Cardinality(A) <= n,
         \E x, y : B \subseteq (A \cup {x}) \cup {y}
  PROVE  IsFiniteSet(B) /\ Cardinality(B) <= (n + 1) + 1
  <1>1. PICK x, y : B \subseteq (A \cup {x}) \cup {y}
    OBVIOUS
  <1> DEFINE C == A \cup {x}
  <1>2. C \subseteq A \cup {x} /\ B \subseteq C \cup {y} /\ n + 1 \in Nat
    BY <1>1
  <1> HIDE DEF C
  <1>3. IsFiniteSet(C) /\ Cardinality(C) <= n + 1
    BY <1>2, Grow
  <1> QED
    BY <1>2, <1>3, Grow

LEMMA InitLeak == Init => LeakInv
  <1> SUFFICES ASSUME Init PROVE LeakInv
    OBVIOUS
  <1>1. pc = "idle" /\ lapses = 0
    BY DEF Init
  <1>2. ResourceDoomed = {}
    BY <1>1 DEF Init, ResourceDoomed, ResourceCalls, Teardown
  <1>3. RecordDoomed = {}
    BY <1>1 DEF Init, RecordDoomed, ResourceCalls, RecordCalls, Teardown
  <1> QED
    BY <1>1, <1>2, <1>3, InitInv, FS_EmptySet DEF LeakInv

LEMMA StepLeak == LeakInv /\ [Next]_vars => LeakInv'
  <1> SUFFICES ASSUME LeakInv, [Next]_vars PROVE LeakInv'
    OBVIOUS
  <1>1. Inv /\ WorldTypes /\ OwnTypes /\ Counts
    BY TypeParts DEF LeakInv, Inv
  <1>2. Inv' /\ Effect /\ Tally
    BY <1>1, StepInv, StepEffect, StepTally
  <1>3. left \subseteq left'
    BY <1>1, RouterEffect DEF RouterStays, RouterSeen, RouterMoves, RouterCloses, RouterGoes
  <1>4. lapses \in Nat /\ lapses' \in Nat /\ lapses <= lapses'
    BY <1>1, <1>2 DEF Counts, Tally
  <1>5. IsFiniteSet(ResourceDoomed') /\ Cardinality(ResourceDoomed') <= lapses'
    <2>1. IsFiniteSet(ResourceDoomed) /\ Cardinality(ResourceDoomed) <= lapses
      BY DEF LeakInv
    <2>2. ASSUME IsFiniteSet(ResourceDoomed'), Cardinality(ResourceDoomed') <= lapses
          PROVE  Cardinality(ResourceDoomed') <= lapses'
      <3>1. Cardinality(ResourceDoomed') \in Nat
        BY <2>2, FS_CardinalityType
      <3> QED
        BY <1>4, <2>2, <3>1
    <2>3. CASE ResourceDoomed' \subseteq ResourceDoomed
      BY <1>4, <2>1, <2>2, <2>3, Shrink
    <2>4. CASE /\ lapses' = lapses + 1
               /\ \E x : ResourceDoomed' \subseteq ResourceDoomed \cup {x}
      BY <1>4, <2>1, <2>4, Grow
    <2>5. CASE \E a \in ResourceDoomed :
                 \E x : ResourceDoomed' \subseteq (ResourceDoomed \ {a}) \cup {x}
      BY <1>4, <2>1, <2>2, <2>5, Exchange
    <2> QED
      BY <1>1, <1>2, <1>3, <2>3, <2>4, <2>5, StepResourceDoomed
  <1>6. IsFiniteSet(RecordDoomed') /\ Cardinality(RecordDoomed') <= 2 * lapses'
    <2>1. /\ IsFiniteSet(RecordDoomed) /\ Cardinality(RecordDoomed) <= 2 * lapses
          /\ 2 * lapses \in Nat
      BY <1>4 DEF LeakInv
    <2>2. ASSUME IsFiniteSet(RecordDoomed'), Cardinality(RecordDoomed') <= 2 * lapses
          PROVE  Cardinality(RecordDoomed') <= 2 * lapses'
      <3>1. Cardinality(RecordDoomed') \in Nat
        BY <2>2, FS_CardinalityType
      <3> QED
        BY <1>4, <2>2, <3>1
    <2>3. CASE RecordDoomed' \subseteq RecordDoomed
      BY <2>1, <2>2, <2>3, Shrink
    <2>4. CASE /\ lapses' = lapses + 1
               /\ \E x, y : RecordDoomed' \subseteq (RecordDoomed \cup {x}) \cup {y}
      <3> DEFINE A == RecordDoomed
                 B == RecordDoomed'
                 n == 2 * lapses
      <3>1. /\ IsFiniteSet(A) /\ Cardinality(A) <= n /\ n \in Nat
            /\ \E x, y : B \subseteq (A \cup {x}) \cup {y}
        BY <2>1, <2>4
      <3>2. (n + 1) + 1 = 2 * lapses'
        BY <1>4, <2>4
      <3> HIDE DEF A, B, n
      <3>3. IsFiniteSet(B) /\ Cardinality(B) <= (n + 1) + 1
        BY <3>1, GrowTwo
      <3> QED
        BY <3>2, <3>3 DEF B
    <2>5. CASE \E a \in RecordDoomed :
                 \E x : RecordDoomed' \subseteq (RecordDoomed \ {a}) \cup {x}
      <3> DEFINE A == RecordDoomed
                 B == RecordDoomed'
                 n == 2 * lapses
      <3>1. /\ IsFiniteSet(A) /\ Cardinality(A) <= n /\ n \in Nat
            /\ \E a \in A : \E x : B \subseteq (A \ {a}) \cup {x}
        BY <2>1, <2>5
      <3> HIDE DEF A, B, n
      <3>2. IsFiniteSet(B) /\ Cardinality(B) <= n
        BY <3>1, Exchange
      <3> QED
        BY <2>2, <3>2 DEF B, n
    <2> QED
      BY <1>1, <1>2, <2>3, <2>4, <2>5, StepRecordDoomed
  <1> QED
    BY <1>2, <1>5, <1>6 DEF LeakInv

(* Each pass cut off or started from an outdated copy, and each deletion   *)
(* that beats the first patch of Reconcile, leaves at most one network     *)
(* resource and two DNS records behind, over any router that behaves as    *)
(* Handle says; nothing else leaves any: LeaksAccounted for every number   *)
(* of networks, zones, addresses, ids and lapses.                          *)
THEOREM LeaksBounded == Spec => []LeaksAccounted
  <1>1. LeakInv => LeaksAccounted
    <2> SUFFICES ASSUME LeakInv PROVE LeaksAccounted
      OBVIOUS
    <2>1. lapses \in Nat /\ 2 * lapses \in Nat
      BY TypeParts DEF LeakInv, Inv, Counts
    <2>2. ResourceOrphans \subseteq ResourceDoomed
      BY DEF ResourceOrphans, ResourceDoomed
    <2>3. RecordOrphans \subseteq RecordDoomed
      BY DEF RecordOrphans, RecordDoomed
    <2>4. Cardinality(ResourceOrphans) <= lapses
      BY <2>1, <2>2, Shrink DEF LeakInv
    <2>5. Cardinality(RecordOrphans) <= 2 * lapses
      BY <2>1, <2>3, Shrink DEF LeakInv
    <2> QED
      BY <2>4, <2>5 DEF LeaksAccounted
  <1> QED
    BY <1>1, InitLeak, StepLeak, PTL DEF Spec
=============================================================================
