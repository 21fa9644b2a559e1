# openzro-operator: TLA+ models, model checking and proofs

The operator keeps Kubernetes objects and objects of the openZro management
service (groups, policies, networks, routers, setup keys) in step. Its
correctness is a matter of what happens between the calls: every reconcile pass
reads lagging caches, calls a remote service several times, keeps ids in memory
and saves them with a write that may be refused; passes of different
controllers, users and administrators interleave; the process may stop anywhere.

## The system

| Part | State | Operations | Talks to |
|---|---|---|---|
| SetupKey controller (v1alpha1) | `status.setupKeyID`, finalizer, Secret, upstream key | reconcile: check, update or replace key; delete | management service, Secret |
| OZPolicy controller | ids of a TCP and a UDP policy, managed list | reconcile: create, update, delete per protocol; delete | management service, OZResources |
| OZGroup controller and webhook | `status.groupID`, finalizers | adopt or create by name; delete with grace period; deny deletion | management service, owners |
| OZSetupKey controller | condition, in-memory map Secret -> OZSetupKey | validate a Secret | Secret watch |
| OZRoutingPeer controller | ids of network, router, key; OZGroup, Secret, Deployment; exempt list | reconcile; delete | management service, OZGroup, OZResources |
| OZResource controller | ids of resource, groups, policies | reconcile; delete | management service, OZGroups, OZPolicies |
| Service controller | OZResource, OZRoutingPeer of an annotated Service | expose, hide | OZResource, OZRoutingPeer |
| Group, NetworkRouter, NetworkResource controllers (v1alpha1) | upstream ids, Groups, SetupKey, Deployment, DNS records | reconcile; delete | management service |
| GatewayClass, Gateway, HTTPRoute, TCPRoute controllers | NetworkRouter and NetworkResource objects | reconcile; delete | v1alpha1 objects |
| Pod webhook | none | inject a sidecar | SidecarProfile, OZSetupKey |

What is hard in it: (1) an upstream object is created before its id is saved, so
a crash, an error or a write conflict in between orphans it; (2) reads come from
informer caches that lag; (3) legacy controllers write with a resourceVersion
and lose what a pass collected on a conflict, v1alpha1 controllers patch without
one and may overwrite; (4) several objects share upstream objects by name; (5)
deletion runs through finalizers on several objects that wait for each other;
(6) account settings are read, changed and written back as a whole.
`PROJECT.json` lists these hazards at their lines with the properties that watch
over them.

## Modules

Each controller has one worker, so in every module at most one pass runs: `pc`
is the remote call it makes next, `loc` its copy of the object. One remote call
is one action, and everything else interleaves between calls. Exceptions: one
Patch of the flux helper, which writes metadata and status in two requests, is
one action (`PatchNetwork`, `PatchResource`; a crash between the two is a lapse
like one before them), the updates of several OZGroups in one loop of
`OZResource` are one action that may stop anywhere in between, and in `Gateway`
everything that a pass reads before its first write is one step. `Abort` is a pass
that ends before its next call (an error, or a crash and restart); a call whose
answer is lost is that call followed by `Abort`. The informer copy (`cache`) is
brought up to date by an action of its own. `OZRoutingPeer` and `OZResource` have
such copies of every kind that the controllers read: Secrets, OZGroups,
Deployments and OZResources in the first, OZGroups, plain and generated OZPolicies
in the second. A write that rests on an outdated copy is rejected, and what a copy
does not show is passed over. `Gateway` has no lag. Ids, Secret contents and
names are members of small sets; messages, labels and log lines are left out. A
`lapse` is a pass that ends without saving, or that starts from an outdated copy.

- `SetupKey` - `setupkey_controller.go`. One object from creation to removal.
  Actions follow the pass: `Start`, `GetGroupIDs`, `AddFinalizer`, `GetKey`,
  `GetSecret`, `UpdateKey`, `CreateKey`, `PatchId`, `ApplySecret`,
  `DeleteOldKey`, `PatchReady`, and `DeleteKey`, `RemoveFinalizer` for deletion.
  A Secret's content is compared by `Prefix`, its first five characters.
  Patches carry no resourceVersion and always apply to an object that exists.
- `OZPolicy` - `ozpolicy_controller.go`. Protocols are handled in any order
  (the code ranges over a map); ids are kept in `loc.ids` until `SaveStatus`,
  which is refused when the object was written since (`fresh`). The OZResource
  controller is the environment: `Register` puts a resource in the managed list,
  `NameInStatus` later names the policy in the resource. Ports and groups are
  reduced to which protocols a resource exposes.
- `OZGroup` - `ozgroup_controller.go` and `ozgroup_webhook.go`. Several OZGroups
  of one name share an upstream group. `late` is the code's one-minute limit;
  `DeletionDenied` is the webhook, as a guard of deletions.
- `OZSetupKey` - `ozsetupkey_controller.go`. `ReferencedSecrets` is the
  in-memory map; `SecretSync` updates the cache and `MapSecret` runs the watch
  handler later. Fresh informers after `Restart` report everything.
- `OZRoutingPeer` - `ozroutingpeer_controller.go`. Routing peers of one
  cluster-wide network. Its deferred function saves the status also after an
  error: `Fail` (an error answer) ends in `SaveStatus`, `Abort` (a crash) does
  not. List and creation of the network, and the read of the account and its
  update, are two actions each. `gcache`, `dcache`, `rcache` are the informer's
  copies of OZGroup, Deployment and OZResources; a deletion pass keeps the OZGroup
  as it read it (`gloc`) and releases that, and `missed` remembers a routing peer
  whose last deletion pass was not shown its Deployment or the finalizer of its
  OZGroup. The OZGroup, OZResource and Service controllers appear as `GroupBinds`,
  `ResourceGone` and `ServiceExposes`. Of the Deployment only the existence is
  modelled.
- `OZResource` - `ozresource_controller.go`. A pass over the groups, the
  network resource upstream and the policies of one OZResource, on a copy that
  `SaveStatus` writes back once. `handleGroups` can fail in a way that lets the
  pass go on without group ids (`ReleaseGroups`, remembered in `ungrouped`).
  Policies are handled and released one by one: `overlooked` are those whose entry
  the last pass on them did not see in the informer's copy, `broken` says that an
  error about one policy of the list has ended a pass. A group's id is its name;
  TCP and UDP ports are one list. Extended by
- `Service` - `service_controller.go`, composed with OZResource over the one
  object they share. A Service's annotations are a record (`Configs`); `Ports`
  edits the port list as `applyPolicy` does, port by port (`Edit`). Both
  controllers read the object from the same informer copy. `missed` and `clash`
  remember the two races the code loses: a pass that left an OZResource it did
  not want because the informer was behind, and a write that dooms the other
  controller's save. The network of the routing peer appears once and stays
  (`RouterReady`).
- `Slices` - membership, removal and comparison of lists as in
  `internal/util/slices.go`. Lists of ports are sequences; elsewhere the models
  have sets where the code applies these helpers.
- `Group` - `group_controller.go`. A Group that is applied again while a pass
  deletes its predecessor of the same name stays, without the finalizer until its
  own pass. Extended by
- `NetworkRouter` - `networkrouter_controller.go`, composed with the Group
  controller. Passes that find the Group, the SetupKey or the Deployment not
  ready return without a requeue, so `due`, the content of the work queue, is
  part of the state, and every watch sets it. SetupKey and Deployment are what
  the informer shows of them.
- `NetworkResource` - `networkresource_controller.go`: the resource and the DNS
  record of one NetworkResource. Its NetworkRouter is any behaviour of `Handle`.
  The zone it names may be one that the service does not have (`Unknown`).
- `Gateway` - `gatewayclass_controller.go`, `gateway_controller.go`,
  `httproute_controller.go`, `tcproute_controller.go` with `gatewayutil`. One
  class, one Gateway, routes over one Service; `nr` is the NetworkResource the
  routes share through owner references. The manager's client applies as one
  field owner (`cmd/main.go`), which is why `Apply` replaces the reference that
  another route has put in. The finalizer's Patch (`PatchRoute`) is an event of
  the route itself, so every new route gets a second pass. `harm` records for each
  route what has come between it and its NetworkResource (`Harms` lists the five
  races), and `late` an HTTPRoute that was finalized after the Gateway's List:
  `EventuallySettled` and `GatewayOutlivesRoutes` except exactly these. The
  NetworkRouter may be deleted and made again, the operator restarted.
- `PodWebhook` - `pod_webhook.go`: the admission of a Pod by either injector,
  composed with the OZSetupKey controller whose condition it reads.
- `Handle` - an abstract specification: what the id in the status of a v1alpha1
  object promises (below).
- `MC*` - the instances for TLC.
- `SetupKeyProofs`, `OZPolicyProofs`, `OZRoutingPeerProofs`,
  `NetworkRouterProofs` (with Group), `NetworkResourceProofs`, `ServiceProofs`
  (with OZResource), `GatewayProofs`, `WebhookProofs` (PodWebhook with
  OZSetupKey, and OZGroup) - the theorems and their proofs.

`TypeOK` of `Gateway` and of `Service` are proved; no run checks these two.

### The abstract handle

Other objects build on the id that a v1alpha1 object publishes in its status.
`Handle` says what they may rely on: the id names something the service has
handed out, it changes only to a newer one, and an object with an id vanishes
only after a user has asked for the deletion. `SetupKey` (`KeyIsHandle`) and
`NetworkRouter` (`NetworkIsHandle`) are checked to implement it, through an
INSTANCE that maps the upstream states to unused, live and dead.
`NetworkResource` takes the same module as its environment, so what is checked of
it holds over every NetworkRouter that `Handle` allows, of which the one in
`NetworkRouter` is one.

A definition whose comment begins with "Mutant:" is a deliberately wrong version
of the definition after it; no specification uses it. It documents which mistake
in the code a property detects.

## Runs

Passing runs:

| Run | Shows |
|---|---|
| `setupkey` | With two lapses (aborted passes, passes on an old id), one stale Secret read and one outside change: the key in a live object's Secret is never deleted by the operator (`SecretKeyNotDeleted`), a key in the status or in hand is behind the finalizer (`FinalizerGuardsKey`), one lapse orphans at most one key (`LeaksAccounted`), after the last fault and change the SetupKey settles (`EventuallySettled`), and the id in its status is a handle (`KeyIsHandle`). |
| `ozpolicy` | A pass that cannot save its status orphans at most one policy per protocol (`LeaksAccounted`); ids never change protocol (`IdsMatchProtocol`); the installed policies converge to the wanted ones, and a deleted OZPolicy goes unless a policy of its was already gone (`EventuallySettled`), for a service whose "not found" is part of a longer message. |
| `ozgroup` | The operator never has two upstream groups of a name (`NoDuplicate`), live OZGroups end up bound to an existing group (`EventuallyBound`), deletion ends although a group stays linked (`DeletionCompletes`). |
| `routingpeers` | Two routing peers: one network (`OneNetwork`). |
| `routingpeer_life` | One routing peer with failing calls, lagging informers and busy Services: setup keys are orphaned only by passes that could not save (`KeyLeaksAccounted`); when the object goes after passes that could all save, no network and no exempt entry is left, and no Deployment or group finalizer but one that the informers did not show to the last pass (`TeardownComplete`); recovery to a ready routing peer (`EventuallyReady`), deletion ends (`DeletionCompletes`). |
| `networkrouter` | A pass that is cut off, starts from an old status or is beaten by a deletion leaves at most one network or group (`NetworksAccounted`, `GroupsAccounted`); passes that return without a requeue are always woken, and router, network and group end up belonging together (`EventuallySettled`); `NetworkIsHandle`. |
| `networkresource` | Routers whose network goes or is replaced, zones that change or do not exist, Services that change: at most one resource and two records per lapse are left (`LeaksAccounted`; two, because a pass on an outdated copy can lose one record and save a zone id beside a record of another zone; a resource in a network that the router left behind counts as the router's), and the watches suffice for the resource and the record to follow (`EventuallySettled`; with an unknown zone the resource only, with a router that names a dead network neither). |
| `exposure` | Service and OZResource: a network resource, or an entry in a policy that a user wrote, is left only after a fault, a clash of writes or, for the entry, an error about another policy of the list or a last pass on that policy that was not shown the entry (`OrphansAccounted`, `PoliciesReleased`); a network resource has exactly the groups of one configuration unless `handleGroups` went on after an OZGroup it could not release (`GroupsComplete`); a port of the Service is open exactly if the annotation allows it (`PortsInLine`); exposure and hiding converge, with the exceptions that the property names (`EventuallySettled`). |
| `gateway` | The Gateway outlives the HTTPRoutes that need it except for one race (`GatewayOutlivesRoutes`); a proxy service is left only where a second was created (`ProxyLeaksAccounted`); routes are served or go, and the races that can prevent it for good, each recorded for the route it happened to (`EventuallySettled`). |
| `podwebhook` | A lone OZSetupKey never misses a change of its Secret (`NoLostWakeup`); no Pod is let in on a verdict that is stale for good (`AdmittedWithKey`); a Pod that stays refused lacks its key or its annotations (`EventuallyAdmitted`). |

Runs that show a disagreement between the code and its own comments or tests
(each is a finding in `PROJECT.json`, with the quoted line):

| Run | Behaviour |
|---|---|
| `ozgroup_owned` | The webhook compares kinds with an empty string and denies nothing. |
| `routingpeer_secret` | A failed Secret write leaves the Secret with a deleted key for ever. |

### Disagreements without a run of their own

The models contain these behaviours too. Each was met in a model; the properties
of the passing runs are worded around them.

- `setupkey_controller.go` l. 116: the up-to-date branch never patches
  `observedGeneration` and Ready, although `setupkey_types.go` l. 31 says
  "ObservedGeneration is the last reconciled generation." A pass that ends
  between the Secret and the Ready patch is taken for up to date by the next.
- `setupkey_controller.go` l. 97: a Secret with fewer than five characters makes
  every pass panic (an exception in `Settled`).
- `ozpolicy_controller.go` l. 351 and 358: the arguments of `strings.Contains`
  are swapped. Unless the service answers a bare "not found", an OZPolicy with a
  policy that is already gone upstream can never be deleted; one deletion pass
  that is cut off is enough (an exception in `Settled`). The second protocol
  overwrites the requeue flag of the first (l. 326).
- `ozsetupkey_controller.go` l. 78: one map entry per Secret. With two
  OZSetupKeys that share a Secret TLC refutes `NoLostWakeup`: only the last
  recorded one is woken, against the comment in l. 153. It is not even enough
  that no two of them name the same Secret at the same time: when one gives a
  Secret up and another takes it, a pass on the informer's old copy of the first
  overwrites the entry of the second. If a Secret only ever belongs to one
  OZSetupKey, nothing is lost (`WakeupsKept`).
- `ozroutingpeer_controller.go` l. 176 and 215: an administrator's change of the
  exempt list between `ReadExempt` and `UpdateExempt` is undone, against the
  comment in l. 188. Deleting one routing peer takes the shared group off the
  list for the other (l. 746). The deletion pass reads the Deployment (l. 670) and
  the OZGroup (l. 697) from the informer: what it does not show yet is taken for
  gone, the finalizers of the routing peer are dropped, and the Deployment or the
  finalizer of the OZGroup stays (`missed`).
- `service_controller.go` l. 268: a port that the Service drops stays in the
  OZResource and open in the policies, against the comment in l. 194. A Service
  may create an OZResource in a network that is being deleted.
- `ozresource_controller.go` l. 590: policies are released by plain name, so
  generated ones keep an OZResource that is gone. A network resource whose id
  was lost keeps its name, and every later pass ends in DuplicateName (l. 429).
  An error about one policy (l. 356) ends the pass after an earlier policy of the
  list names the object, and skips the save of the status (l. 64): if the object
  is deleted then, that policy keeps it (`broken`). A policy is read from the
  informer: a copy without the entry that the last pass wrote is not corrected, and
  the policy keeps an object that is gone (l. 594, l. 326; `overlooked`); a
  generated policy that is not shown yet is not deleted (l. 311). A conflict about
  an OZGroup to be released (l. 497, 504) is returned without a Result, so the pass
  goes on and the network resource gets no groups (`ungrouped`).
- `networkresource_controller.go` l. 203: the patch writes what differs from the
  copy the pass read. If that copy is outdated and the zone has gone back and
  forth, the status ends up with the id of one zone and of a record in another;
  neither the next pass nor the deletion finds that record there.
- `httproute_controller.go`: a route that comes before its Gateway is programmed
  is never taken up again (l. 60); a proxy service is created even after an
  update (l. 164), and every new HTTPRoute gets a second pass through the Patch of
  its own finalizer (l. 70; the watch in l. 269 has no predicate);
  of two routes of one Service the one that applied first can no longer be deleted
  (l. 106, 226). TCPRoutes do not hold their Gateway
  (`gateway_controller.go` l. 137).
- `pod_webhook.go` l. 189: a Pod without annotations that a profile selects is
  refused for ever, against `docs/usage.md` l. 119 (the exception in `Blocked`).

### Bounds

Every bound is a constant: `MaxLapses` (passes cut off or started from an
outdated copy), `MaxFaults` (the same together with failing calls and stale reads,
in `OZRoutingPeer` and `OZSetupKey`), `MaxLags` (stale Secret reads of a SetupKey),
`MaxEvents` (users, administrators, other controllers; in `OZResource` and
`Service` faults too, in any mixture), `MaxGen` (edits of a spec), `MaxProxies`
(proxy services of a hostname, and how far their creations are counted) and the
numbers of ids. Copies of OZGroups, Deployments, OZResources and OZPolicies lag
without a bound. There are enough ids that creation is never blocked in the
passing runs, except for the networks of `networkresource`, where two let a network be
replaced once (each after the first costs an event), and for the proxy services
of `gateway`, where two show the second one that stays. One fault and one to
three outside events suffice for each hazard: a fault leaves a wrong state, an
event changes what the next pass should do about it. `setupkey` has two lapses
because the second can hit the pass that repairs the first; `gateway` has three
events and a lapse because creating, editing and deleting routes are events
themselves. Each of the harms it records is needed: without any one of them
`EventuallySettled` fails in this instance.
`networkresource` has two because a zone must change and change back for a
record to be mixed up. A user's deletion of the object costs no event in
`setupkey`, `networkrouter` and `networkresource`, and neither do the other
changes of the router in the last, but for its deletion. `exposure` starts from a Service with two
policies, one that a user wrote and one that the operator may generate, so that
an error about one can strand the other. Two objects suffice where objects share
something, as they interact pairwise: two OZGroups of a name, two routing peers,
a route of either kind. Symmetry is used in `routingpeers` only, which checks no
liveness; ids are numbers handed out in order, which makes symmetry among them
unnecessary.

Deadlock is checked except where the controllers really come to rest: in
`networkresource`, `exposure`, `gateway` and `podwebhook` nothing is requeued
after a success, or a removed object is the end. The other modules requeue, or
have a `Done` step.

### Fairness

`WF` of the pass's own steps: the worker goroutine runs and every call returns,
with an answer or an error; where two controllers are composed, `WF` of each.
`SF` of `Start` for each of several objects: the work queue is first-in
first-out and every return of those controllers requeues, but `Start` is
disabled while another pass runs. Routes of one kind share a worker too; the run
has one of each, so `WF` is enough there. `WF` of cache delivery: watches are
re-established. `WF` of Kubernetes' garbage collection, of the passing minute, of
a Pod's next attempt (whoever wants a Pod creates it again), and of the
controllers that stand in the environment. None for users, administrators,
faults, the NetworkRouter under a NetworkResource, and Services in
`OZRoutingPeer`.

## Proofs

Eight modules hold the theorems. Each is about the specification of its module
(`PortsEdited` about an operator), for every value of the constants that
its named assumptions allow: any sets of ids (numbers, as the service hands them
out in order), objects, resources, policies, zones and ports,
and any bounds on faults and events. The assumptions say that the special value
`None` is not an id, that bounds are naturals, and what the code itself ensures:
a Service always has at least one group
(`ConfigsAssumption`, `service_controller.go` l. 196), and there is some known zone
and some address to choose (`ChoicesAssumption`, without which no initial state
exists). Some theorems have hypotheses besides. `WakeupsKept` and
`PodsAdmittedWithKey` are about behaviours in which every Secret is only ever
named by the OZSetupKey it belongs to (`Apart`, for some assignment `Owner` of
Secrets to OZSetupKeys); without that the property is false (see above), and
`LoneKeyWakes` shows that a single OZSetupKey needs no hypothesis. The theorems
about `OZGroup`, which is an instance (`G`) in `WebhookProofs`, repeat its
`BoundsAssumption` as `GroupBounds`.

| Module | Theorems (the property of a run) |
|---|---|
| `SetupKeyProofs` | `TypeCorrect`, `SecretSafe` (`SecretKeyNotDeleted`), `FinalizerSafe` (`FinalizerGuardsKey`), `LeaksBounded` (`LeaksAccounted`), `ImplementsHandle` (`KeyIsHandle`) |
| `OZPolicyProofs` | `TypeCorrect`, `IdsNotConfused` (`IdsMatchProtocol`), `LeaksBounded` (`LeaksAccounted`) |
| `OZRoutingPeerProofs` | `TypeCorrect`, `OneNetworkOnly` (`OneNetwork`), `TeardownIsComplete` (`TeardownComplete`), `KeyLeaksBounded` (`KeyLeaksAccounted`) |
| `NetworkRouterProofs` | `TypeCorrect`, `GroupsBounded` (`GroupsAccounted`), `NetworksBounded` (`NetworksAccounted`), `ImplementsHandle` (`NetworkIsHandle`) |
| `NetworkResourceProofs` | `TypeCorrect`, `LeaksBounded` (`LeaksAccounted`) |
| `ServiceProofs` | `OrphansBounded` (`OrphansAccounted`), `GroupsAlwaysComplete` (`GroupsComplete`), `PoliciesLetGo` (`PoliciesReleased`), `PortsStayInLine` (`PortsInLine`), `PortsEdited` (what `applyPolicy` computes), `TypeCorrect` |
| `GatewayProofs` | `TypeCorrect`, `GatewayGoesLast` (`GatewayOutlivesRoutes`), `ProxyLeaksBounded` (`ProxyLeaksAccounted`), `DeletionFindsOwner` (`OwnerKept`: what a route's deletion needs) |
| `WebhookProofs` | `WebhookTypeCorrect` (`PTypeOK`), `WakeupsKept` and `LoneKeyWakes` (`NoLostWakeup`), `PodsAdmittedWithKey` and `LoneKeyWakes` (`AdmittedWithKey`), `GroupTypeCorrect` (`TypeOK` of `OZGroup`), `NoDuplicateGroups` (`NoDuplicate`) |

None of the safety properties is inductive alone. The invariants were checked
with TLC before they were proved; what they add:

- SetupKey: how far a pass has come. Between `CreateKey` and the end of the pass
  `new` is a key nobody else names; in `delOld` the Secret holds `new`, which
  differs from the old id; a pass past `AddFinalizer` has left the finalizer on
  the object, which only `RemoveFinalizer`, of the same single worker, takes off.
- OZGroup: when a pass is about to create, there is no group of the operator
  (`NoneBeforeCreate`), because list and create are in one pass of one worker and
  nobody else creates groups as the operator.
- OZRoutingPeer: the same for the network; further, every live network is the one
  some status or the running pass names, and what a routing peer owns
  (Deployment, group finalizer, exempt entry) is still there to be released by
  the phase of its deletion, or was `missed` (`NetTracked`, `OwnedReleased`,
  `ExemptOwned`). An OZGroup comes with its finalizer, is bound once and released
  once, so what an old copy shows of its binding and release still holds
  (`GroupCopies`).
- OZPolicy: every id that the object, the informer's copy or the pass holds was
  handed out for its protocol (`NamedIds`); an id that only the old copy has is no
  longer live (`StaleDead`); as long as nobody wrote the object, the pass holds
  every live policy of the status (`FreshHolds`).
- NetworkRouter, Group: ids are handed out in order, an id in hand is newer than
  the one in the status, and the finalizer is on every object with an id. The
  refinement needs the order: it is why a patch never puts back an older id.
- NetworkResource: the same relative to a router of which only `Handle` is known
  (`NetOrder`, `NetForward`), and for ids of resources and records.
- Service, OZResource: as long as no pass failed and no write clashed, the pass's
  copy is current (`PassCurrent`), every live network resource is the one in the
  status or about to be saved (`IdKnown`), and every policy that lists the object
  and was not overlooked (`Owed`) is in the saved status or still in the hands of
  the pass (`PoliciesKnown`); the specs name the groups of a configuration, and the
  group ids in hand are those of the spec (`GroupsNamed`, `GroupsInHand`). For
  the ports (`PortsInv`): no list has a port twice, which is what makes the
  one-sided comparison `Equivalent` an equality of the sets of ports; a pass of
  the OZResource controller never saves a spec other than the API's (`PassSpec`);
  and what the last pass of the Service controller left is in line with the
  informer's Service as long as no pass is due (`Reads`, `LeftInLine`).
- OZSetupKey, PodWebhook (`WakeInv`), for an OZSetupKey that is not in the queue:
  the map leads from the Secret it names back to it (`Mapped`); a pass on it has
  the reference of the informer's copy, and a verdict that the informer's Secret
  confirms or a notification will correct (`InHand`); without a pass its status is
  such a verdict (`Settled`). The informer's copy of the condition, which the
  webhook trusts, is current whenever the object's is (`Copied`).
- Gateway: a programmed Gateway has its finalizer; from the List of HTTPRoutes on,
  one step before the Gateway goes, no HTTPRoute but a late one has a finalizer
  (`ChainHeld`); the one proxy service of a hostname is behind the finalizer of
  its route and in the index that a deletion pass builds (`ProxyHeld`). A route
  with a finalizer has a Gateway of this controller that keeps its own as long as
  it lives, also when Programmed is taken back (`Anchored`).

For the leak bounds the orphans alone do not do: a pass that starts from an
outdated status has paid its lapse long before it forgets an id. The invariants
therefore bound a larger set, the *doomed* objects: those already left and those
that such a pass is going to leave (`Doomed`, `GroupDoomed`, `NetDoomed`,
`ResourceDoomed`, `RecordDoomed`; an object that is yet to be created is
represented by `None`). Every step either keeps that set, exchanges one element
for another, or adds elements and counts a lapse.

Statements about lists of any length (`WithoutFacts`, `PortsFacts`, `PortsEdited`)
are proved by the least counterexample: a set of numbers that is not empty has a
least one (`Least`, from the well-foundedness of `<`), so a set with 0 and with
the successor of each of its members is all of `0..n` (`Upwards`). `Iterate` gives
the function that a loop computes, step by step, and with it the recursive
functions in `Without` and `Ports` are known to satisfy their equations.

What the attempts showed about the models, each confirmed with TLC: the bound of
one record per lapse in `NetworkResource` is too small (two zone changes around a
stale pass cost two, hence `2 * lapses`), and the record is looked up in the zone
of the status; `PoliciesReleased` needs the exception `broken`; a Group that was
applied again is not removed by the pass that deletes its predecessor.

Model-checked only: every `Eventually...` and `DeletionCompletes`. They are
liveness properties under fairness, which the proof system does not treat. Every
invariant, action property and refinement of the passing runs is proved.

## Not modelled

- `cmd/main.go` (flags and wiring), generated deep copies and apply
  configurations, the mock of the management service, the Helm chart: no
  behaviour of their own.
- Of the Gateway controllers: several parents, Services or hostnames of one
  route, and informer lag (their reads are of the API). Conditions that nothing
  reads.
- Of `slices.go`, `SplitTrim`: an annotation is the set of names it lists.
- Contents of Deployments and of the injected container, labels, names, messages.
- Administrators do not delete networks in `OZRoutingPeer` (the code never looks
  whether the network in the status still exists, and fails on every pass
  afterwards); what the service does with the empty id of an unknown group
  (`ozpolicy_controller.go` l. 389) is not known from the repository.
- The unlocked map of OZSetupKey below the level of whole accesses: a concurrent
  access stops the program, which is `Restart`.
- When the owner that keeps a linked OZGroup is itself being deleted
  (`ozgroup_controller.go` l. 160), the upstream group stays; the code accepts it.

## Plan

1. `SetupKey`, `SetupKeyProofs` (done).
2. `OZPolicy`, `OZGroup` with webhook, `OZSetupKey`, `OZRoutingPeer` (done).
3. `OZResource` and `Service` over it (done).
4. `Group`, `NetworkRouter`, `NetworkResource`, and `Handle` between them (done).
5. `Gateway`, `PodWebhook` (done).
6. Proofs: the refinements of `Handle`, the type invariants and the safety
   properties of every module (done).
7. Left: controllers with several routes of a kind or several hostnames in
   `Gateway`; the liveness properties for other instances than those of the runs.
