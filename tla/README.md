# Verification of clusternet

TLA+ models of the control plane of clusternet, the checks TLC makes on small
instances of them, and theorems that TLAPS proves for every instance. Paths are
relative to the repository, which is under `src/`.

## 1. The system

clusternet manages many Kubernetes clusters from a parent cluster. Everything
is a Kubernetes object in the parent cluster's API server, and every part of
the system is a controller: it keeps an informer cache of the objects it reads,
event handlers put keys into a work queue, workers take keys, read the objects
from the cache (never from the API server), make requests, and put the key back
when anything fails.

An application travels along this chain:

    user --> Subscription (feeds, cluster affinity, tolerations)
               | clusternet-scheduler: status.bindingClusters, status.specHash
               v
             Base (one per bound cluster, in the cluster's namespace)
               | clusternet-hub: base, manifest and helmchart controllers,
               | deployer; localizer with Globalizations and Localizations
               v
             Description (contents of the feeds, one per Base and deployer)
               | clusternet-hub or clusternet-agent: description controller,
               | generic deployer; helm deployer by way of HelmReleases
               v
             resources and Helm releases in the child cluster

Deletion goes the same way, with a finalizer at every level that is released
when the level below is gone. Before all this a child cluster registers: its
agent creates a ClusterRegistrationRequest, the hub's approver answers with a
namespace and a token, and from then on the agent reports the status that the
lifecycle controller of the hub watches.

### Inventory

| part | state | operations | talks to | hard because |
|---|---|---|---|---|
| scheduler (`scheduler/scheduler.go`, `algorithm/generic.go`) | scheduling queue, subscribersMap, informer caches, one cycle, many binding goroutines | handlers of Subscriptions and ManagedClusters, scheduleOne (filter, score), bind, retry | writes status of Subscriptions, read by the hub | two informers lag independently; Done before the bind; bindings of one Subscription overlap |
| scheduler framework (`scheduler/framework`, `scheduler/parallelize`) | plugin lists, reservations, waiting Subscriptions, timers | filter, score, reserve, permit, bind plugins | scheduler | waiting map shared by cycles, timers against Allow, parallel filter |
| subscription controller (`controllers/apps/subscription`) | queue, caches | finalizer, UID label, handleSubscription | deployer | cache is mutated; only status changes enqueue |
| deployer, upper half (`hub/deployer/deployer.go`) | caches | populateBases, syncBase, deleteBase | writes Bases | dependents are counted in a lagging cache; partial failures |
| base controller (`controllers/apps/base`) | queue, caches | UID label, handleBase | deployer | waits for Descriptions to go |
| manifest and helmchart controllers (`controllers/apps/manifest`, `helmchart`) | queues, caches | finalizers, pruning of labels, chart verification, handleManifest, handleHelmChart, resyncBase | deployer | write the same Description as the base controller; cached charts are written to |
| deployer, lower half | caches, pruning goroutines | populateDescriptions, syncDescriptions, labels on feeds | writes Descriptions and feeds | several writers, goroutines without an owner |
| feed protection (`hub/deployer/utils.go`, `utils/feed.go`) | labels on feeds | block or unsubscribe on deletion | writes Subscriptions | patches by index |
| localizer, Globalization and Localization controllers | queues, caches | finalizer, labels, overrides applied to a Description | callbacks into the deployer | callbacks race the workers of the feeds; overrides that fail |
| description controller, generic deployer (`controllers/apps/description`, `hub/deployer/generic`, `utils/deployer.go`) | queue, caches | apply, offload, prune | child clusters | single resources fail; the status update conflicts |
| helm deployer, HelmRelease and secret controllers | queues, caches, credentials | HelmReleases, install, upgrade, uninstall | child clusters | two workers for one HelmRelease, Helm's own state, credentials that go away |
| agent deployers, recovery (`agent/deployer`, `controllers/apps/resource`) | queues, caches, resource controllers | pull-mode deployment, restoring resources | parent and child cluster | hub and agent write the same resources |
| registration: agent, approver, clusterregistrationrequest controller | requests, namespaces, ManagedClusters, accounts, tokens | register, approve, bind roles, store credentials | agent and hub | names are generated, retries after lost answers |
| cluster lifecycle, status manager | conditions, heartbeats | heartbeat, monitor | agent and hub | timeout against late heartbeat |
| shadow API server (`registry/shadow`) | none | Create, Update, Delete of the Manifest behind an object | manifest controller | |
| exchanger, sockets, generated clients, utilities | almost none | tunnelling, I/O | | not control logic |

What makes each part correct: the scheduler forgets no spec and no cluster
event, no late goroutine overwrites a newer decision, and no cycle is bound
without the permission its plugins asked for; the deployer brings every change
of a Subscription, of a feed and of an override to the child clusters, whatever
order caches, workers and faults come in; a deletion ends and leaves nothing
behind; a feed is not taken away under a Subscription; a child cluster gets an
answer it can use, and is called unknown exactly when it is silent; retries
repeat nothing harmful. `PROJECT.json` lists the hazards at their lines and the
properties that would catch them.

## 2. Modules

| module | what it models |
|---|---|
| `Scheduler`, `MCScheduler` | clusternet-scheduler: two informers, handlers, queue, cycle, binding goroutines, restart |
| `SchedulerGrowth` | `Scheduler` with the history variable `growing`: clusters have so far only become eligible |
| `SchedulerProofs` | theorems about `Scheduler` and `SchedulerGrowth` |
| `ParallelFilter` | the parallel filter inside a scheduling cycle: goroutines, shared counter, cancellation, sampling, rotation |
| `ParallelFilterProofs` | theorems about `ParallelFilter` |
| `Permit` | what the permit phase promises, abstractly |
| `PluginRuntime`, `MCPluginRuntime` | the scheduling framework: extension points, reservations, waiting Subscriptions, timers; implements `Permit` |
| `PluginRuntimeProofs` | theorems about `PluginRuntime` and the refinement of `Permit` |
| `BaseSync`, `MCBaseSync` | subscription controller and the deployer's Subscription-to-Base half |
| `BaseSyncProofs` | theorems about `BaseSync` |
| `DescSync`, `MCDescSync` | base, manifest and description controllers, the deployer's Base-to-Description half, generic deployer, pruning goroutines, child cluster |
| `DescSyncProofs` | theorems about `DescSync` |
| `FeedSync`, `MCFeedSync` | one feed with its overrides and its Subscriptions: manifest and helmchart controllers, localizer with its two controllers, feed protection and removal, shadow API |
| `FeedSyncProofs` | theorems about `FeedSync` |
| `HelmSync`, `MCHelmSync` | Description of charts to HelmReleases to Helm releases, by hub or agent; secret controller |
| `AgentSync`, `MCAgentSync` | the agent's generic deployer and Recovery |
| `AgentSyncProofs` | theorems about `AgentSync` |
| `Registration` | agent, approver and clusterregistrationrequest controller |
| `ClusterHealth` | status collector, status manager, cluster lifecycle controller |
| `ClusterLife` | `Registration` and `ClusterHealth` composed |
| `ClusterLifeProofs` | theorems about `ClusterLife` |

In every module an API object has a `phase` (`absent`, `live`, `deleting`, i.e.
with a deletion timestamp, and `gone`) and, where writers race, a resource
version `rv`. The API server is external: a write gives the object a new
version, an Update of an older version is refused, a merge patch is not, an
Update that changes nothing leaves the version alone.

**Scheduler.** `subLog[s]` and `clLog` are the versions from the one the
handlers have seen last (first entry) to the one in the lister (last entry);
`SyncSubs`/`SyncClusters` append, `HandleSubEvent`/`HandleClusterEvents` remove
the first. `GetNext` is `scheduleOne` up to `Schedule`, `FilterClusters` and
`ScoreClusters` are its two reads of the cluster lister, and the end of
`ScoreClusters` is `Done(key)` and `go func()`. `Bind` is the goroutine.
A spec stands for selectors, tolerations and feeds; the hash is the spec. With
fewer than 100 clusters `numFeasibleClustersToFind` returns all of them, so
`Feasible` is a set; scores order the result and do not drop a cluster.
No reserve, permit or pre-bind plugin is registered by default; what they do is
in `PluginRuntime`.

**ParallelFilter.** `findClustersThatPassFilters` at the grain of its atomic
operations, which `Scheduler` takes as the single step `FilterClusters`. A
cluster is an index into the list, a piece a position in the search.
`TakeChunk` and `NextPiece` are client-go's `ParallelizeUntil` (external);
`FilterCluster` runs the plugins, whose answer is any of fit, unfit and error,
and does the atomic add; `StoreCluster`, `Cancel`, `UndoAdd` and
`SendErrorWithCancel` are the rest of `checkCluster`. `FinishSearch` is what
follows `Until`, and `TakeAll` the branch for a profile without filter plugins.
Searches follow each other with lists of different lengths. `MinFeasible` is
100 in the code; it is a constant so that a sample can be smaller than a list
of five.

**PluginRuntime and Permit.** `NewFramework` accepts or refuses a profile (no
bind plugin, a plugin twice, one that does not implement its extension point).
A cycle runs serially up to `RunPermitPlugins`, and then on its own, from
`GetWaitingSubscription` (the lookup in `WaitOnPermit`) through `ReceiveStatus`
and the deferred `RemoveWaitingSubscription` to `Bind`. `record[c]` is the
`waitingSubscription` cycle `c` made: plugins pending, timers running or fired,
the channel of capacity one, and `first`, the first status sent. The map is
keyed by UID, so it holds a name of a record per Subscription. `Permit` knows
only phases, the plugins that were asked and the decision; `PluginRuntime`
implements it under the mapping at its end (`PermitKept == P!Spec`). The promise
excludes cycles that `raced`: that met another cycle of their Subscription at
the map, where the code does mix them up.

**BaseSync.** One Subscription and the Base of each cluster. `subWatch` and
`baseWatch` are versions on their way to the caches. `worker` is the item in
`processNextWorkItem`; every request is a step: `InjectFinalizer` (which
changes the cached object first, as the code does), `PatchSubscriptionLabels`,
`SyncBase`, `DeleteBase`, `ReleaseSub`. `RequestFails` is any of them failing.
The base controller is the environment here (`TouchBase`, `BaseFinalized`).

**DescSync.** One Base whose feeds are Manifests, its generic Description and
the resources in the child cluster. `job` holds the workers of the base
controller and of each Manifest, `deploy` the worker of the description
controller, `prune` the pruning goroutines, which are counted per set of
resources. `populateDescriptions` is two steps, `GatherManifests` and
`SyncDescriptions`, because the listers are read at two moments and other
workers run in between. `ApplyDescription` and `OffloadDescription` are one
`SyncResource` per resource and `ReportStatus` or `ReleaseDescription`. Owner
references lead the garbage collector from a Base that is gone to its
Description (`CollectDescription`), and in `HelmSync` from the Description to
its HelmReleases.

**FeedSync.** One feed, a Manifest or a HelmChart, that is labelled with a Base
and with Subscriptions; its overrides; the Description. Template and override
values are numbered, and the Description records the template and the sequence
of overrides that went into it, so merging is abstracted and order is not. A
job of a key runs through the syncHandler of its controller (`adopt`, or
`inject` and `label`), then the handler: for an override this is the callback
into `handleManifest`/`handleHelmChart` for the feed, with the object that the
lister has. `Compute` and `SyncDescription` are `resyncBase`, again two steps;
`ProtectFeed`, `RemoveFeedFromSubscription` (one JSON patch by index) and
`RemoveFeedFinalizers` are the deletion. The code writes to cached charts and
overrides, hence `MutateChart`, `MutateFinalizers`, `MutateOverride`. Users
edit Manifests through the shadow API, whose Update reads the lister and writes
with its version (`EditTemplate`), so that an edit may be refused.
Three history variables name what the code is known not to prevent, and the
properties exclude just that: `escaped` (an override deleted before its
finalizer was stored, or live in the lister while the answer to its label patch
was deleting), `outdated` (the last resync wrote, or compared the Description
with, what the caches had left behind) and `shifted` (a list patched at an index
of another version).

**HelmSync.** One Description, its charts and the Helm releases in the child
cluster, which `mode` assigns to hub or agent (or to nobody, where the cluster
has no AppPusher). `populate` is the worker of the Description, with one
`WriteRelease` per chart, and a HelmRelease that is up to date is reconciled
inline (`job["inline"]`) next to the worker of its own controller
(`job["worker"]`). `ReconcileHelmRelease` is cut at its requests and at its Helm
operations. Some HelmReleases are `legacy`, from before `spec.releaseName`.
Helm is external: an operation succeeds, fails, or finds the name in use.

**AgentSync.** One generic Description with resources of one kind, in every
mode. Where the hub deploys, `handleDescription` of the agent is a dry run that
only starts watching; where the agent deploys, it applies or offloads. The hub
is reduced to its writes: of the Description (`HubWrites`, `HubEnds`), of the
resources it deploys or offloads (`HubSyncs`), and, for a resource that is
dropped, the order of `syncDescriptions`: the goroutine that prunes it starts
first (`StartsUpdate`, `HubPrunes`), the Update follows and is tried again after
a conflict (`HubUpdates`). A callback starts a resource controller of its own and never returns, as in the code, so a worker
that had Recovery on is `blocked` afterwards, and edits reach the child cluster
through the hub or not at all. Two history variables name what the code cannot
repair: `unseen` are resources removed when nobody watched them, `revived` those
that Recovery or a worker of the hub deployed again after the parent cluster had
begun to remove them. The code revives them in this way: the hub prunes a
resource, or offloads it; the deletion wakes Recovery; `handleResource` applies
the version that its lister has, which still has the resource and may even be
deleting; when the newer version arrives, no job has the resource on its list
any more, and the goroutine has ended. `features.go` promises otherwise: Recovery
is not to roll back what is "made explicitly from parent cluster".

**Registration, ClusterHealth, ClusterLife.** One cluster ID; every Namespace
and ServiceAccount that is created is a new number, as names are generated. The
handler of the approver is one step per object it ensures, each looked up in a
lister of its own. The agent's side is the process (down, registering, waiting,
running), the token it uses and the Secret it stores. Time in `ClusterHealth` is
what the monitor can tell: an observation is `recent` or, after
`GracePeriodPasses`, `old`. `ClusterLife` composes the two: the approver creates
the ManagedCluster that the agent reports on with the token it was given, and
a crash or restart hits both.

`PROJECT.json` maps every definition to its lines.

## 3. Runs

| run | properties | instance |
|---|---|---|
| `scheduler` | `TypeOK`, `NoLostSubscription`, `GrowingBindingsFit`, `BindFromCurrentSpec`, `SpecEventuallyBound` | 1 Subscription, 2 clusters, 2 specs, 2 binding goroutines, any 3 events of every kind |
| `parallel_filter` | `TypeOK`, `SearchComplete`, `SkipsBounded`, `SearchEnds` | 2 goroutines, lists of 1 to 5 clusters, samples of 2, any answers, any number of searches |
| `plugin_runtime` | `TypeOK`, `ReservationsReleased`, `PermitKept`, `WaitEnds` | 2 cycles of one Subscription, profiles with 2 permit and reserve plugins, with scoring, and two that are refused |
| `basesync` | `TypeOK`, `BoundClustersServed`, `DeletionCompletes` | 2 clusters; an adopted Subscription edited, re-bound and deleted, and a new one with a cluster without namespace; 4 events |
| `descsync` | `TypeOK`, `FeedsDeployed`, `NothingLeftBehind`, `DeletionCompletes` | 2 feeds; a new Base that loses feeds, one Manifest edited and its Base deleted, a Base that gets feeds and is deleted; 2 to 4 events |
| `descsync_stale` | `FeedsDeployed` (violated) | 2 Manifests edited once each |
| `feed_sync` | `TypeOK`, `OverridesApplied`, `ReferredFeedKept`, `OverrideLeavesNothing`, `DeletionsComplete` | 2 Globalizations, 1 Localization, 2 Subscriptions; seven scenarios, 2 or 3 events |
| `helm_sync` | `TypeOK`, `ReleasesPopulated`, `DeployedMeansInstalled`, `NoReleaseLeft`, `SecretOutlivesReleases`, `DeletionCompletes` | 1 chart, new and legacy HelmReleases, all modes, 2 events of every kind with the hub, 1 with the others |
| `helm_upgrade` | `ReleasesUpgraded` (violated) | 1 chart, edited once |
| `agent_sync` | `TypeOK`, `DescriptionServed`, `RecoveryRests` | 2 resources of one kind; hub deploys with Recovery (three scenarios) and without, agent deploys without and with it; 1 to 3 events |
| `cluster_life` | `TypeOK`, `ApprovedTokenBound`, `UnknownOnlyWhenSilent`, `SilentBecomesUnknown`, `ReportEndsUnknown`, `PendingIsAnswered` | 1 Namespace, 2 ServiceAccounts, one disturbance of any kind, agents that stop and start |
| `registration_retry` | `RequestIsAnswered` (violated) | one failed request |

What the passing runs show. No event, conflict, failed request or restart makes
the scheduler forget a spec, and a status is only ever written from a cycle
that ran on the stored spec; while clusters only become eligible, the final
binding is exactly the set that fits. A parallel search answers with as many
different fitting clusters as were asked for, or with all there are, or with an
error, and never hangs. A cycle that permit plugins delay is bound only with the
consent of all of them, is never left waiting, and keeps no reservation when it
fails. The hub brings bindings and feeds to the Bases, and the contents of feeds
and overrides to the Description and the child cluster, with Helm or without;
deletion of Subscriptions, Bases, feeds, overrides and Descriptions ends, takes
away what was deployed, and respects the Subscriptions that still list a feed.
The agent's Recovery, working from a lister that may be behind, comes to rest;
what the Description has is then deployed as it says, and what it has dropped,
or had when it was deleted, is gone unless it was `revived`. A registration request is answered with a
token that is bound, a silent cluster becomes Unknown and one that reports does
not stay so.

What the violated properties show. These are runs in which the code does
something other than its comments say (the findings in `PROJECT.json` quote
them):

* `descsync_stale`: two workers run `populateDescriptions` for one Base; the
  one with older contents writes last, with a current version.
* `helm_upgrade`: a deployed release is looked up under the name of the
  HelmRelease and installed under that of the chart, so it is never found, and
  upgrades end in a failed installation.
* `registration_retry`: the answer to a request is written into the cached
  object first; when `UpdateStatus` fails, the retry takes the request for
  answered and stops.

The passing runs leave out the events that lead to the first two, and exclude
the third by name (`AnswerLost`). They also leave out, or exclude by a history
variable, further behaviours that were met on the way and are known to go wrong;
each is a hazard in `PROJECT.json` with a note: bound clusters that are deleted,
tainted or relabelled; two cycles of a Subscription at the waiting map; feeds
edited and restored before the scheduler hashes them; a spec edited while the
UID label is patched; Bases that are not in the lister yet; a feed removed and
subscribed again while a pruning goroutine is late; finalizers that stay in the
cache when their Update fails; lists patched at an old index; overrides that
escape; resources that are `revived`; resources dropped where the agent deploys and nobody prunes; agent workers
blocked by their callback; resources removed while no controller watches; the
status of a HelmRelease that two reconciliations of the hub write. This
is why `BaseSync` has separate events `edit` and `revert`, why the second
scenario of `basesync` has no edits, and why `DescSync` tells `grow`, `shrink`
and `swap` apart.

**Bounds.** `MaxEvents` (`MaxFaults` in `Registration`) bounds what users, other
components and faults do; what the modelled controllers do is not bounded. Two
to four events are enough for every pair of racing writers with a fault or a
restart between them; the findings above need one or two. A scenario is a
starting state with the kinds of events that may follow; the scenarios of a
module are chosen so that, together, every event meets the actions it races,
while no single run has to combine all of them. In `ParallelFilter` nothing is
bounded but the list: with five clusters a chunk holds two pieces, there are
more chunks than goroutines, and a search can overshoot, fail and be stopped at
once; the proofs cover the rest. `Binder` bounds goroutines alive at once: two
already race each other, and a third repeats the second. `MaxCycles` is two for
the same reason. `MaxPrune` bounds pruning goroutines for the same resources:
the code starts another at every retry of a conflicting Update, without limit.
A Subscription in `Scheduler` has no state in common with another one but the
single cycle, hence one Subscription; `SchedulerProofs` covers any number.
`MCScheduler` removes the symmetry of clusters and goroutines by hand
(`Canonical`: the first cluster to join is c1, b2 is only used while b1 is
busy), because TLC's own symmetry is not sound for liveness, and extends
`SchedulerGrowth` for `GrowingBindingsFit`. `HelmSync` is the one component
without theorems, so its safety properties were also checked without liveness
(`Spec` for `FairSpec`) and with more events: any three where the hub deploys
and any two where the agent does, and up to five of selected kinds. Three are
needed for an earlier success to be written over a later failure of Helm, which
`DeployedMeansInstalled` excludes; nothing else was found. Runs of `DescSync` that
delete the Base start from a deployed one: from a Base that is still unknown to
the cache, handleBase can release it and then, still with the old cached
object, create its Description again and again until the watch catches up,
which has no bound. All instances check no deadlock, since the system is at rest
when every event has been handled.

**Fairness.** `FairSpec` assumes that the informers deliver, that workers,
goroutines, timers and the scheduling loop that can run do run (the Go scheduler
and client-go's work queue guarantee it; delays of rate limiting are finite),
that the garbage collector finishes, and in `BaseSync` that the base controller
does. In `Scheduler` `GetNext` is strongly fair: the queue is first-in
first-out, and a key is only unavailable while a cycle is running. In
`ClusterLife` a heartbeat is strongly fair: it is refused only when the monitor
wrote in between, which it does at most once a second, and the agent retries
with the refreshed object. Nothing is assumed of users, plugins, clusters and
faults, and nobody has to start an agent that is down.

**Mutants.** Every property of a passing run has a mutant of the code that
breaks it: the operators whose comment begins with "mutant" stand next to the
definition they replace and are used by nothing else.

## 4. Proofs

`SchedulerProofs` proves, from the assumptions in `Scheduler` (selectors are
sets of labels, bounds are naturals, `None` is not a spec, a cycle or a
binding), for any number of Subscriptions, clusters, specs, goroutines and
events:

* `TypeCorrect`: `Spec => []TypeOK`.
* `BindsAreCurrent`: `Spec => BindFromCurrentSpec`. A goroutine writes a
  Subscription only if the version it read is the stored one; that the spec is
  the same too needs the invariant `Coherent`.
* `Inductive` and `NothingLost`: `Spec => []NoLostSubscription`.
* `GrowingBindings`: `GrowSpec => []GrowingBindingsFit`. While clusters only
  join and lose their taints, a Subscription that the scheduler is done with is
  bound to exactly the clusters that fit it.

The invariant is `IndInv == TypeOK /\ Coherent /\ Existing /\ Followed`.
`NoLostSubscription` alone is not inductive: it speaks of the API server, while
the cycle and the goroutines act on versions they read earlier.
`Coherent` says that every version in a log, in the cycle or in a goroutine is
at most as new as the one in the API server, and equal to it in spec and hash
when the resource versions are equal: this is what makes an accepted write
current. `Existing` says that a live Subscription was never absent from what
was read of it. `Followed` is the heart: for every Subscription whose spec is
not scheduled, and for what the lister knows of it, the key is in flight or a
change that enqueues it is still in the log. The handlers, the informer steps
and the restart each have a lemma that carries it on.

`GrowingBindingsFit` compares the end of two independent streams of events. Its
invariant `GrowthInv` holds on top of `IndInv` for as long as `growing` does.
`Chain` says that along the log of clusters, and from there to the API server,
clusters have only become eligible, so that whoever filtered an earlier list has
nothing to take back. `Specified`, `Replayed` and `Mapped` are about the
handlers of the clusters, which enqueue by the specs in `subscribersMap`: it
holds the spec that the Subscription handlers were told of last, and if the
lister's differs, a change that enqueues the Subscription is still in its log.
`AllFit` is one half of the result: what is bound, or about to be bound by a
cycle or a goroutine, fits, and a goroutine that can still write includes what
it would overwrite. `AllCovered` is the other: every cluster that the handlers
were told of and that fits is in the binding, or the queue, the cycle or a
goroutine carries the Subscription, or a change of it is still in the log. In a
settled state the logs are read and nobody is at work, and both halves meet.

`ParallelFilterProofs` proves, for any number of goroutines and clusters, any
percentage and any minimum (from: a finite set of goroutines that is not empty,
sizes that are positive, `None` is no index):

* `FilterTypeCorrect`: `Spec => []TypeOK`.
* `FilterComplete`: `Spec => []SearchComplete`.
* `FewSkipped`: `Spec => []SkipsBounded`.

`SearchComplete` speaks only of searches that have ended, so the invariant
`IndInv` adds `Running`, what holds while the goroutines run: `Chunks` (they
hold disjoint pieces), `Ahead` (what is unknown is ahead of a goroutine unless
the search was cancelled), `Causes` (a search is cancelled because it was
stopped, failed or is full), `Counted` (once the places are gone, the counter
exceeds them by exactly the number of goroutines that have yet to take their
one back, so it never falls below), `Places` (every counted place is filled or
about to be filled by one goroutine) and `Contents` (no cluster has two places,
and one that fits has one while some are free). The lemmas on the way show that
the rotating index visits each cluster once (`ClusterFacts`, from `ModInj` and
`ModOnto`) and that the sample is never empty and never larger than the list
(`WantFacts`).

For `SkipsBounded`, `SkipInv` adds what the goroutines have left undone
(`Window`): there are rests `lo[w]..hi[w]-1`, one per goroutine and none longer
than a chunk, such that each piece handed out before the search was cancelled is
done or in a rest; and there is a goroutine `head`, the last to take a chunk in
time, below whose rest lie everything that is done and all other rests. The
rests are only claimed to exist, because after a cancellation a goroutine may
take another chunk and drop it, and the state no longer tells what it left
before. When the search ends, the number of places and refusals is at most
`lo[head]` (`ProcessedBelow`), the index advances by that number (`Rotation`),
and what it passes over is in the rests of the others (`RestsCount`).

`PluginRuntimeProofs` proves, for any number of cycles and Subscriptions and any
profile of plugins:

* `RuntimeTypeCorrect`: `Spec => []TypeOK`, with the addition that a cycle that
  has started has a Subscription, and one that receives has a record.
* `ReservationsAreReleased`: `Spec => []ReservationsReleased`, from
  `ReserveInv`, which says for every step of a cycle what it holds there.
* `PermitIsKept`: `Spec => PermitKept`, the safety part of the refinement, step
  by step. `PermitInv` relates the record of a cycle that nobody raced to its
  channel, to the first answer (`first`) and to the plugins that are pending:
  such a cycle finds its own record or made none, and nobody else has taken an
  answer from its channel, so that what is there is the first answer; a record
  that is undecided has been sent nothing, and its timers go off only while a
  plugin is pending; the map has only records of cycles in the permit phase.
  Every step then maps to one step of `Permit` or to a stuttering step.

`BaseSyncProofs` proves, for any number of clusters and events:

* `BaseSyncTypeCorrect`: `Spec => []TypeOK`.
* `UpdatesReachBases`: `Spec => []BoundClustersServed`, if every scenario is
  `Orderly` (`MCBaseSync` has TLC evaluate that its scenarios are): feeds are not
  restored before the scheduler has hashed the ones in between, and a
  Subscription that the hub still adopts is neither edited nor relisted. Both
  are hazards of the code, not simplifications of the proof: without either
  hypothesis TLC finds an idle hub with a Base that is behind.

`BoundClustersServed` speaks of a hub at rest. The invariant says what is still
to come while it is not: `SubInv` and `BaseInv` order the cached version, the
versions under way and the stored one, so that one version number means one
version; `FeedInv` says that feeds never go back on their way to a Base, which
is what makes a later write of an older item impossible; and `PendInv` says for
every cluster that the cached Subscription is bound to that the Subscription is
in the queue or will be, or the worker has yet to come to that cluster, or its
Base is up to date, or the Base goes and its Delete event will bring it back.

`ClusterLifeProofs` proves, for any bounds on Namespaces, accounts, faults and
time:

* `ClusterLifeTypeCorrect`: `Spec => []TypeOK`.
* `ApprovalIsBound`: `Spec => []ApprovedTokenBound`. `AnswerInv` says that no
  version of a request that the hub still reads asks for anything once the
  request is answered, so that no second handler makes new accounts and binds
  the roles to them.
* `UnknownIsDeserved`: `Spec => UnknownOnlyWhenSilent`, from `ListerInv`: a copy
  that no write has overtaken is a copy of what is stored.

The two components share no variable but the faults, so each has its own
invariant and a frame lemma for the actions of the other.

`AgentSyncProofs` proves, for any number of resources, kinds and events:

* `AgentSyncTypeCorrect`: `Spec => []TypeOK`. `TypeOK` alone is not inductive: a
  content counts the edits, so the invariant bounds it by the events that are
  left.
* `ChildClusterServed`: `Spec => []DescriptionServed`, if every scenario is
  `Orderly` (evaluated by TLC for the scenarios of `MCAgentSync`). It speaks of
  every resource, wanted or not. `DescriptionServed` itself names what the code
  leaves wrong: a wanted resource that is missing since nobody watched
  (`unseen`); an unwanted one that was `revived`; and one that was dropped where
  the agent deploys, because the hub has no credentials there and nobody prunes.
  `Orderly` excludes one more: where the agent deploys under Recovery, a resource
  whose first request failed has no controller of its own while the worker is
  blocked, so that its drift is noticed only by the controller of another
  resource of its kind. TLC confirms the invariant on two resources, of one kind
  and of two, with any two events that are orderly, in all modes.

`VersionInv` says that no version in a cache, a watch or a job is newer than the
stored one, and that one version number is one version; `JobInv` that a change
the worker has not read is in the queue, and that a worker blocks for a
controller; `LiveInv` that every resource of a live Description has the right
contents, or a worker, the hub, a resource controller or an event under way will
still come to it, or it is about to be dropped; `PruneInv` that the hub prunes
only what is being removed; and `GoneInv` that what is being removed, and was not
deployed again meanwhile, is gone or still on the list of whoever removes it: the
pruning goroutine or the offloading worker of the hub, or that of the agent,
which keeps the finalizer until its list is empty.

`DescSyncProofs` proves, for any number of feeds, events and pruning goroutines:

* `DescSyncTypeCorrect`: `Spec => []TypeOK`. Contents count edits, so `TypeInv`
  bounds every content by the events that are left.
* `DeletionLeavesNothing`: `Spec => []NothingLeftBehind`, if every scenario is an
  `OrderlyDeletion`: a Base that may be deleted loses no feeds before, and gets
  more only if it was deployed and nothing is edited or restarted meanwhile.
* `UpdatesReachChild`: `Spec => []FeedsDeployed`, if every scenario is
  `OrderlyUpdates`: a Base is deployed, possibly loses feeds, is deleted and
  survives restarts of the hub (`OnlyShrinks`), or the only Manifest of a
  deployed Base is edited (`OnlyEdits`), or a deployed Base gets more feeds
  (`OnlyGrows`), all with requests that fail.

Two invariants carry both results. `VersionInv` says that one version number is
one version and that the caches follow the API server; `PhaseInv` that nobody
acts on a deletion before there is one. For the deletion, `LeftInv` says that
every worker about to write the Description has at least the feeds that are in
it, and that whatever the child cluster has, or a worker with an old version may
still apply, is named by the stored Description: it is released only by a worker
whose version is the last one, and that worker offloads everything. For the
updates, `UpdateInv` has a part for each class of scenarios: with feeds that only
leave, whatever anybody has is at least what the Base still has, nobody prunes a
feed of it, and its worker is busy until there is a Description (`ShrinkInv`); with one Manifest its only worker
writes ever newer contents (`EditInv`); with feeds that are only added the only
worker of the Base does the same (`GrowInv`); and the cached Description is
deployed, or a worker or an event under way will deploy it (`DeployInv`).

`MCDescSync` has TLC evaluate both hypotheses for its scenarios. They are
hazards of the code, not simplifications of the proof. Outside of
`OrderlyUpdates` TLC finds an idle hub with a child cluster that is behind:
workers gather the Manifests first and write the Description later, so that two
of them with different contents (two edited Manifests, which `descsync_stale`
shows; an edit with a restart, a feed that is added or one that is removed;
a Base that grows while it is first deployed) leave the older contents. Outside
of `OrderlyDeletion` a pruning goroutine is overtaken by the worker that applies
the old version again, and the resource outlives the Base.

`FeedSyncProofs` proves, for any number of overrides, Subscriptions, scenarios
and events (from: objects of different kinds are different, overrides are
finitely many and those of a kind have different priorities):

* `FeedSyncTypeCorrect`: `Spec => []TypeOK`. Revisions count edits, so the
  invariant bounds them by the events that are left.
* `FeedsOutliveReferences`: `Spec => []ReferredFeedKept`.
* `OverridesLeaveNothing`: `Spec => OverrideLeavesNothing`.
* `NoChangeIsLost`: `Spec => []OverridesApplied`.

For the feed, `FeedInv` says that nobody acts on its deletion before there is
one, and `KeptInv` that the worker that removes it from the Subscriptions has
still to patch every one that is known to list it, until it releases the
finalizers. For the overrides, `ForwardInv` orders the versions in cache, watch
and jobs behind the stored one, so that a callback with an older object cannot
undo a newer one; `LastInv` says that what the informers have yet to deliver
ends in what is stored; `LabelInv` that an override the feed cannot see yet is
queued or at work; `OrderInv` that every list of overrides anybody computed is
in the order of the localizer, Globalizations first and then by priority;
`LeaveInv` that an override about to be released is in no Description; and
`FreshInv` is the heart: unless `outdated` or an override `escaped`, the
Description shows of every override, and of the template, what the caches have,
or a worker will come to it. `OverridesApplied` compares with the result of
sorting, so that there is exactly one list in the right order needs a proof: it
is defined by rank, the number of overrides that precede.

Only model-checked: liveness and everything that needs fairness (the prover does
not do `ENABLED`; `DeletionCompletes` and its likes), and all of `HelmSync`.
Every other invariant and action property that a run checks is also a theorem.
No module has a RECURSIVE operator.

## 5. Plan

What is left is to prove more about `HelmSync`: `TypeOK`, `ReleasesPopulated`
and `DeployedMeansInstalled`, the last as it stands, with what it supposes of
the hub.

## 6. Not modelled

* Generated clients, informers and listers: external, modelled by caches and
  watches.
* The exchanger, the proxy registry and the sockets controller: byte streams
  inside a library, no state that a controller reads.
* The shadow API beyond Create, Update and Delete of one Manifest: Get, List
  and Watch only read, DeleteCollection is a series of deletes, and the handler
  of custom resources and the discovery of groups route requests.
* Flags, wiring, metrics, logging, events, formatting; network discovery and the
  contents of the status that the agent collects; chart repositories and OCI
  registries.
* Changes of the sync mode of a running cluster: hub and agent read it from
  different places (`Status.AppPusher` and `Spec.SyncMode` against the flags of
  the agent), and which of them deploys in between is not modelled. A cluster
  that is lost is modelled for charts (`HelmSync`), not for generic Descriptions.
* The annotation `clusternet.io/autoupdate`, with which a user may keep the hub
  from updating a role binding that exists (`src/pkg/utils/rbac.go:88` and
  `:158`): the bindings of `Registration` carry the `true` that the approver
  creates them with.
* Contents of templates, selectors and tolerations are values that are equal or
  not.
