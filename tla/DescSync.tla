------------------------------ MODULE DescSync ------------------------------
(***************************************************************************)
(* clusternet-hub, from a Base to the resources in its child cluster: the  *)
(* base controller with handleBase, the manifest controller with           *)
(* handleManifest and resyncBase, populateDescriptions and                 *)
(* syncDescriptions, which both controllers run, the goroutines that prune *)
(* feeds, and the description controller with the generic deployer.        *)
(*                                                                         *)
(* One Base, whose feeds are Manifests, and its generic Description; the   *)
(* cluster is deployable by the hub.  Informer caches and watches are as   *)
(* in BaseSync.  The work queues of the three controllers are one set of   *)
(* keys: each key is processed by one worker at a time, different keys     *)
(* concurrently.  The contents of a Manifest are numbered from 1; 0 says   *)
(* that a resource is not in a Description or not in the child cluster.    *)
(***************************************************************************)
EXTENDS Integers, Sequences

CONSTANTS
  Feed,       \* Manifests
  BaseKey,    \* keys in the work queues of the base controller ...
  DescKey,    \* ... and of the description controller
  None,       \* no job
  Scenario,   \* how behaviours start, and the events they may see
  MaxEvents,  \* bound: environment events in a behaviour
  MaxPrune    \* bound: pruning goroutines alive for the same resources

EventKind == {"edit", "grow", "shrink", "swap", "delbase", "apierr", "restart"}

ASSUME ConfigAssumption ==
  /\ MaxEvents \in Nat
  /\ Scenario \subseteq [feeds: (SUBSET Feed) \ {{}}, settled: BOOLEAN,
                          kinds: SUBSET EventKind, left: 0..MaxEvents]
  /\ BaseKey # DescKey /\ {BaseKey, DescKey} \cap Feed = {}
  /\ MaxPrune \in Nat \ {0}

VARIABLES
  base, manifest, desc,                 \* the API server
  baseCache, manifestCache, descCache,  \* the informer caches
  baseWatch, manifestWatch, descWatch,  \* versions on their way to them
  queue,     \* keys in the work queues
  job,       \* what the workers of BaseKey and of each Manifest are doing
  deploy,    \* what the worker of DescKey is doing
  prune,     \* number of pruning goroutines for each set of resources
  child,     \* contents of the resources in the child cluster
  scenario   \* the scenario, with the number of events that are left

apiVars   == <<base, manifest, desc>>
cacheVars == <<baseCache, manifestCache, descCache>>
watchVars == <<baseWatch, manifestWatch, descWatch>>
workVars  == <<queue, job, deploy, prune>>
vars == <<apiVars, cacheVars, watchVars, workVars, child, scenario>>

Content == 0 .. MaxEvents + 1
Raw == [Feed -> Content]
Base == [phase: {"absent", "live", "deleting", "gone"}, rv: Nat,
         uidLabel: BOOLEAN, feeds: SUBSET Feed]
Manifest == [rv: Nat, content: Content \ {0}, labelled: BOOLEAN]
Description == [phase: {"absent", "live", "deleting"}, rv: Nat, raw: Raw,
                status: {"none", "ok", "failed"}]
Job == [pc: {"label", "handle", "unlabel", "gather", "sync", "release"},
        base: Base, rv: Nat, want: Raw]
Deploy == [desc: Description, todo: SUBSET Feed, failed: BOOLEAN]

ASSUME NoneAssumption == None \notin Job /\ None \notin Deploy

TypeOK ==
  /\ base \in Base /\ baseCache \in Base /\ baseWatch \in Seq(Base)
  /\ manifest \in [Feed -> Manifest] /\ manifestCache \in [Feed -> Manifest]
  /\ manifestWatch \in [Feed -> Seq(Manifest)]
  /\ desc \in Description /\ descCache \in Description /\ descWatch \in Seq(Description)
  /\ queue \subseteq Feed \cup {BaseKey, DescKey}
  /\ job \in [Feed \cup {BaseKey} -> Job \cup {None}]
  /\ deploy \in Deploy \cup {None}
  /\ prune \in [SUBSET Feed -> 0..MaxPrune]
  /\ child \in Raw
  /\ scenario.left \in 0..MaxEvents

Nothing == [f \in Feed |-> 0]
In(raw) == {f \in Feed : raw[f] # 0}
NoDesc == [phase |-> "absent", rv |-> 0, raw |-> Nothing, status |-> "none"]
NewBase == [phase |-> "live", rv |-> 1, uidLabel |-> FALSE, feeds |-> scenario.feeds]
NewManifest == [rv |-> 1, content |-> 1, labelled |-> FALSE]
FirstRaw == [f \in Feed |-> IF f \in scenario.feeds THEN 1 ELSE 0]

(* the deployer has just created the Base, of Manifests that exist *)
InitNew ==
  /\ base = NewBase
  /\ baseCache = [NewBase EXCEPT !.phase = "absent", !.rv = 0]
  /\ baseWatch = <<base>>
  /\ manifest = [f \in Feed |-> NewManifest]
  /\ desc = NoDesc
  /\ child = Nothing

(* the Base has been deployed some time ago *)
InitSettled ==
  /\ base = [NewBase EXCEPT !.uidLabel = TRUE]
  /\ baseCache = base
  /\ baseWatch = <<>>
  /\ manifest = [f \in Feed |-> [NewManifest EXCEPT !.labelled = f \in scenario.feeds]]
  /\ desc = [phase |-> "live", rv |-> 1, raw |-> FirstRaw, status |-> "ok"]
  /\ child = FirstRaw

Init ==
  /\ scenario \in Scenario
  /\ IF scenario.settled THEN InitSettled ELSE InitNew
  /\ manifestCache = manifest /\ manifestWatch = [f \in Feed |-> <<>>]
  /\ descCache = desc /\ descWatch = <<>>
  /\ queue = {}
  /\ job = [k \in Feed \cup {BaseKey} |-> None]
  /\ deploy = None
  /\ prune = [s \in SUBSET Feed |-> 0]

Event(kind) ==
  /\ kind \in scenario.kinds /\ scenario.left > 0
  /\ scenario' = [scenario EXCEPT !.left = @ - 1]

(* every effective write gives the object a new version, and is watched *)
WriteBase(o) ==
  /\ base' = [o EXCEPT !.rv = base.rv + 1]
  /\ baseWatch' = Append(baseWatch, base')
KeepBase == UNCHANGED <<base, baseWatch>>

WriteDesc(o) ==
  /\ desc' = [o EXCEPT !.rv = desc.rv + 1]
  /\ descWatch' = Append(descWatch, desc')
KeepDesc == UNCHANGED <<desc, descWatch>>

(* writes the Manifests that the new version of the function changes *)
WriteManifests(new) ==
  LET Changed == {f \in Feed : new[f] # manifest[f]} IN
  /\ manifest' = [f \in Feed |-> IF f \in Changed
                                 THEN [new[f] EXCEPT !.rv = @ + 1] ELSE manifest[f]]
  /\ manifestWatch' = [f \in Feed |-> IF f \in Changed
                         THEN Append(manifestWatch[f], manifest'[f]) ELSE manifestWatch[f]]
KeepManifests == UNCHANGED <<manifest, manifestWatch>>

(* a merge patch of the label that refers to the Base *)
PatchManifestLabels(fs, value) ==
  WriteManifests([f \in Feed |-> IF f \in fs THEN [manifest[f] EXCEPT !.labelled = value]
                                 ELSE manifest[f]])

-----------------------------------------------------------------------------
(* The subscription side of the deployer, users, garbage collection.       *)

EditFeeds(fs) ==
  /\ base.phase = "live" /\ fs # {} /\ fs # base.feeds
  /\ Event(CASE base.feeds \subseteq fs -> "grow"
             [] fs \subseteq base.feeds -> "shrink"
             [] OTHER -> "swap")
  /\ WriteBase([base EXCEPT !.feeds = fs])
  /\ KeepManifests /\ KeepDesc /\ UNCHANGED <<cacheVars, workVars, child>>

EditManifest(f) ==
  /\ Event("edit")
  /\ WriteManifests([manifest EXCEPT ![f].content = @ + 1])
  /\ KeepBase /\ KeepDesc /\ UNCHANGED <<cacheVars, workVars, child>>

(* deleteBase removes the label from the Manifests that its lister has     *)
(* with the label, then deletes the Base: one step here, since a worker    *)
(* that handles the live Base may label the Manifests again in any case    *)
DeleteBase ==
  /\ base.phase = "live"
  /\ Event("delbase")
  /\ PatchManifestLabels({f \in Feed : manifestCache[f].labelled}, FALSE)
  /\ WriteBase([base EXCEPT !.phase = "deleting"])
  /\ KeepDesc /\ UNCHANGED <<cacheVars, workVars, child>>

(* the garbage collector deletes a Description whose owner is gone *)
CollectDescription ==
  /\ base.phase = "gone" /\ desc.phase = "live"
  /\ WriteDesc([desc EXCEPT !.phase = "deleting"])
  /\ KeepBase /\ KeepManifests /\ UNCHANGED <<cacheVars, workVars, child, scenario>>

-----------------------------------------------------------------------------
(* The informers and the event handlers.                                   *)

Exists(o) == o.phase \in {"live", "deleting"}

FindObsoletedFeeds(old, new) == old.feeds \ new.feeds

(* addBase, updateBase and deleteBase of the base controller; updateBase   *)
(* of the manifest controller, for the feeds that are obsolete             *)
BaseEventEnqueues(old, new) ==
  LET changed == old.uidLabel # new.uidLabel \/ old.feeds # new.feeds IN
  (IF ~Exists(old) \/ new.phase # "live" \/ changed THEN {BaseKey} ELSE {})
  \cup (IF Exists(old) /\ new.phase = "live" THEN FindObsoletedFeeds(old, new) ELSE {})

SyncBase ==
  /\ baseWatch # <<>>
  /\ baseCache' = Head(baseWatch) /\ baseWatch' = Tail(baseWatch)
  /\ queue' = queue \cup BaseEventEnqueues(baseCache, Head(baseWatch))
  /\ UNCHANGED <<apiVars, manifestCache, descCache, manifestWatch, descWatch,
                 job, deploy, prune, child, scenario>>

(* updateManifest: labels alone do not enqueue *)
ManifestEventEnqueues(f, old, new) == IF old.content # new.content THEN {f} ELSE {}

SyncManifest(f) ==
  /\ manifestWatch[f] # <<>>
  /\ LET new == Head(manifestWatch[f]) IN
       /\ manifestCache' = [manifestCache EXCEPT ![f] = new]
       /\ queue' = queue \cup ManifestEventEnqueues(f, manifestCache[f], new)
  /\ manifestWatch' = [manifestWatch EXCEPT ![f] = Tail(@)]
  /\ UNCHANGED <<apiVars, baseCache, descCache, baseWatch, descWatch,
                 job, deploy, prune, child, scenario>>

(* mutant: updateDescription does not look at the deletion timestamp *)
DescRawOnly(old, new) ==
  (IF ~Exists(old) \/ old.raw # new.raw THEN {DescKey} ELSE {})
  \cup (IF ~Exists(new) /\ Exists(baseCache) THEN {BaseKey} ELSE {})

(* the handlers of the description controller; deleteDescription of the    *)
(* base controller *)
DescEventEnqueues(old, new) ==
  (IF new.phase # "live" \/ ~Exists(old) \/ old.raw # new.raw THEN {DescKey} ELSE {})
  \cup (IF ~Exists(new) /\ Exists(baseCache) THEN {BaseKey} ELSE {})

SyncDesc ==
  /\ descWatch # <<>>
  /\ descCache' = Head(descWatch) /\ descWatch' = Tail(descWatch)
  /\ queue' = queue \cup DescEventEnqueues(descCache, Head(descWatch))
  /\ UNCHANGED <<apiVars, baseCache, manifestCache, baseWatch, manifestWatch,
                 job, deploy, prune, child, scenario>>

-----------------------------------------------------------------------------
(* The base controller and the manifest controller.                        *)

At(k, pc) == job[k] # None /\ job[k].pc = pc
Done(k) == job' = [job EXCEPT ![k] = None] /\ UNCHANGED queue
Requeue(k) == job' = [job EXCEPT ![k] = None] /\ queue' = queue \cup {k}
GoTo(k, pc, b) == job' = [job EXCEPT ![k].pc = pc, ![k].base = b] /\ UNCHANGED queue
Start(k, pc, b, rv) ==
  job' = [job EXCEPT ![k] = [pc |-> pc, base |-> b, rv |-> rv, want |-> Nothing]]

(* syncHandler of the base controller *)
GetBase ==
  /\ BaseKey \in queue /\ job[BaseKey] = None
  /\ queue' = queue \ {BaseKey}
  /\ IF Exists(baseCache)
     THEN Start(BaseKey, IF baseCache.uidLabel \/ baseCache.phase = "deleting"
                         THEN "handle" ELSE "label", baseCache, baseCache.rv)
     ELSE UNCHANGED job
  /\ UNCHANGED <<apiVars, cacheVars, watchVars, deploy, prune, child, scenario>>

PatchBaseLabels ==
  /\ At(BaseKey, "label")
  /\ IF Exists(base)
     THEN /\ IF base.uidLabel THEN KeepBase ELSE WriteBase([base EXCEPT !.uidLabel = TRUE])
          /\ GoTo(BaseKey, "handle", base')
     ELSE KeepBase /\ Requeue(BaseKey)
  /\ KeepManifests /\ KeepDesc
  /\ UNCHANGED <<cacheVars, deploy, prune, child, scenario>>

(* handleBase of a Base that is deleting: an error for as long as the      *)
(* lister has its Description                                              *)
HandleDeletingBase ==
  /\ At(BaseKey, "handle") /\ job[BaseKey].base.phase = "deleting"
  /\ IF Exists(descCache)
     THEN /\ IF descCache.phase = "live" /\ desc.phase = "live"
             THEN WriteDesc([desc EXCEPT !.phase = "deleting"]) ELSE KeepDesc
          /\ Requeue(BaseKey)
     ELSE KeepDesc /\ GoTo(BaseKey, "release", job[BaseKey].base)
  /\ KeepBase /\ KeepManifests
  /\ UNCHANGED <<cacheVars, deploy, prune, child, scenario>>

(* the Update that removes the finalizer, and the Base with it *)
ReleaseBase ==
  /\ At(BaseKey, "release")
  /\ IF Exists(base) /\ base.rv = job[BaseKey].base.rv
     THEN WriteBase([base EXCEPT !.phase = "gone"]) /\ Done(BaseKey)
     ELSE KeepBase /\ Requeue(BaseKey)
  /\ KeepManifests /\ KeepDesc
  /\ UNCHANGED <<cacheVars, deploy, prune, child, scenario>>

AddLabelsToReferredFeeds ==
  /\ At(BaseKey, "handle") /\ job[BaseKey].base.phase = "live"
  /\ PatchManifestLabels(job[BaseKey].base.feeds, TRUE)
  /\ GoTo(BaseKey, "gather", job[BaseKey].base)
  /\ KeepBase /\ KeepDesc
  /\ UNCHANGED <<cacheVars, deploy, prune, child, scenario>>

(* the Base that a label of the Manifest names, by its UID label *)
RefersToBase(f) == manifestCache[f].labelled /\ Exists(baseCache) /\ baseCache.uidLabel

(* syncHandler and handleManifest: the label of a Base that the lister has *)
(* is pruned, or leads to that Base (resyncBase), deleting or not          *)
GetManifest(f) ==
  /\ f \in queue /\ job[f] = None
  /\ queue' = queue \ {f}
  /\ IF RefersToBase(f)
     THEN Start(f, IF f \in baseCache.feeds THEN "gather" ELSE "unlabel",
                baseCache, manifestCache[f].rv)
     ELSE UNCHANGED job
  /\ UNCHANGED <<apiVars, cacheVars, watchVars, deploy, prune, child, scenario>>

(* the Update of the Manifest without the label *)
PruneLabels(f) ==
  /\ At(f, "unlabel")
  /\ IF manifest[f].rv = job[f].rv
     THEN PatchManifestLabels({f}, FALSE) /\ Done(f)
     ELSE KeepManifests /\ Requeue(f)
  /\ KeepBase /\ KeepDesc
  /\ UNCHANGED <<cacheVars, deploy, prune, child, scenario>>

(* mutant: the feeds are listed by the label, so some may be missing *)
GatherLabelled(k) ==
  /\ At(k, "gather")
  /\ job' = [job EXCEPT ![k].pc = "sync",
               ![k].want = [f \in {g \in Feed : manifestCache[g].labelled} |->
                              manifestCache[f].content]]
  /\ UNCHANGED <<apiVars, cacheVars, watchVars, queue, deploy, prune, child, scenario>>

(* populateDescriptions collects the contents of the feeds ... *)
GatherManifests(k) ==
  /\ At(k, "gather")
  /\ job' = [job EXCEPT ![k].pc = "sync",
               ![k].want = [f \in Feed |-> IF f \in job[k].base.feeds
                                           THEN manifestCache[f].content ELSE 0]]
  /\ UNCHANGED <<apiVars, cacheVars, watchVars, queue, deploy, prune, child, scenario>>

(* ... and syncDescriptions compares them with the Description its lister  *)
(* has then; a goroutine that prunes is started before the Update          *)
CreatesDesc == ~Exists(descCache) /\ ~Exists(desc)
UpdatesDesc(want) == descCache.phase = "live" /\ descCache.raw # want
DescUpToDate(want) == descCache.phase = "live" /\ descCache.raw = want

SyncDescriptions(k) ==
  LET want == job[k].want
      updated == UpdatesDesc(want) /\ desc.rv = descCache.rv
      obsolete == In(descCache.raw) \ In(want) IN
  /\ At(k, "sync")
  /\ IF UpdatesDesc(want) /\ obsolete # {}
     THEN prune[obsolete] < MaxPrune /\ prune' = [prune EXCEPT ![obsolete] = @ + 1]
     ELSE UNCHANGED prune
  /\ IF CreatesDesc THEN WriteDesc([NoDesc EXCEPT !.phase = "live", !.raw = want])
     ELSE IF updated THEN WriteDesc([desc EXCEPT !.raw = want])
     ELSE KeepDesc
  /\ IF CreatesDesc \/ updated \/ DescUpToDate(want) THEN Done(k) ELSE Requeue(k)
  /\ KeepBase /\ KeepManifests
  /\ UNCHANGED <<cacheVars, deploy, child, scenario>>

-----------------------------------------------------------------------------
(* The description controller with the generic deployer, and pruning.      *)

GetDescription ==
  /\ DescKey \in queue /\ deploy = None
  /\ queue' = queue \ {DescKey}
  /\ deploy' = IF Exists(descCache)
               THEN [desc |-> descCache, todo |-> In(descCache.raw), failed |-> FALSE]
               ELSE None
  /\ UNCHANGED <<apiVars, cacheVars, watchVars, job, prune, child, scenario>>

(* ApplyResourceWithRetry and DeleteResourceWithRetry of one resource *)
SyncResource(f) ==
  /\ deploy # None /\ f \in deploy.todo
  /\ deploy' = [deploy EXCEPT !.todo = @ \ {f}]
  /\ child' = [child EXCEPT ![f] = IF deploy.desc.phase = "live"
                                   THEN deploy.desc.raw[f] ELSE 0]
  /\ UNCHANGED <<apiVars, cacheVars, watchVars, queue, job, prune, scenario>>

RedeployLater == deploy' = None /\ queue' = queue \cup {DescKey}
Deployed == deploy' = None /\ UNCHANGED queue
AcceptsDesc == Exists(desc) /\ desc.rv = deploy.desc.rv

(* mutant: the errors of the resources are reported, and not returned *)
ReportOnly ==
  LET status == IF deploy.failed THEN "failed" ELSE "ok" IN
  /\ deploy # None /\ deploy.todo = {} /\ deploy.desc.phase = "live"
  /\ IF AcceptsDesc /\ desc.status # status
     THEN WriteDesc([desc EXCEPT !.status = status]) ELSE KeepDesc
  /\ Deployed
  /\ KeepBase /\ KeepManifests
  /\ UNCHANGED <<cacheVars, job, prune, child, scenario>>

(* ApplyDescription ends with an UpdateStatus ... *)
ReportStatus ==
  LET status == IF deploy.failed THEN "failed" ELSE "ok" IN
  /\ deploy # None /\ deploy.todo = {} /\ deploy.desc.phase = "live"
  /\ IF AcceptsDesc /\ desc.status # status
     THEN WriteDesc([desc EXCEPT !.status = status]) ELSE KeepDesc
  /\ IF AcceptsDesc /\ ~deploy.failed THEN Deployed ELSE RedeployLater
  /\ KeepBase /\ KeepManifests
  /\ UNCHANGED <<cacheVars, job, prune, child, scenario>>

(* mutant: the finalizer is removed although a resource was not deleted *)
ReleaseAnyway ==
  /\ deploy # None /\ deploy.todo = {} /\ deploy.desc.phase = "deleting"
  /\ IF AcceptsDesc
     THEN WriteDesc(NoDesc) /\ Deployed
     ELSE KeepDesc /\ RedeployLater
  /\ KeepBase /\ KeepManifests
  /\ UNCHANGED <<cacheVars, job, prune, child, scenario>>

(* ... and OffloadDescription with removing the finalizer *)
ReleaseDescription ==
  /\ deploy # None /\ deploy.todo = {} /\ deploy.desc.phase = "deleting"
  /\ IF AcceptsDesc /\ ~deploy.failed
     THEN WriteDesc(NoDesc) /\ Deployed
     ELSE KeepDesc /\ RedeployLater
  /\ KeepBase /\ KeepManifests
  /\ UNCHANGED <<cacheVars, job, prune, child, scenario>>

Without(fs) == [f \in Feed |-> IF f \in fs THEN 0 ELSE child[f]]

(* PruneFeedsInDescription, run by a goroutine until it succeeds *)
PruneFeeds(fs) ==
  /\ prune[fs] > 0
  /\ prune' = [prune EXCEPT ![fs] = @ - 1]
  /\ child' = Without(fs)
  /\ UNCHANGED <<apiVars, cacheVars, watchVars, queue, job, deploy, scenario>>

(* requests to the hub or the child cluster fail; a worker that labels or  *)
(* a goroutine that prunes several objects may have got part of it done    *)
RequestFails ==
  /\ Event("apierr")
  /\ \/ \E k \in DOMAIN job :
          /\ job[k] # None /\ job[k].pc # "gather" /\ Requeue(k)
          /\ IF job[k].pc = "handle" /\ job[k].base.phase = "live"
             THEN \E part \in SUBSET job[k].base.feeds : PatchManifestLabels(part, TRUE)
             ELSE KeepManifests
          /\ UNCHANGED <<deploy, child>>
     \/ /\ deploy # None
        /\ \/ \E f \in deploy.todo :
                deploy' = [deploy EXCEPT !.todo = @ \ {f}, !.failed = TRUE] /\ UNCHANGED queue
           \/ deploy.todo = {} /\ RedeployLater
        /\ KeepManifests /\ UNCHANGED <<job, child>>
     \/ \E fs \in SUBSET Feed : \E part \in SUBSET fs :
          /\ prune[fs] > 0 /\ part # fs
          /\ child' = Without(part)
          /\ KeepManifests /\ UNCHANGED <<queue, job, deploy>>
  /\ KeepBase /\ KeepDesc /\ UNCHANGED <<cacheVars, prune>>

(* another hub takes over: fresh caches, an Add event for every object *)
Restart ==
  /\ Event("restart")
  /\ baseCache' = base /\ manifestCache' = manifest /\ descCache' = desc
  /\ baseWatch' = <<>> /\ descWatch' = <<>>
  /\ manifestWatch' = [f \in Feed |-> <<>>]
  /\ queue' = Feed \cup (IF Exists(base) THEN {BaseKey} ELSE {})
                   \cup (IF Exists(desc) THEN {DescKey} ELSE {})
  /\ job' = [k \in Feed \cup {BaseKey} |-> None]
  /\ deploy' = None
  /\ prune' = [s \in SUBSET Feed |-> 0]
  /\ UNCHANGED <<apiVars, child>>

-----------------------------------------------------------------------------
Environment ==
  \/ \E fs \in SUBSET Feed : EditFeeds(fs)
  \/ \E f \in Feed : EditManifest(f)
  \/ DeleteBase
  \/ RequestFails
  \/ Restart

Informers == SyncBase \/ SyncDesc \/ \E f \in Feed : SyncManifest(f)

BaseWork ==
  \/ GetBase \/ PatchBaseLabels
  \/ HandleDeletingBase \/ ReleaseBase \/ AddLabelsToReferredFeeds
  \/ GatherManifests(BaseKey) \/ SyncDescriptions(BaseKey)

ManifestWork(f) ==
  GetManifest(f) \/ PruneLabels(f) \/ GatherManifests(f) \/ SyncDescriptions(f)

DescWork ==
  GetDescription \/ ReportStatus \/ ReleaseDescription \/ \E f \in Feed : SyncResource(f)

Next ==
  \/ Environment
  \/ Informers
  \/ BaseWork
  \/ \E f \in Feed : ManifestWork(f)
  \/ DescWork
  \/ \E fs \in SUBSET Feed : PruneFeeds(fs)
  \/ CollectDescription

Spec == Init /\ [][Next]_vars

(* Informers, workers, goroutines and the garbage collector keep running;  *)
(* users and faults owe nothing.                                           *)
Fairness ==
  /\ WF_vars(SyncBase) /\ WF_vars(SyncDesc)
  /\ \A f \in Feed : WF_vars(SyncManifest(f)) /\ WF_vars(ManifestWork(f))
  /\ WF_vars(BaseWork) /\ WF_vars(DescWork)
  /\ \A fs \in SUBSET Feed : WF_vars(PruneFeeds(fs))
  /\ WF_vars(CollectDescription)

FairSpec == Spec /\ Fairness

-----------------------------------------------------------------------------
(* Properties.                                                             *)

(* The hub has nothing left to do for the Base. *)
Idle ==
  /\ queue = {} /\ deploy = None
  /\ \A k \in DOMAIN job : job[k] = None
  /\ \A fs \in SUBSET Feed : prune[fs] = 0
  /\ baseWatch = <<>> /\ descWatch = <<>> /\ \A f \in Feed : manifestWatch[f] = <<>>
  /\ base.phase # "deleting" /\ desc.phase # "deleting"
  /\ ~(base.phase = "gone" /\ desc.phase = "live")

(* No update is lost on its way to the child cluster: when the hub is      *)
(* idle, the child cluster has every feed of the Base with the contents    *)
(* that its Manifest has.                                                  *)
FeedsDeployed ==
  Idle /\ base.phase = "live" => \A f \in base.feeds : child[f] = manifest[f].content

(* What FeedsDeployed needs of the environment, since workers write what   *)
(* they gathered earlier and goroutines prune when they get to it.  Either *)
(* feeds only ever go, or one worker alone writes the Description of a     *)
(* live Base that was deployed: the worker of its one Manifest, which is   *)
(* edited, or the worker of the Base, which gets feeds.                    *)
OnlyShrinks(s) == {"edit", "grow", "swap"} \cap s.kinds = {}
OnlyEdits(s) == /\ s.settled /\ \E f \in Feed : s.feeds = {f}
                /\ s.kinds \subseteq {"edit", "delbase", "apierr"}
OnlyGrows(s) == s.settled /\ s.kinds \subseteq {"grow", "delbase", "apierr"}
OrderlyUpdates(s) == OnlyShrinks(s) \/ OnlyEdits(s) \/ OnlyGrows(s)

(* A Base that is gone leaves nothing in the child cluster, although its   *)
(* Description is written by several workers while it is being deleted,    *)
(* and may even be created again after it.                                 *)
NothingLeftBehind ==
  Idle /\ base.phase = "gone" => child = Nothing

(* What NothingLeftBehind needs of the environment: no feed leaves the     *)
(* Description of a Base that may be deleted, because a pruned resource    *)
(* can be applied again by the worker that has the old version.            *)
OrderlyDeletion(s) ==
  "delbase" \in s.kinds =>
    /\ {"shrink", "swap"} \cap s.kinds = {}
    /\ "grow" \in s.kinds => s.settled /\ {"edit", "restart"} \cap s.kinds = {}

(* Deleting a Base ends, together with its Description: handleBase fails   *)
(* as long as its lister has one, and resyncBase may create another.       *)
DeletionCompletes == base.phase = "deleting" ~> base.phase = "gone" /\ ~Exists(desc)
=============================================================================
