------------------------------ MODULE HelmSync ------------------------------
(***************************************************************************)
(* From a Description of Helm charts to the releases in its child cluster: *)
(* the description controller with the helm deployer's populateHelmRelease *)
(* and syncHelmRelease, the HelmRelease controllers of hub and agent with  *)
(* ReconcileHelmRelease, and the secret controller, which keeps the        *)
(* credentials for the child cluster as long as there are HelmReleases.    *)
(*                                                                         *)
(* A lister returns some version that the object has had, and moves to the *)
(* current one at any moment; versions in between are skipped.  Objects    *)
(* are compared by content: nothing here goes back to an earlier content   *)
(* while a copy of it is held, so an Update with a stale resource version  *)
(* is one whose copy differs.  A chart spec and the values of the          *)
(* overrides are numbered in the order users write them; 0 is no values.   *)
(***************************************************************************)
EXTENDS Naturals, FiniteSets

CONSTANTS
  Chart,      \* HelmCharts, and by them their HelmReleases
  ChartName,  \* the name of each, which is the name of its Helm release
  DescKey,    \* key of the Description in the work queue
  None,       \* no job
  Mode,       \* "hub" or "agent" deploys, or the cluster has no "pusher"
  Allowed,    \* which environment events this instance exercises
  MaxEvents   \* bound, by mode: environment events, each kind once

EventKind == {"chart", "override", "drop", "delete", "secret", "silent", "gone",
              "apierr", "helmerr", "restart"}

ASSUME ConfigAssumption ==
  /\ ChartName \in [Chart -> STRING]
  /\ DescKey \notin Chart
  /\ Mode \subseteq {"hub", "agent", "nopusher"}
  /\ Allowed \subseteq EventKind /\ MaxEvents \in [Mode -> Nat]

VARIABLES
  mode,       \* which deployer the flags of the cluster select
  cluster,    \* the ManagedCluster as the hub's lister has it
  chart, chartCache,    \* spec of each HelmChart, and in the lister
  desc, hr, secret,     \* Description, HelmReleases, Secret in the API server
  descCache, hrCache,   \* in the listers of hub and agent
  release,    \* the Helm releases stored in the child cluster
  queue,      \* keys in the work queues of hub and agent
  populate,   \* what the worker of the Description is doing
  job,        \* reconciliations of each HelmRelease, by who runs them
  happened    \* environment events so far

clusterVars == <<mode, cluster>>
chartVars == <<chart, chartCache>>
descVars  == <<desc, descCache>>
hrVars    == <<hr, hrCache>>
vars == <<clusterVars, chartVars, descVars, hrVars, secret, release, queue,
          populate, job, happened>>

Proc == {"hub", "agent"}
Runner == {"worker", "inline"}
Vals == 0..2
Phase == {"absent", "live", "deleting"}
Status == {"none", "deployed", "failed"}
Description == [phase: Phase, charts: SUBSET Chart, vals: Vals]
HelmRelease == [phase: Phase, legacy: BOOLEAN, spec: 0..2, status: Status]
Release == [state: Status, spec: 0..2, vals: Vals]
Secret == {"none", "bare", "kept", "deleting", "released", "removed"}
Populate == [desc: Description, todo: SUBSET Chart, drop: SUBSET Chart, failed: BOOLEAN]
Step == {"uninstall", "finalize", "overrides", "apply", "status", "report"}
Job == [pc: Step, hr: HelmRelease, vals: Vals, result: Status]
Name == Chart \cup {ChartName[c] : c \in Chart}

TypeOK ==
  /\ mode \in Mode /\ cluster \in {"ready", "unknown", "gone"}
  /\ chart \in [Chart -> 1..2] /\ chartCache \in [Chart -> 1..2]
  /\ desc \in Description /\ descCache \in [Proc -> Description]
  /\ hr \in [Chart -> HelmRelease] /\ hrCache \in [Proc -> [Chart -> HelmRelease]]
  /\ secret \in Secret
  /\ release \in [Name -> Release]
  /\ queue \in [Proc -> SUBSET (Chart \cup {DescKey})]
  /\ populate \in Populate \cup {None}
  /\ job \in [Runner -> [Chart -> Job \cup {None}]]
  /\ happened \subseteq Allowed

NoRelease == [state |-> "none", spec |-> 0, vals |-> 0]
Deployed(spec, vals) == [state |-> "deployed", spec |-> spec, vals |-> vals]
NoHR == [phase |-> "absent", legacy |-> FALSE, spec |-> 0, status |-> "none"]
OldHR == [phase |-> "live", legacy |-> TRUE, spec |-> 1, status |-> "deployed"]

(* Some HelmReleases date from a hub that did not set spec.releaseName;    *)
(* the others are still to be created.                                     *)
Init ==
  /\ mode \in Mode /\ cluster = "ready"
  /\ chart = [c \in Chart |-> 1] /\ chartCache = chart
  /\ desc = [phase |-> "live", charts |-> Chart, vals |-> 1]
  /\ descCache = [p \in Proc |-> desc]
  /\ \E old \in SUBSET Chart :
       /\ hr = [c \in Chart |-> IF c \in old THEN OldHR ELSE NoHR]
       /\ release = [n \in Name |-> IF n \in old THEN Deployed(1, 1) ELSE NoRelease]
  /\ hrCache = [p \in Proc |-> hr]
  /\ secret = "none"
  /\ queue = [p \in Proc |-> IF p = "hub" THEN {DescKey} ELSE {}]
  /\ populate = None
  /\ job = [w \in Runner |-> [c \in Chart |-> None]]
  /\ happened = {}

Event(kind) ==
  /\ kind \in Allowed \ happened /\ Cardinality(happened) < MaxEvents[mode]
  /\ happened' = happened \cup {kind}

Exists(o) == o.phase # "absent"
Enqueue(p, ks) == queue' = [queue EXCEPT ![p] = @ \cup ks]

-----------------------------------------------------------------------------
(* Users, the Base worker that writes the Description, the cluster.        *)

EditChart(c) ==
  /\ Event("chart")
  /\ chart' = [chart EXCEPT ![c] = 2]
  /\ UNCHANGED <<clusterVars, chartCache, descVars, hrVars, secret, release,
                 queue, populate, job>>

(* syncDescriptions writes new overrides, fewer charts, or deletes *)
EditDescription(kind, o) ==
  /\ desc.phase = "live" /\ Event(kind)
  /\ desc' = o
  /\ UNCHANGED <<clusterVars, chartVars, descCache, hrVars, secret, release,
                 queue, populate, job>>

EditOverrides == EditDescription("override", [desc EXCEPT !.vals = 2])
DropChart(c)  == /\ c \in desc.charts
                 /\ EditDescription("drop", [desc EXCEPT !.charts = @ \ {c}])
DeleteDescription == EditDescription("delete", [desc EXCEPT !.phase = "deleting"])

(* the agent stores its credentials; somebody may delete them *)
CreateDeployerCredentials ==
  /\ secret = "none" /\ secret' = "bare"
  /\ UNCHANGED <<clusterVars, chartVars, descVars, hrVars, release,
                 queue, populate, job, happened>>

DeleteSecret ==
  /\ secret \in {"bare", "kept"} /\ Event("secret")
  /\ secret' = IF secret = "kept" THEN "deleting" ELSE "removed"
  /\ UNCHANGED <<clusterVars, chartVars, descVars, hrVars, release,
                 queue, populate, job>>

(* heartbeats stop, or somebody deletes the ManagedCluster *)
LoseCluster(kind, state) ==
  /\ cluster # "gone" /\ Event(kind)
  /\ cluster' = state
  /\ UNCHANGED <<mode, chartVars, descVars, hrVars, secret, release,
                 queue, populate, job>>

ClusterReturns ==
  /\ cluster = "unknown" /\ cluster' = "ready"
  /\ UNCHANGED <<mode, chartVars, descVars, hrVars, secret, release,
                 queue, populate, job, happened>>

(* the garbage collector deletes HelmReleases whose owner is gone *)
CollectReleases ==
  /\ ~Exists(desc) /\ \E c \in Chart : hr[c].phase = "live"
  /\ hr' = [c \in Chart |-> IF Exists(hr[c]) THEN [hr[c] EXCEPT !.phase = "deleting"]
                            ELSE hr[c]]
  /\ UNCHANGED <<clusterVars, chartVars, descVars, hrCache, secret, release,
                 queue, populate, job, happened>>

-----------------------------------------------------------------------------
(* The informers and the event handlers.                                   *)

(* updateHelmChart of the description controller *)
SyncChart(c) ==
  /\ chartCache[c] # chart[c]
  /\ chartCache' = [chartCache EXCEPT ![c] = chart[c]]
  /\ Enqueue("hub", IF Exists(descCache["hub"]) THEN {DescKey} ELSE {})
  /\ UNCHANGED <<clusterVars, chart, descVars, hrVars, secret, release,
                 populate, job, happened>>

(* the handlers of the description controller, which only the hub runs *)
DescEventEnqueues(old, new) ==
  IF new.phase # "live" \/ old.charts # new.charts \/ old.vals # new.vals
  THEN {DescKey} ELSE {}

SyncDesc(p) ==
  /\ descCache[p] # desc /\ (p = "agent" => mode = "agent")
  /\ descCache' = [descCache EXCEPT ![p] = desc]
  /\ IF p = "hub" THEN Enqueue(p, DescEventEnqueues(descCache[p], desc)) ELSE UNCHANGED queue
  /\ UNCHANGED <<clusterVars, chartVars, desc, hrVars, secret, release,
                 populate, job, happened>>

(* mutant: updateHelmRelease takes every update for a status report *)
AddedOrDeleted(c, old, new) == IF ~Exists(old) \/ new.phase # "live" THEN {c} ELSE {}

(* the handlers of the HelmRelease controller ... *)
ReleaseEventEnqueues(c, old, new) ==
  IF ~Exists(old) \/ new.phase # "live" \/ old.spec # new.spec THEN {c} ELSE {}

(* ... and deleteHelmRelease of the description controller *)
OwnerEventEnqueues(old, new) ==
  IF Exists(old) /\ ~Exists(new) /\ Exists(descCache["hub"]) THEN {DescKey} ELSE {}

SyncRelease(p, c) ==
  LET old == hrCache[p][c] IN
  /\ old # hr[c] /\ (p = "agent" => mode = "agent")
  /\ hrCache' = [hrCache EXCEPT ![p][c] = hr[c]]
  /\ Enqueue(p, ReleaseEventEnqueues(c, old, hr[c])
                \cup IF p = "hub" THEN OwnerEventEnqueues(old, hr[c]) ELSE {})
  /\ UNCHANGED <<clusterVars, chartVars, descVars, hr, secret, release,
                 populate, job, happened>>

-----------------------------------------------------------------------------
(* The worker of the Description: handleDescription of the helm deployer.  *)

Take(p, k) == k \in queue[p] /\ queue' = [queue EXCEPT ![p] = @ \ {k}]
Listed == {c \in Chart : Exists(hrCache["hub"][c])}
HasCluster == cluster # "gone"

(* a Description whose cluster has no AppPusher, or that is gone *)
SkipDescription ==
  /\ populate = None /\ Take("hub", DescKey)
  /\ Exists(descCache["hub"]) => HasCluster /\ mode = "nopusher"
  /\ UNCHANGED <<clusterVars, chartVars, descVars, hrVars, secret, release,
                 populate, job, happened>>

Handles(phase) ==
  /\ populate = None /\ DescKey \in queue["hub"]
  /\ descCache["hub"].phase = phase /\ HasCluster /\ mode # "nopusher"

(* an error for as long as HelmReleases are listed *)
DeleteReleases ==
  /\ Handles("deleting") /\ Listed # {}
  /\ \E c \in Listed : hr[c].phase = "live" /\ hrCache["hub"][c].phase = "live"
  /\ hr' = [c \in Chart |-> IF c \in Listed /\ hrCache["hub"][c].phase = "live" /\ Exists(hr[c])
                            THEN [hr[c] EXCEPT !.phase = "deleting"] ELSE hr[c]]
  /\ UNCHANGED <<clusterVars, chartVars, descVars, hrCache, secret, release,
                 queue, populate, job, happened>>

(* the Update that removes the finalizer, and the Description with it *)
ReleaseDescription ==
  /\ Handles("deleting") /\ Listed = {}
  /\ IF desc = descCache["hub"]
     THEN desc' = [desc EXCEPT !.phase = "absent"] /\ Take("hub", DescKey)
     ELSE UNCHANGED <<desc, queue>>
  /\ UNCHANGED <<clusterVars, chartVars, descCache, hrVars, secret, release,
                 populate, job, happened>>

(* populateHelmRelease lists what it may have to delete *)
StartPopulate ==
  LET d == descCache["hub"] IN
  /\ Handles("live") /\ Take("hub", DescKey)
  /\ populate' = [desc |-> d, todo |-> d.charts, drop |-> Listed \ d.charts, failed |-> FALSE]
  /\ UNCHANGED <<clusterVars, chartVars, descVars, hrVars, secret, release, job, happened>>

Populated(c, ok) == populate' = [populate EXCEPT !.todo = @ \ {c}, !.failed = @ \/ ~ok]
NoInline == \A c \in Chart : job["inline"][c] = None
Turn(c) == populate # None /\ c \in populate.todo /\ NoInline

(* mutant: the chart version after the one in the lister *)
WriteNextVersion(c) ==
  /\ Turn(c)
  /\ hr' = [hr EXCEPT ![c] = [NoHR EXCEPT !.phase = "live", !.spec = chartCache[c] + 1]]
  /\ Populated(c, TRUE)
  /\ UNCHANGED <<clusterVars, chartVars, descVars, hrCache, secret, release,
                 queue, job, happened>>

(* syncHelmRelease of a HelmRelease that must be created or updated: only  *)
(* a new one gets the name of its chart                                    *)
WriteRelease(c) ==
  LET h == hrCache["hub"][c]
      creates == ~Exists(h) /\ ~Exists(hr[c])
      updates == h.phase = "live" /\ hr[c] = h IN
  /\ Turn(c) /\ (h.phase = "live" => h.spec # chartCache[c])
  /\ hr' = CASE creates -> [hr EXCEPT ![c] = [NoHR EXCEPT !.phase = "live", !.spec = chartCache[c]]]
             [] updates -> [hr EXCEPT ![c].spec = chartCache[c]]
             [] OTHER -> hr
  /\ Populated(c, creates \/ updates)
  /\ UNCHANGED <<clusterVars, chartVars, descVars, hrCache, secret, release,
                 queue, job, happened>>

DeployableByHub == mode = "hub"
HasConfig == HasCluster /\ secret \in {"bare", "kept", "deleting"}

StartJob(w, c, h) ==
  job' = [job EXCEPT ![w][c] =
    [pc |-> IF h.phase = "deleting" THEN "uninstall" ELSE "overrides",
     hr |-> h, vals |-> 0, result |-> "none"]]

(* syncHelmRelease of one that has the same spec ("seems to get overrides  *)
(* changed") handles it right here, whoever else is doing so               *)
HandleInline(c) ==
  LET h == hrCache["hub"][c] IN
  /\ Turn(c) /\ h.phase = "live" /\ h.spec = chartCache[c]
  /\ IF DeployableByHub /\ HasConfig
     THEN StartJob("inline", c, h) /\ UNCHANGED populate
     ELSE UNCHANGED job /\ Populated(c, HasCluster /\ ~DeployableByHub)
  /\ UNCHANGED <<clusterVars, chartVars, descVars, hrVars, secret, release,
                 queue, happened>>

DropRelease(c) ==
  /\ populate # None /\ populate.todo = {} /\ c \in populate.drop
  /\ hr' = IF Exists(hr[c]) THEN [hr EXCEPT ![c].phase = "deleting"] ELSE hr
  /\ populate' = [populate EXCEPT !.drop = @ \ {c}]
  /\ UNCHANGED <<clusterVars, chartVars, descVars, hrCache, secret, release,
                 queue, job, happened>>

(* mutant: the errors of single HelmReleases are not returned *)
FinishAnyway ==
  /\ populate # None /\ populate.todo = {} /\ populate.drop = {}
  /\ populate' = None
  /\ UNCHANGED <<clusterVars, chartVars, descVars, hrVars, secret, release, queue, job, happened>>

FinishPopulate ==
  /\ populate # None /\ populate.todo = {} /\ populate.drop = {}
  /\ populate' = None
  /\ Enqueue("hub", IF populate.failed THEN {DescKey} ELSE {})
  /\ UNCHANGED <<clusterVars, chartVars, descVars, hrVars, secret, release, job, happened>>

-----------------------------------------------------------------------------
(* The workers of the HelmReleases: handleHelmRelease of hub and agent.    *)

IsClusterLost == cluster # "ready"
DeployableByAgent == mode = "agent"
Deployable(p) == IF p = "hub" THEN DeployableByHub ELSE DeployableByAgent
Reconciler == IF mode = "agent" THEN "agent" ELSE "hub"

(* nothing to do: gone from the lister, or not for this deployer *)
SkipRelease(p, c) ==
  LET h == hrCache[p][c] IN
  /\ Take(p, c)
  /\ job["worker"][c] = None \/ ~Deployable(p)
  /\ \/ ~Exists(h)
     \/ /\ ~Deployable(p)
        /\ p = "hub" => HasCluster /\ ~(h.phase = "deleting" /\ IsClusterLost)
  /\ UNCHANGED <<clusterVars, chartVars, descVars, hrVars, secret, release,
                 populate, job, happened>>

(* the hub lets go of a HelmRelease whose cluster is lost *)
AbandonRelease(c) ==
  LET h == hrCache["hub"][c] IN
  /\ (job["worker"][c] = None \/ ~DeployableByHub) /\ c \in queue["hub"]
  /\ h.phase = "deleting" /\ IsClusterLost
  /\ IF hr[c] = h THEN hr' = [hr EXCEPT ![c] = NoHR] /\ Take("hub", c)
     ELSE UNCHANGED <<hr, queue>>
  /\ UNCHANGED <<clusterVars, chartVars, descVars, hrCache, secret, release,
                 populate, job, happened>>

GetRelease(c) ==
  LET p == Reconciler
      h == hrCache[p][c] IN
  /\ Deployable(p) /\ job["worker"][c] = None /\ Take(p, c) /\ Exists(h)
  /\ p = "hub" => HasConfig /\ ~(h.phase = "deleting" /\ IsClusterLost)
  /\ StartJob("worker", c, h)
  /\ UNCHANGED <<clusterVars, chartVars, descVars, hrVars, secret, release,
                 populate, happened>>

At(w, c, pc) == job[w][c] # None /\ job[w][c].pc = pc
GoTo(w, c, pc) == job' = [job EXCEPT ![w][c].pc = pc] /\ UNCHANGED <<queue, populate>>

(* mutant: a key that failed is forgotten *)
EndForGood(w, c, ok) ==
  /\ job' = [job EXCEPT ![w][c] = None]
  /\ IF w = "inline" THEN Populated(c, ok) ELSE UNCHANGED populate
  /\ UNCHANGED queue

(* the end of a reconciliation, and of the inline one with it *)
EndJob(w, c, ok) ==
  /\ job' = [job EXCEPT ![w][c] = None]
  /\ IF w = "inline" THEN Populated(c, ok) /\ UNCHANGED queue
     ELSE UNCHANGED populate /\ Enqueue(Reconciler, IF ok THEN {} ELSE {c})

(* the name of the Helm release, and the one it is looked for under *)
getReleaseName(c, h) == IF h.legacy THEN c ELSE ChartName[c]
LookupName(c) == c

(* mutant: the release is uninstalled under the name of the HelmRelease *)
UninstallOwnName(w, c) ==
  /\ At(w, c, "uninstall")
  /\ release' = [release EXCEPT ![c] = NoRelease]
  /\ GoTo(w, c, "finalize")
  /\ UNCHANGED <<clusterVars, chartVars, descVars, hrVars, secret, happened>>

UninstallRelease(w, c) ==
  /\ At(w, c, "uninstall")
  /\ release' = [release EXCEPT ![getReleaseName(c, job[w][c].hr)] = NoRelease]
  /\ GoTo(w, c, "finalize")
  /\ UNCHANGED <<clusterVars, chartVars, descVars, hrVars, secret, happened>>

FinalizeRelease(w, c) ==
  /\ At(w, c, "finalize")
  /\ IF hr[c] = job[w][c].hr THEN hr' = [hr EXCEPT ![c] = NoHR] ELSE UNCHANGED hr
  /\ EndJob(w, c, hr[c] = job[w][c].hr)
  /\ UNCHANGED <<clusterVars, chartVars, descVars, hrCache, secret, release, happened>>

(* no values if the lister has lost the Description, or it the chart *)
GetOverrides(w, c) ==
  LET d == descCache[Reconciler] IN
  /\ At(w, c, "overrides")
  /\ job' = [job EXCEPT ![w][c].pc = "apply",
               ![w][c].vals = IF Exists(d) /\ c \in d.charts THEN d.vals ELSE 0]
  /\ UNCHANGED <<clusterVars, chartVars, descVars, hrVars, secret, release,
                 queue, populate, happened>>

(* InstallRelease, ReleaseNeedsUpgrade and UpgradeRelease; a name that was *)
(* ever used, and not uninstalled, cannot be installed again               *)
ApplyRelease(w, c) ==
  LET j == job[w][c]
      name == getReleaseName(c, j.hr)
      isDeployed == release[LookupName(c)].state = "deployed"
      ok == isDeployed \/ release[name] = NoRelease IN
  /\ At(w, c, "apply")
  /\ release' = IF ok THEN [release EXCEPT ![name] = Deployed(j.hr.spec, j.vals)]
                ELSE release
  /\ job' = [job EXCEPT ![w][c].pc = "status",
               ![w][c].result = IF ok THEN "deployed" ELSE "failed"]
  /\ UNCHANGED <<clusterVars, chartVars, descVars, hrVars, secret, queue, populate, happened>>

(* UpdateHelmReleaseStatus: a conflict is retried with the lister's copy *)
UpdateReleaseStatus(w, c) ==
  LET accepted == Exists(hr[c]) /\ hr[c] \in {job[w][c].hr, hrCache[Reconciler][c]} IN
  /\ At(w, c, "status")
  /\ hr' = IF accepted THEN [hr EXCEPT ![c].status = job[w][c].result] ELSE hr
  /\ IF accepted THEN GoTo(w, c, "report") ELSE EndJob(w, c, FALSE)
  /\ UNCHANGED <<clusterVars, chartVars, descVars, hrCache, secret, release, happened>>

(* ... and then that of the Description, which nobody reads here: an error *)
(* if the lister's copy of the Description is an old one                   *)
UpdateDescriptionStatus(w, c) ==
  LET d == descCache[Reconciler] IN
  /\ At(w, c, "report")
  /\ EndJob(w, c, Exists(d) => d = desc)
  /\ UNCHANGED <<clusterVars, chartVars, descVars, hrVars, secret, release, happened>>

-----------------------------------------------------------------------------
(* The worker of the Secret; it gets an event, or an error that brings the *)
(* key back, whenever one of these is enabled.                             *)

AddSecretFinalizer ==
  /\ secret = "bare" /\ secret' = "kept"
  /\ UNCHANGED <<clusterVars, chartVars, descVars, hrVars, release, queue, populate, job, happened>>

(* mutant: only HelmReleases that are not deleting yet count *)
HandleSecretEarly ==
  /\ secret = "deleting" /\ \A c \in Listed : hrCache["hub"][c].phase = "deleting"
  /\ secret' = "released"
  /\ UNCHANGED <<clusterVars, chartVars, descVars, hrVars, release, queue, populate, job, happened>>

(* handleSecret: an error for as long as the lister has HelmReleases *)
HandleSecret ==
  /\ secret = "deleting" /\ Listed = {}
  /\ secret' = "released"
  /\ UNCHANGED <<clusterVars, chartVars, descVars, hrVars, release, queue, populate, job, happened>>

-----------------------------------------------------------------------------
(* Faults.                                                                 *)

(* a request to the parent or the child cluster fails without effect *)
RequestFails ==
  /\ Event("apierr")
  /\ \/ \E w \in Runner, c \in Chart :
          /\ job[w][c] # None /\ job[w][c].pc # "apply" /\ EndJob(w, c, FALSE)
     \/ \E c \in Chart :
          /\ Turn(c) /\ Populated(c, FALSE)
          /\ UNCHANGED <<job, queue>>
  /\ UNCHANGED <<clusterVars, chartVars, descVars, hrVars, secret, release>>

(* Helm fails: the outcome is a status, which does not bring the key back; *)
(* a failed installation leaves a release that is not deployed             *)
HelmFails ==
  /\ Event("helmerr")
  /\ \E w \in Runner, c \in Chart :
       LET name == getReleaseName(c, job[w][c].hr) IN
       /\ At(w, c, "apply")
       /\ release' \in {release, [release EXCEPT ![name].state = IF @ = "none" THEN "failed" ELSE @]}
       /\ job' = [job EXCEPT ![w][c].pc = "status", ![w][c].result = "failed"]
  /\ UNCHANGED <<clusterVars, chartVars, descVars, hrVars, secret, queue, populate>>

(* another hub takes over, or the agent that deploys restarts: fresh       *)
(* caches, an Add event for everything                                     *)
AllKeys(p) ==
  {c \in Chart : Exists(hr[c])}
  \cup (IF p = "hub" /\ Exists(desc) THEN {DescKey} ELSE {})

Restart(p) ==
  /\ Event("restart") /\ (p = "agent" => mode = "agent")
  /\ descCache' = [descCache EXCEPT ![p] = desc]
  /\ hrCache' = [hrCache EXCEPT ![p] = hr]
  /\ queue' = [queue EXCEPT ![p] = AllKeys(p)]
  /\ IF p = "hub" THEN chartCache' = chart /\ populate' = None
     ELSE UNCHANGED <<chartCache, populate>>
  /\ job' = IF p = Reconciler THEN [w \in Runner |-> [c \in Chart |-> None]] ELSE job
  /\ UNCHANGED <<clusterVars, chart, desc, hr, secret, release>>

-----------------------------------------------------------------------------
Environment ==
  \/ \E c \in Chart : EditChart(c) \/ DropChart(c)
  \/ EditOverrides \/ DeleteDescription \/ DeleteSecret
  \/ LoseCluster("silent", "unknown") \/ LoseCluster("gone", "gone")
  \/ RequestFails \/ HelmFails
  \/ \E p \in Proc : Restart(p)

Informers ==
  \/ \E c \in Chart : SyncChart(c)
  \/ \E p \in Proc : SyncDesc(p) \/ \E c \in Chart : SyncRelease(p, c)

DescriptionWork ==
  \/ SkipDescription \/ DeleteReleases \/ ReleaseDescription \/ StartPopulate
  \/ \E c \in Chart : WriteRelease(c) \/ HandleInline(c) \/ DropRelease(c)
  \/ FinishPopulate

Reconcile(w, c) ==
  \/ UninstallRelease(w, c) \/ FinalizeRelease(w, c)
  \/ GetOverrides(w, c) \/ ApplyRelease(w, c)
  \/ UpdateReleaseStatus(w, c) \/ UpdateDescriptionStatus(w, c)

ReleaseWork(c) ==
  \/ \E p \in Proc : SkipRelease(p, c)
  \/ AbandonRelease(c) \/ GetRelease(c)
  \/ Reconcile("worker", c)

SecretWork == AddSecretFinalizer \/ HandleSecret

Others == CreateDeployerCredentials \/ ClusterReturns \/ CollectReleases

Next ==
  \/ Environment \/ Informers \/ DescriptionWork \/ SecretWork \/ Others
  \/ \E c \in Chart : ReleaseWork(c) \/ Reconcile("inline", c)

Spec == Init /\ [][Next]_vars

(* Informers, workers, the agent that brings its credentials and the       *)
(* garbage collector keep running; users, faults and lost clusters owe     *)
(* nothing.                                                                *)
Fairness ==
  /\ WF_vars(Informers) /\ WF_vars(DescriptionWork) /\ WF_vars(SecretWork)
  /\ \A c \in Chart : WF_vars(ReleaseWork(c) \/ Reconcile("inline", c))
  /\ WF_vars(CreateDeployerCredentials) /\ WF_vars(CollectReleases)

FairSpec == Spec /\ Fairness

-----------------------------------------------------------------------------
(* Properties.                                                             *)

(* Hub and agent have nothing left to do. *)
Idle ==
  /\ populate = None /\ \A p \in Proc : queue[p] = {}
  /\ \A w \in Runner, c \in Chart : job[w][c] = None
  /\ chartCache = chart /\ desc.phase # "deleting"
  /\ \A p \in {"hub", Reconciler} : descCache[p] = desc /\ hrCache[p] = hr
  /\ \A c \in Chart : Exists(hr[c]) => hr[c].phase = "live" /\ Exists(desc)

ReleaseOf(c) == release[getReleaseName(c, hr[c])]

(* No chart is lost on its way: when hub and agent are idle, every chart   *)
(* of the Description has a HelmRelease of its current spec, although      *)
(* conflicts, failures, restarts and lost clusters made populateHelm-      *)
(* Release give up half-way.                                               *)
ReleasesPopulated ==
  Idle /\ Exists(desc) /\ mode # "nopusher" =>
    \A c \in desc.charts : hr[c].phase = "live" /\ hr[c].spec = chart[c]

(* A HelmRelease does not claim more than was done: when idle, one that    *)
(* says it is deployed has its current chart installed in the child        *)
(* cluster, although requests fail, hub and agent restart, and a worker    *)
(* reconciles what it read before an edit.  Helm's errors become a status  *)
(* that nobody retries.  Where the agent deploys, that status stays; where *)
(* the hub does, the inline reconciliation may write an earlier success    *)
(* over the worker's later failure, so the property supposes that Helm has *)
(* not failed there.                                                       *)
DeployedMeansInstalled ==
  Idle /\ (mode = "hub" => "helmerr" \notin happened) =>
    \A c \in Chart : hr[c].status = "deployed" =>
      ReleaseOf(c).state = "deployed" /\ ReleaseOf(c).spec = hr[c].spec

(* Upgrades arrive: when idle, the child cluster runs the current chart,   *)
(* unless Helm itself failed ("verify the release is changed or not",      *)
(* ReconcileHelmRelease).                                                  *)
ReleasesUpgraded ==
  Idle /\ Exists(desc) /\ mode # "nopusher" /\ "helmerr" \notin happened =>
    \A c \in desc.charts : ReleaseOf(c).spec = chart[c]

(* A Description that is gone leaves no release in a child cluster that    *)
(* was never lost, although the lister may miss a HelmRelease when the     *)
(* finalizer is removed.                                                   *)
NoReleaseLeft ==
  Idle /\ ~Exists(desc) /\ happened \cap {"silent", "gone"} = {} =>
    \A n \in Name : release[n] = NoRelease

(* The hub does not give up its credentials for the child cluster while    *)
(* they are needed to uninstall a release there.                           *)
SecretOutlivesReleases ==
  [][secret' = "released" /\ secret # "released" /\ mode = "hub"
       /\ happened \cap {"silent", "gone"} = {}
     => \A n \in Name : release[n] = NoRelease]_vars

(* Deleting a Description of charts ends, although handleDescription fails *)
(* as long as HelmReleases are listed, and each of them as long as it      *)
(* cannot be uninstalled; a ManagedCluster that is gone, a cluster without *)
(* AppPusher or lost credentials stop it for good.                         *)
DeletionCompletes ==
  desc.phase = "deleting" /\ mode # "nopusher" ~>
    ~Exists(desc) \/ cluster = "gone" \/ secret \in {"released", "removed"}
=============================================================================
