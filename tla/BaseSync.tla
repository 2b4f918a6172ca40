------------------------------ MODULE BaseSync ------------------------------
(***************************************************************************)
(* clusternet-hub, from a Subscription to its Bases: the subscription      *)
(* controller (finalizer, UID label, work queue) and the deployer's        *)
(* handleSubscription, populateBases, syncBase and deleteBase, for one     *)
(* Subscription and the Base in the namespace of each cluster.             *)
(*                                                                         *)
(* Every API object carries a resource version.  The informer caches       *)
(* subCache and baseCache lag behind the API server: subWatch and          *)
(* baseWatch hold the versions written and not delivered yet.  One step    *)
(* delivers one version to the cache and the event handlers.  The work     *)
(* queue hands a key to one worker at a time, so one worker is enough;     *)
(* every request it makes is a step of its own.  The contents of           *)
(* spec.feeds are numbered in the order in which users first wrote them.   *)
(***************************************************************************)
EXTENDS Integers, Sequences

CONSTANTS
  Cluster,    \* clusters that the scheduler may bind to
  None,       \* no item is being processed
  Scenario,   \* how behaviours start, and the events they may see
  MaxEvents   \* bound: environment events in a behaviour

EventKind == {"edit", "revert", "grow", "shrink", "delsub", "meta", "basemeta",
              "apierr", "relist", "restart"}

ASSUME ConfigAssumption ==
  /\ MaxEvents \in Nat
  /\ Scenario \subseteq [namespaces: SUBSET Cluster, adopted: BOOLEAN,
                          kinds: SUBSET EventKind, left: 0..MaxEvents]

VARIABLES
  sub,        \* the Subscription in the API server
  base,       \* the Base of each cluster in the API server
  subCache,   \* the informer caches
  baseCache,
  subWatch,   \* versions on their way to the caches
  baseWatch,
  queued,     \* the key of the Subscription is in the work queue
  worker,     \* the item being processed
  newest,     \* the last feeds contents that a user invented
  scenario    \* the scenario, with the number of events that are left

apiVars   == <<sub, base>>
cacheVars == <<subCache, baseCache>>
watchVars == <<subWatch, baseWatch>>
envVars   == <<newest, scenario>>
vars == <<apiVars, cacheVars, watchVars, queued, worker, envVars>>

(* clusters whose dedicated namespace exists *)
Namespace == scenario.namespaces

Feeds == 1 .. MaxEvents + 1
Subscription == [phase: {"absent", "live", "deleting", "gone"}, rv: Nat,
                 fin: BOOLEAN, uidLabel: BOOLEAN, feeds: Feeds,
                 hash: Feeds \cup {0}, binding: SUBSET Cluster]
Base == [phase: {"absent", "live", "deleting"}, rv: Nat, feeds: Feeds]
Step == {"inject", "label", "handle", "populate", "purge", "release"}
Item == [pc: Step, obj: Subscription, todo: SUBSET Namespace,
         drop: SUBSET Cluster, failed: BOOLEAN]

TypeOK ==
  /\ sub \in Subscription /\ subCache \in Subscription
  /\ base \in [Cluster -> Base] /\ baseCache \in [Cluster -> Base]
  /\ subWatch \in Seq(Subscription) /\ baseWatch \in [Cluster -> Seq(Base)]
  /\ queued \in BOOLEAN
  /\ worker \in Item \cup {None}
  /\ newest \in Feeds
  /\ scenario.left \in 0..MaxEvents

ASSUME NoneAssumption ==
  None \notin [pc: Step, obj: Subscription, todo: SUBSET Cluster,
               drop: SUBSET Cluster, failed: BOOLEAN]

(* adopted: the Subscription has the finalizer and the UID label already *)
NewSub == [phase |-> "live", rv |-> 1, fin |-> scenario.adopted, uidLabel |-> scenario.adopted,
           feeds |-> 1, hash |-> 0, binding |-> {}]
NoBase == [phase |-> "absent", rv |-> 0, feeds |-> 1]

(* a user has just created the Subscription, or the hub has just started *)
Init ==
  /\ scenario \in Scenario
  /\ sub = NewSub
  /\ subCache = [NewSub EXCEPT !.phase = "absent", !.rv = 0]
  /\ base = [c \in Cluster |-> NoBase]
  /\ baseCache = base
  /\ subWatch = <<sub>>
  /\ baseWatch = [c \in Cluster |-> <<>>]
  /\ queued = FALSE
  /\ worker = None
  /\ newest = 1

Event(kind) ==
  /\ kind \in scenario.kinds /\ scenario.left > 0
  /\ scenario' = [scenario EXCEPT !.left = @ - 1]

(* every effective write gives the object a new version, and is watched *)
WriteSub(o) ==
  /\ sub' = [o EXCEPT !.rv = sub.rv + 1]
  /\ subWatch' = Append(subWatch, sub')
KeepSub == UNCHANGED <<sub, subWatch>>

WriteBase(c, o) ==
  /\ base' = [base EXCEPT ![c] = [o EXCEPT !.rv = base[c].rv + 1]]
  /\ baseWatch' = [baseWatch EXCEPT ![c] = Append(@, base'[c])]
KeepBases == UNCHANGED <<base, baseWatch>>

-----------------------------------------------------------------------------
(* Users, clusternet-scheduler and the base controller.                    *)

EditFeeds(f) ==
  /\ sub.phase = "live" /\ f # sub.feeds /\ f <= newest + 1
  /\ Event(IF f > newest THEN "edit" ELSE "revert")
  /\ WriteSub([sub EXCEPT !.feeds = f])
  /\ newest' = IF f > newest THEN f ELSE newest
  /\ KeepBases /\ UNCHANGED <<cacheVars, queued, worker>>

(* the scheduler never binds a Subscription to no cluster at all *)
BindClusters(cs) ==
  /\ sub.phase = "live" /\ cs # {}
  /\ <<cs, sub.feeds>> # <<sub.binding, sub.hash>>
  /\ Event(IF sub.binding \subseteq cs THEN "grow" ELSE "shrink")
  /\ WriteSub([sub EXCEPT !.binding = cs, !.hash = sub.feeds])
  /\ KeepBases /\ UNCHANGED <<cacheVars, queued, worker, newest>>

(* an object with a finalizer is only marked as deleting *)
DeleteSub ==
  /\ sub.phase = "live"
  /\ Event("delsub")
  /\ WriteSub([sub EXCEPT !.phase = IF sub.fin THEN "deleting" ELSE "gone"])
  /\ KeepBases /\ UNCHANGED <<cacheVars, queued, worker, newest>>

TouchSub ==
  /\ sub.phase \in {"live", "deleting"}
  /\ Event("meta")
  /\ WriteSub(sub)
  /\ KeepBases /\ UNCHANGED <<cacheVars, queued, worker, newest>>

(* the base controller patches its own label *)
TouchBase(c) ==
  /\ base[c].phase # "absent"
  /\ Event("basemeta")
  /\ WriteBase(c, base[c])
  /\ KeepSub /\ UNCHANGED <<cacheVars, queued, worker, newest>>

(* handleBase removes the finalizer of a Base whose Descriptions are gone *)
BaseFinalized(c) ==
  /\ base[c].phase = "deleting"
  /\ WriteBase(c, NoBase)
  /\ KeepSub /\ UNCHANGED <<cacheVars, queued, worker, envVars>>

-----------------------------------------------------------------------------
(* The informers.                                                          *)

Exists(o) == o.phase \in {"live", "deleting"}

(* mutant: the deletion timestamp is not looked at *)
StatusOnly(old, new) ==
  ~Exists(old) \/ ~Exists(new) \/ old.binding # new.binding \/ old.hash # new.hash

(* addSubscription, updateSubscription and deleteSubscription *)
SubEventEnqueues(old, new) ==
  \/ ~Exists(old) \/ new.phase # "live"
  \/ old.binding # new.binding
  \/ old.hash # new.hash

DeliverSub(o, rest) ==
  /\ subCache' = o
  /\ subWatch' = rest
  /\ queued' = (queued \/ SubEventEnqueues(subCache, o))
  /\ UNCHANGED <<apiVars, baseCache, baseWatch, worker>>

SyncSub ==
  /\ subWatch # <<>>
  /\ DeliverSub(Head(subWatch), Tail(subWatch))
  /\ UNCHANGED envVars

(* deleteBase of the subscription controller: the owner is queued again *)
BaseEventEnqueues(old, new) == Exists(old) /\ ~Exists(new) /\ Exists(subCache)

DeliverBase(c, o, rest) ==
  /\ baseCache' = [baseCache EXCEPT ![c] = o]
  /\ baseWatch' = [baseWatch EXCEPT ![c] = rest]
  /\ queued' = (queued \/ BaseEventEnqueues(baseCache[c], o))
  /\ UNCHANGED <<apiVars, subCache, subWatch, worker>>

SyncBases(c) ==
  /\ baseWatch[c] # <<>>
  /\ DeliverBase(c, Head(baseWatch[c]), Tail(baseWatch[c]))
  /\ UNCHANGED envVars

(* a watch that breaks is replaced by a list of the current versions *)
Relist ==
  /\ Event("relist")
  /\ \/ subWatch # <<>> /\ DeliverSub(sub, <<>>)
     \/ \E c \in Cluster : baseWatch[c] # <<>> /\ DeliverBase(c, base[c], <<>>)
  /\ UNCHANGED newest

-----------------------------------------------------------------------------
(* The worker: processNextWorkItem, syncHandler and handleSubscription.    *)

At(pc) == worker # None /\ worker.pc = pc
Requeue == worker' = None /\ queued' = TRUE   \* AddRateLimited
GoTo(pc, o) == worker' = [worker EXCEPT !.pc = pc, !.obj = o] /\ UNCHANGED queued

(* a Subscription that is deleting gets neither finalizer nor label *)
FirstStep(o) == IF o.phase = "deleting" THEN "handle"
                ELSE IF ~o.fin THEN "inject"
                ELSE IF ~o.uidLabel THEN "label" ELSE "handle"

GetItem ==
  /\ worker = None /\ queued
  /\ queued' = FALSE
  /\ worker' = IF ~Exists(subCache) THEN None
               ELSE [pc |-> FirstStep(subCache), obj |-> subCache,
                     todo |-> {}, drop |-> {}, failed |-> FALSE]
  /\ UNCHANGED <<apiVars, cacheVars, watchVars, envVars>>

(* an Update of a version read earlier is refused once the object moved on *)
Accepts(o) == Exists(sub) /\ sub.rv = o.rv

(* the finalizer is appended to the object that the lister returned, which *)
(* is the one in the cache, before the request is made                     *)
MutateCache == subCache' = IF subCache.rv = worker.obj.rv
                           THEN [subCache EXCEPT !.fin = TRUE] ELSE subCache

InjectFinalizer ==
  /\ At("inject")
  /\ MutateCache
  /\ IF Accepts(worker.obj)
     THEN WriteSub([sub EXCEPT !.fin = TRUE]) /\ GoTo(FirstStep(sub'), sub')
     ELSE Requeue /\ KeepSub
  /\ KeepBases /\ UNCHANGED <<baseCache, envVars>>

(* a merge patch has no precondition and returns the current object *)
PatchSubscriptionLabels ==
  /\ At("label")
  /\ IF Exists(sub)
     THEN /\ IF sub.uidLabel THEN KeepSub
             ELSE WriteSub([sub EXCEPT !.uidLabel = TRUE])
          /\ GoTo("handle", sub')
     ELSE Requeue /\ KeepSub
  /\ KeepBases /\ UNCHANGED <<cacheVars, envVars>>

(* handleSubscription lists the Bases of the Subscription in the cache *)
Listed == {c \in Cluster : Exists(baseCache[c])}

(* a Subscription that is deleting waits as long as the lister has Bases *)
HandleDeleting ==
  /\ At("handle") /\ worker.obj.phase = "deleting"
  /\ worker' = IF Listed = {} THEN [worker EXCEPT !.pc = "release"]
               ELSE [worker EXCEPT !.pc = "purge", !.failed = TRUE,
                                   !.drop = {c \in Listed : baseCache[c].phase = "live"}]
  /\ UNCHANGED <<apiVars, cacheVars, watchVars, queued, envVars>>

(* mutant: clusters without a dedicated namespace are not skipped *)
PopulateEverywhere ==
  /\ At("handle") /\ worker.obj.phase = "live"
  /\ worker' = [worker EXCEPT !.pc = "populate", !.drop = Listed, !.todo = worker.obj.binding]
  /\ UNCHANGED <<apiVars, cacheVars, watchVars, queued, envVars>>

PopulateBases ==
  /\ At("handle") /\ worker.obj.phase = "live"
  /\ worker' = [worker EXCEPT !.pc = "populate", !.drop = Listed,
                              !.todo = worker.obj.binding \cap Namespace]
  /\ UNCHANGED <<apiVars, cacheVars, watchVars, queued, envVars>>

(* syncBase(c): the outcome of its request, or of finding none is needed *)
CreatesBase(c) == ~Exists(baseCache[c]) /\ ~Exists(base[c])
UpdatesBase(c) == /\ baseCache[c].phase = "live"
                  /\ baseCache[c].feeds # worker.obj.feeds
                  /\ base[c].rv = baseCache[c].rv
BaseUpToDate(c) == baseCache[c].phase = "live" /\ baseCache[c].feeds = worker.obj.feeds

Synced(c, ok) == worker' = [worker EXCEPT !.todo = @ \ {c}, !.drop = @ \ {c},
                                          !.failed = @ \/ ~ok]

SyncBase(c) ==
  /\ At("populate") /\ c \in worker.todo
  /\ IF CreatesBase(c) \/ UpdatesBase(c)
     THEN WriteBase(c, [base[c] EXCEPT !.phase = "live", !.feeds = worker.obj.feeds])
     ELSE KeepBases
  /\ Synced(c, CreatesBase(c) \/ UpdatesBase(c) \/ BaseUpToDate(c))
  /\ KeepSub /\ UNCHANGED <<cacheVars, queued, envVars>>

Dropped(c, ok) == worker' = [worker EXCEPT !.drop = @ \ {c}, !.failed = @ \/ ~ok]

(* deleteBase: an error if the lister has lost the Base in the meantime *)
DeleteBase(c) ==
  /\ At("populate") \/ At("purge")
  /\ worker.todo = {} /\ c \in worker.drop
  /\ IF Exists(baseCache[c]) /\ base[c].phase = "live"
     THEN WriteBase(c, [base[c] EXCEPT !.phase = "deleting"])
     ELSE KeepBases
  /\ Dropped(c, Exists(baseCache[c]))
  /\ KeepSub /\ UNCHANGED <<cacheVars, queued, envVars>>

(* mutant: errors of single Bases are not aggregated *)
ForgetItem ==
  /\ At("populate") \/ At("purge")
  /\ worker.todo = {} /\ worker.drop = {}
  /\ worker' = None
  /\ UNCHANGED <<apiVars, cacheVars, watchVars, queued, envVars>>

FinishItem ==
  /\ At("populate") \/ At("purge")
  /\ worker.todo = {} /\ worker.drop = {}
  /\ queued' = (queued \/ worker.failed)
  /\ worker' = None
  /\ UNCHANGED <<apiVars, cacheVars, watchVars, envVars>>

(* the Update that removes the finalizer, and the Subscription with it *)
ReleaseSub ==
  /\ At("release")
  /\ IF Accepts(worker.obj)
     THEN WriteSub([sub EXCEPT !.phase = "gone"]) /\ worker' = None /\ UNCHANGED queued
     ELSE Requeue /\ KeepSub
  /\ KeepBases /\ UNCHANGED <<cacheVars, envVars>>

(* a request fails without effect *)
RequestFails ==
  /\ worker # None /\ worker.pc # "handle"
  /\ Event("apierr")
  /\ IF At("inject") THEN MutateCache ELSE UNCHANGED subCache
  /\ \/ worker.pc \in {"inject", "label", "release"} /\ Requeue
     \/ \E c \in worker.todo : Synced(c, FALSE) /\ UNCHANGED queued
     \/ worker.todo = {} /\ \E c \in worker.drop : Dropped(c, FALSE) /\ UNCHANGED queued
  /\ UNCHANGED <<apiVars, baseCache, watchVars, newest>>

(* another hub takes over: fresh caches, an Add event for every object *)
Restart ==
  /\ Event("restart")
  /\ subCache' = sub /\ baseCache' = base
  /\ subWatch' = <<>> /\ baseWatch' = [c \in Cluster |-> <<>>]
  /\ queued' = Exists(sub)
  /\ worker' = None
  /\ UNCHANGED <<apiVars, newest>>

-----------------------------------------------------------------------------
Environment ==
  \/ \E f \in Feeds : EditFeeds(f)
  \/ \E cs \in SUBSET Cluster : BindClusters(cs)
  \/ DeleteSub \/ TouchSub
  \/ \E c \in Cluster : TouchBase(c)
  \/ RequestFails
  \/ Relist \/ Restart

Work ==
  \/ GetItem
  \/ InjectFinalizer \/ PatchSubscriptionLabels
  \/ HandleDeleting \/ PopulateBases
  \/ \E c \in Cluster : SyncBase(c) \/ DeleteBase(c)
  \/ FinishItem \/ ReleaseSub

Informers == SyncSub \/ \E c \in Cluster : SyncBases(c)

Next == Environment \/ Informers \/ Work \/ \E c \in Cluster : BaseFinalized(c)

Spec == Init /\ [][Next]_vars

(* Informers and workers keep running, and the base controller finishes    *)
(* the deletion of a Base; users, the scheduler and faults owe nothing.    *)
Fairness ==
  /\ WF_vars(SyncSub)
  /\ \A c \in Cluster : WF_vars(SyncBases(c)) /\ WF_vars(BaseFinalized(c))
  /\ WF_vars(Work)

FairSpec == Spec /\ Fairness

-----------------------------------------------------------------------------
(* Properties.                                                             *)

(* The hub has nothing left to do for the Subscription or its Bases. *)
Idle ==
  /\ worker = None /\ ~queued
  /\ subWatch = <<>>
  /\ \A c \in Cluster : baseWatch[c] = <<>> /\ base[c].phase # "deleting"

(* No update of a Subscription is lost on its way to the Bases: when the   *)
(* hub is idle, every cluster that a scheduled Subscription is bound to    *)
(* has a Base with its feeds, although conflicts, failed requests, Bases   *)
(* still being deleted and restarts made populateBases give up half-way.   *)
BoundClustersServed ==
  Idle /\ sub.phase = "live" /\ sub.hash = sub.feeds =>
    \A c \in sub.binding \cap Namespace :
      base[c].phase = "live" /\ base[c].feeds = sub.feeds

(* What BoundClustersServed needs of the environment: nobody restores      *)
(* feeds before the scheduler has hashed the ones in between, and nobody   *)
(* edits, and no watch breaks, while the hub still adopts the Subscription.*)
Orderly(s) == /\ "revert" \notin s.kinds
              /\ s.adopted \/ ("edit" \notin s.kinds /\ "relist" \notin s.kinds)

(* Deleting a Subscription ends: handleSubscription returns an error for   *)
(* as long as its lister has Bases, and something always runs it again.    *)
DeletionCompletes == sub.phase = "deleting" ~> sub.phase = "gone"

=============================================================================
