------------------------------ MODULE Scheduler ------------------------------
(***************************************************************************)
(* clusternet-scheduler: the scheduling queue, the serial scheduling cycle *)
(* (scheduleOne), the asynchronous binding goroutines it starts, and the   *)
(* informer event handlers that feed the queue.                            *)
(*                                                                         *)
(* An API object is a record with a resource version.  The API server      *)
(* holds its current version (subs, clusters).  An informer is a log of    *)
(* the versions its lister has held (subLog, clLog): the last entry is the *)
(* lister's version, which lags behind the API server, and the first one   *)
(* is the version the event handlers were last told of, which lags behind  *)
(* the lister.  A lister never goes back to an older version; it may skip  *)
(* versions, as it does after a relist.                                    *)
(*                                                                         *)
(* A label selector is the set of label values it matches; a subscription  *)
(* spec stands for its selector, its tolerations and its feeds, so that    *)
(* two specs are equal exactly when their hashes are.                      *)
(***************************************************************************)
EXTENDS Integers, Sequences

CONSTANTS
  Sub,        \* Subscriptions (namespace/name keys)
  Cluster,    \* ManagedClusters
  SubSpec,    \* contents of a Subscription's spec
  Label,      \* values of the one label that selectors look at
  Affinity,   \* labels selected by the subscribers of a spec
  Tolerant,   \* specs whose clusterTolerations tolerate the NoSchedule taint
  Binder,     \* bound: binding goroutines alive at the same time
  None,       \* "no value": no spec, no cycle, no goroutine
  Allowed,    \* which environment events this instance exercises
  MaxEvents   \* bound: environment events in a behaviour

EventKind == {"spec", "delsub", "meta", "join", "relabel", "taint", "untaint",
              "delete", "apierr", "restart"}

ASSUME SpecAssumption ==
  /\ Label # {}
  /\ None \notin SubSpec
  /\ Affinity \in [SubSpec -> SUBSET Label]
  /\ Tolerant \subseteq SubSpec
ASSUME BoundAssumption == Allowed \subseteq EventKind /\ MaxEvents \in Nat

VARIABLES
  subs,            \* Subscriptions in the API server
  subLog,          \* ... from the version last handled to the lister's
  clusters,        \* ManagedClusters in the API server, with their version
  clLog,           \* ... from the version last handled to the lister's
  subscribersMap,  \* Scheduler.subscribersMap
  queue,           \* Scheduler.SchedulingQueue (a set: keys are deduplicated)
  cycle,           \* the scheduling cycle in progress
  binder,          \* the binding goroutines
  events           \* environment events so far

apiVars  == <<subs, clusters>>
infVars  == <<subLog, clLog>>
procVars == <<subscribersMap, queue, cycle, binder>>
vars == <<apiVars, infVars, procVars, events>>

(* phase "gone": removed from the API server, with the version of its removal *)
Subscription == [phase: {"absent", "live", "deleting", "gone"}, rv: Nat,
                 spec: SubSpec \cup {None}, hash: SubSpec \cup {None},
                 binding: SUBSET Cluster]
ManagedCluster == [phase: {"absent", "live", "deleting"},
                   label: Label, tainted: BOOLEAN]
ClusterList == [ver: Nat, obj: [Cluster -> ManagedCluster]]
Cycle == [sub: Sub, obj: Subscription, clusters: SUBSET Cluster,
          stage: {"filter", "score"}]
Binding == [sub: Sub, obj: Subscription, clusters: SUBSET Cluster]
ASSUME NoneAssumption == None \notin Cycle /\ None \notin Binding

TypeOK ==
  /\ subs \in [Sub -> Subscription]
  /\ subLog \in [Sub -> Seq(Subscription)]
  /\ \A s \in Sub : subLog[s] # <<>>
  /\ clusters \in ClusterList
  /\ clLog \in Seq(ClusterList) /\ clLog # <<>>
  /\ subscribersMap \in [Sub -> SubSpec \cup {None}]
  /\ queue \subseteq Sub
  /\ cycle \in Cycle \cup {None}
  /\ binder \in [Binder -> Binding \cup {None}]
  /\ events \in 0..MaxEvents

NoSub == [phase |-> "absent", rv |-> 0, spec |-> None, hash |-> None, binding |-> {}]
NoCluster == [phase |-> "absent", label |-> CHOOSE l \in Label : TRUE, tainted |-> FALSE]
NoClusters == [ver |-> 0, obj |-> [c \in Cluster |-> NoCluster]]

Init ==
  /\ subs = [s \in Sub |-> NoSub]
  /\ subLog = [s \in Sub |-> <<NoSub>>]
  /\ clusters = NoClusters
  /\ clLog = <<NoClusters>>
  /\ subscribersMap = [s \in Sub |-> None]
  /\ queue = {}
  /\ cycle = None
  /\ binder = [b \in Binder |-> None]
  /\ events = 0

-----------------------------------------------------------------------------
(* The environment: users, the hub and the child clusters.                 *)

Event(kind) == kind \in Allowed /\ events < MaxEvents /\ events' = events + 1

(* every effective write to an object gives it a new resource version *)
WriteSub(s, o) == subs' = [subs EXCEPT ![s] = [o EXCEPT !.rv = subs[s].rv + 1]]

CreateSub(s, sp) ==
  /\ subs[s].phase = "absent"
  /\ WriteSub(s, [NoSub EXCEPT !.phase = "live", !.spec = sp])
  /\ UNCHANGED <<clusters, infVars, procVars, events>>

UpdateSpec(s, sp) ==
  /\ subs[s].phase = "live" /\ subs[s].spec # sp
  /\ Event("spec")
  /\ WriteSub(s, [subs[s] EXCEPT !.spec = sp])
  /\ UNCHANGED <<clusters, infVars, procVars>>

(* the hub holds a finalizer, so a deleted Subscription first is "deleting" *)
DeleteSub(s) ==
  /\ subs[s].phase = "live"
  /\ Event("delsub")
  /\ WriteSub(s, [subs[s] EXCEPT !.phase = "deleting"])
  /\ UNCHANGED <<clusters, infVars, procVars>>

(* clusternet-hub removes its finalizer once the Bases are gone *)
HubFinalize(s) ==
  /\ subs[s].phase = "deleting"
  /\ WriteSub(s, [subs[s] EXCEPT !.phase = "gone"])
  /\ UNCHANGED <<clusters, infVars, procVars, events>>

(* clusternet-hub injects its finalizer or patches the UID label *)
HubWritesMeta(s) ==
  /\ subs[s].phase = "live"
  /\ Event("meta")
  /\ WriteSub(s, subs[s])
  /\ UNCHANGED <<clusters, infVars, procVars>>

ChangeCluster(kind, c, o) ==
  /\ Event(kind)
  /\ clusters' = [ver |-> clusters.ver + 1, obj |-> [clusters.obj EXCEPT ![c] = o]]
  /\ UNCHANGED <<subs, infVars, procVars>>

ClusterEvent(c) ==
  LET o == clusters.obj[c] IN
  \/ \E l \in Label, t \in BOOLEAN : o.phase = "absent" /\
       ChangeCluster("join", c, [phase |-> "live", label |-> l, tainted |-> t])
  \/ \E l \in Label \ {o.label} : o.phase = "live" /\
       ChangeCluster("relabel", c, [o EXCEPT !.label = l])
  \/ o.phase = "live" /\ ~o.tainted /\
       ChangeCluster("taint", c, [o EXCEPT !.tainted = TRUE])
  \/ o.phase = "live" /\ o.tainted /\
       ChangeCluster("untaint", c, [o EXCEPT !.tainted = FALSE])
  \/ o.phase = "live" /\ ChangeCluster("delete", c, [o EXCEPT !.phase = "deleting"])
  \/ o.phase = "deleting" /\ ChangeCluster("delete", c, NoCluster)

-----------------------------------------------------------------------------
(* The informers.                                                          *)

Newest(log) == log[Len(log)]
subLister(s) == Newest(subLog[s])
clusterLister == Newest(clLog)

SyncSubs(s) ==
  /\ subLister(s) # subs[s]
  /\ subLog' = [subLog EXCEPT ![s] = Append(@, subs[s])]
  /\ UNCHANGED <<apiVars, clLog, procVars, events>>

SyncClusters ==
  /\ clusterLister # clusters
  /\ clLog' = Append(clLog, clusters)
  /\ UNCHANGED <<apiVars, subLog, procVars, events>>

Schedulable(o) == o.phase = "live"   \* FilterFunc: DeletionTimestamp == nil

(* FilteringResourceEventHandler around AddFunc and UpdateFunc *)
SubNeedsScheduling(old, new) ==
  Schedulable(new) /\ (Schedulable(old) => old.spec # new.spec)

(* an object with a deletion timestamp is dropped from the map; one whose  *)
(* removal is only known from a relist (a tombstone) stays in it           *)
SubscribersAfter(s, old, new) ==
  IF SubNeedsScheduling(old, new) THEN {new.spec}
  ELSE IF Schedulable(new) THEN {subscribersMap[s]}
  ELSE IF new.phase = "gone" THEN {None, subscribersMap[s]}
  ELSE {None}

HandleSubEvent(s) ==
  /\ Len(subLog[s]) > 1
  /\ subLog' = [subLog EXCEPT ![s] = Tail(@)]
  /\ LET old == subLog[s][1]
         new == subLog[s][2] IN
       /\ \E entry \in SubscribersAfter(s, old, new) :
            subscribersMap' = [subscribersMap EXCEPT ![s] = entry]
       /\ queue' = IF SubNeedsScheduling(old, new) THEN queue \cup {s} ELSE queue
  /\ UNCHANGED <<apiVars, clLog, cycle, binder, events>>

(* enqueueSubscriptionForClusterFunc *)
Subscribing(o) ==
  {s \in Sub : subscribersMap[s] # None /\ o.label \in Affinity[subscribersMap[s]]}

(* mutant: UpdateFunc looks at the labels and forgets the taints *)
LabelsOnly(old, new) ==
  new.phase = "live" /\ (old.phase = "absent" \/ old.label # new.label)

(* AddFunc and UpdateFunc; DeleteFunc does nothing *)
ClusterNeedsScheduling(old, new) ==
  /\ new.phase = "live"
  /\ old.phase = "absent" \/ old.label # new.label \/ old.tainted # new.tainted

HandleClusterEvents ==
  /\ Len(clLog) > 1
  /\ clLog' = Tail(clLog)
  /\ queue' = queue \cup UNION {Subscribing(clLog[2].obj[c]) : c \in
       {d \in Cluster : ClusterNeedsScheduling(clLog[1].obj[d], clLog[2].obj[d])}}
  /\ UNCHANGED <<apiVars, subLog, subscribersMap, cycle, binder, events>>

-----------------------------------------------------------------------------
(* The scheduling cycle and the binding goroutines.                        *)

(* Schedule, up to scoring: clusters that are selected and not deleting,   *)
(* less those with a taint that is not tolerated                           *)
Feasible(list, sp) ==
  {c \in Cluster : /\ list.obj[c].phase = "live"
                   /\ list.obj[c].label \in Affinity[sp]
                   /\ list.obj[c].tainted => sp \in Tolerant}

(* scheduleOne takes a key and reads the Subscription from the lister *)
GetNext(s) ==
  /\ cycle = None /\ s \in queue
  /\ queue' = queue \ {s}
  /\ cycle' = IF subLister(s).phase \in {"absent", "gone"} THEN None
              ELSE [sub |-> s, obj |-> subLister(s), clusters |-> {}, stage |-> "filter"]
  /\ UNCHANGED <<apiVars, infVars, subscribersMap, binder, events>>

(* mutant: a failure is logged, and the key is not added again *)
LogOnly(s) == s \in Sub /\ UNCHANGED queue

(* recordSchedulingFailure *)
Requeue(s) == queue' = queue \cup {s}

FilterClusters ==
  /\ cycle # None /\ cycle.stage = "filter"
  /\ LET fit == Feasible(clusterLister, cycle.obj.spec) IN
       IF fit = {}
       THEN Requeue(cycle.sub) /\ cycle' = None
       ELSE cycle' = [cycle EXCEPT !.clusters = fit, !.stage = "score"] /\ UNCHANGED queue
  /\ UNCHANGED <<apiVars, infVars, subscribersMap, binder, events>>

(* Score reads each cluster from the lister again; Done(key), go func()    *)
ScoreClusters(b) ==
  /\ cycle # None /\ cycle.stage = "score" /\ binder[b] = None
  /\ IF \E c \in cycle.clusters : clusterLister.obj[c].phase = "absent"
     THEN Requeue(cycle.sub) /\ UNCHANGED binder
     ELSE /\ binder' = [binder EXCEPT ![b] =
               [sub |-> cycle.sub, obj |-> cycle.obj, clusters |-> cycle.clusters]]
          /\ UNCHANGED queue
  /\ cycle' = None
  /\ UNCHANGED <<apiVars, infVars, subscribersMap, events>>

(* UpdateStatus of a version read earlier: refused with a conflict when    *)
(* the object has moved on; an update that changes nothing succeeds and    *)
(* leaves the resource version alone                                       *)
Accepts(s, o) == subs[s].phase # "gone" /\ subs[s].rv = o.rv

(* mutant: the hash is taken of the object instead of its spec *)
BoundHashOfObject(w) == [subs[w.sub] EXCEPT !.hash = w.obj, !.binding = w.clusters]

(* ... and a status update leaves the spec of the stored object alone *)
Bound(w) == [subs[w.sub] EXCEPT !.hash = w.obj.spec, !.binding = w.clusters]

(* mutant: on a conflict, the status of the newest version is overwritten *)
BindOverwrites(b) ==
  /\ binder[b] # None
  /\ LET w == binder[b] IN
       /\ subs[w.sub].phase # "gone"
       /\ WriteSub(w.sub, [subs[w.sub] EXCEPT !.hash = w.obj.spec, !.binding = w.clusters])
  /\ binder' = [binder EXCEPT ![b] = None]
  /\ UNCHANGED <<clusters, infVars, subscribersMap, queue, cycle, events>>

(* mutant: a conflict ends the goroutine as a success does *)
BindOnce(b) ==
  /\ binder[b] # None
  /\ LET w == binder[b] IN
       IF Accepts(w.sub, w.obj) THEN WriteSub(w.sub, Bound(w)) ELSE UNCHANGED subs
  /\ binder' = [binder EXCEPT ![b] = None]
  /\ UNCHANGED <<clusters, infVars, subscribersMap, queue, cycle, events>>

Bind(b) ==
  /\ binder[b] # None
  /\ LET w == binder[b] IN
       IF Accepts(w.sub, w.obj)
       THEN /\ IF subs[w.sub].hash = w.obj.spec /\ subs[w.sub].binding = w.clusters
               THEN UNCHANGED subs
               ELSE WriteSub(w.sub, Bound(w))
            /\ UNCHANGED queue
       ELSE Requeue(w.sub) /\ UNCHANGED subs
  /\ binder' = [binder EXCEPT ![b] = None]
  /\ UNCHANGED <<clusters, infVars, subscribersMap, cycle, events>>

(* the request fails for another reason, e.g. the API server times out *)
BindFails(b) ==
  /\ binder[b] # None
  /\ Event("apierr")
  /\ Requeue(binder[b].sub)
  /\ binder' = [binder EXCEPT ![b] = None]
  /\ UNCHANGED <<apiVars, infVars, subscribersMap, cycle>>

(* The process restarts: Run fills the listers before it schedules, and    *)
(* the handlers are told of every object again                             *)
Restart ==
  /\ Event("restart")
  /\ subLog' = [s \in Sub |-> <<NoSub, subs[s]>>]
  /\ clLog' = <<NoClusters, clusters>>
  /\ subscribersMap' = [s \in Sub |-> None]
  /\ queue' = {}
  /\ cycle' = None
  /\ binder' = [b \in Binder |-> None]
  /\ UNCHANGED apiVars

-----------------------------------------------------------------------------
Environment ==
  \/ \E s \in Sub, sp \in SubSpec : CreateSub(s, sp) \/ UpdateSpec(s, sp)
  \/ \E s \in Sub : DeleteSub(s) \/ HubFinalize(s) \/ HubWritesMeta(s)
  \/ \E c \in Cluster : ClusterEvent(c)
  \/ \E b \in Binder : BindFails(b)
  \/ Restart

Progress ==
  \/ \E s \in Sub : SyncSubs(s) \/ HandleSubEvent(s) \/ GetNext(s)
  \/ SyncClusters
  \/ HandleClusterEvents
  \/ FilterClusters
  \/ \E b \in Binder : ScoreClusters(b) \/ Bind(b)

Next == Environment \/ Progress

Spec == Init /\ [][Next]_vars

(* Informers, the queue's consumer and goroutines that can run are run by  *)
(* the Go scheduler; users, child clusters and faults owe nothing.         *)
Fairness ==
  /\ \A s \in Sub : WF_vars(SyncSubs(s)) /\ WF_vars(HandleSubEvent(s)) /\ SF_vars(GetNext(s))
  /\ WF_vars(SyncClusters)
  /\ WF_vars(HandleClusterEvents)
  /\ WF_vars(FilterClusters)
  /\ WF_vars(\E b \in Binder : ScoreClusters(b))
  /\ \A b \in Binder : WF_vars(Bind(b))

FairSpec == Spec /\ Fairness

-----------------------------------------------------------------------------
(* Properties.                                                             *)

InFlight(s) ==
  \/ s \in queue
  \/ cycle # None /\ cycle.sub = s
  \/ \E b \in Binder : binder[b] # None /\ binder[b].sub = s

(* the handlers are still to be told of a change that enqueues s *)
EventComing(s) ==
  \/ SubNeedsScheduling(subLister(s), subs[s])
  \/ \E i \in 2..Len(subLog[s]) : SubNeedsScheduling(subLog[s][i - 1], subLog[s][i])

(* A Subscription whose current spec has not been scheduled is never       *)
(* forgotten: it is queued, in a cycle, in a binding goroutine, or an      *)
(* event that will enqueue it is on its way.  scheduleOne calls Done       *)
(* before the goroutine it started ends, and nothing else retries for it.  *)
NoLostSubscription ==
  \A s \in Sub :
    subs[s].phase = "live" /\ subs[s].hash # subs[s].spec =>
      InFlight(s) \/ EventComing(s)

(* The status that a binding goroutine writes is always the outcome of a   *)
(* cycle that ran on the spec now in the API server, although spec updates *)
(* and other goroutines of the same Subscription overtake it.              *)
BindFromCurrentSpec ==
  [][\A s \in Sub :
       \/ subs'[s].hash = subs[s].hash /\ subs'[s].binding = subs[s].binding
       \/ subs'[s].hash = subs'[s].spec]_vars

(* No step is pending that concerns s: every write has reached the         *)
(* handlers, and nothing is queued or running for s.                       *)
Settled(s) ==
  /\ ~InFlight(s)
  /\ subLog[s] = <<subs[s]>>
  /\ clLog = <<clusters>>

(* When the scheduler has nothing left to do for a Subscription, it is     *)
(* bound to exactly the clusters that fit its spec: no event of either     *)
(* informer was lost between the handlers, the subscribersMap, the queue   *)
(* and concurrent cycles.                                                  *)
SettledBindingsFit ==
  \A s \in Sub :
    subs[s].phase = "live" /\ Settled(s) =>
      /\ subs[s].hash = subs[s].spec
      /\ subs[s].binding = Feasible(clusters, subs[s].spec)

(* The retry loop ends: a spec that some cluster fits is scheduled in the  *)
(* end, whatever conflicts, failed requests and restarts came between.     *)
SpecEventuallyBound ==
  \A s \in Sub :
    subs[s].phase = "live" /\ subs[s].hash # subs[s].spec ~>
      \/ subs[s].phase # "live"
      \/ subs[s].hash = subs[s].spec
      \/ Feasible(clusters, subs[s].spec) = {}
=============================================================================
