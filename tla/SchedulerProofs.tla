--------------------------- MODULE SchedulerProofs ---------------------------
(***************************************************************************)
(* Proofs about Scheduler, for any number of Subscriptions, clusters,      *)
(* specs, binding goroutines and environment events.                       *)
(***************************************************************************)
EXTENDS SchedulerGrowth, TLAPS

-----------------------------------------------------------------------------
(* Appending a version to an informer's log: the versions before it keep   *)
(* their places and the new one becomes the lister's.                      *)
LEMMA AppendFacts ==
  ASSUME NEW S, NEW log \in Seq(S), NEW x \in S
  PROVE  /\ Append(log, x) \in Seq(S)
         /\ Append(log, x) # <<>>
         /\ Len(Append(log, x)) = Len(log) + 1
         /\ \A i \in 1..Len(log) : Append(log, x)[i] = log[i]
         /\ Append(log, x)[Len(log) + 1] = x
OBVIOUS

(* A log that is not empty has a newest version. *)
LEMMA LogFacts ==
  ASSUME NEW S, NEW log \in Seq(S)
  PROVE  /\ Len(log) \in Nat
         /\ \A i \in 1..Len(log) : log[i] \in S
         /\ log # <<>> => Len(log) >= 1 /\ log[Len(log)] \in S
OBVIOUS

(* Handling the oldest change of a log that holds one: the lister's        *)
(* version is still there.                                                 *)
LEMMA TailFacts ==
  ASSUME NEW S, NEW log \in Seq(S), Len(log) > 1
  PROVE  /\ Tail(log) \in Seq(S)
         /\ Tail(log) # <<>>
         /\ Len(Tail(log)) = Len(log) - 1
         /\ \A i \in 1..(Len(log) - 1) : Tail(log)[i] = log[i + 1]
<1>1. log # <<>>
  OBVIOUS
<1>2. Tail(log) \in Seq(S) /\ Len(Tail(log)) = Len(log) - 1
  BY <1>1
<1>3. \A i \in 1..(Len(log) - 1) : Tail(log)[i] = log[i + 1]
  BY <1>1
<1>4. \A t \in Seq(S) : Len(t) > 0 => t # <<>>
  OBVIOUS
<1>5. Len(Tail(log)) > 0
  BY <1>2, LogFacts
<1>6. Tail(log) # <<>>
  BY <1>2, <1>4, <1>5, Zenon
<1> QED
  BY <1>2, <1>3, <1>6

-----------------------------------------------------------------------------
(* Type correctness.                                                       *)

(* The initial state, in which neither informer has seen an object, has    *)
(* the declared types.                                                     *)
LEMMA TypeInit == Init => TypeOK
<1> SUFFICES ASSUME Init PROVE TypeOK  OBVIOUS
<1>1. NoSub \in Subscription
  BY DEF NoSub, Subscription
<1>2. (CHOOSE l \in Label : TRUE) \in Label
  BY SpecAssumption
<1>3. NoClusters \in ClusterList
  BY <1>2 DEF NoClusters, NoCluster, ClusterList, ManagedCluster
<1> QED
  BY <1>1, <1>3, BoundAssumption DEF Init, TypeOK

(* The environment's writes, a new Subscription version or a new list of   *)
(* clusters, keep the types.                                               *)
LEMMA TypeEnvironment ==
  ASSUME TypeOK, Environment PROVE TypeOK'
<1> USE DEF TypeOK, Event, apiVars, infVars, procVars
<1>0. NoSub \in Subscription /\ NoClusters \in ClusterList
  <2>1. (CHOOSE l \in Label : TRUE) \in Label
    BY SpecAssumption
  <2> QED
    BY <2>1 DEF NoSub, Subscription, NoClusters, NoCluster, ClusterList, ManagedCluster
<1>1. ASSUME NEW s \in Sub, NEW o \in Subscription, WriteSub(s, o)
      PROVE  subs' \in [Sub -> Subscription]
  <2>1. subs[s].rv + 1 \in Nat
    BY DEF Subscription
  <2>2. [o EXCEPT !.rv = subs[s].rv + 1] \in Subscription
    BY <2>1 DEF Subscription
  <2> QED
    BY <1>1, <2>2 DEF WriteSub
<1>2. ASSUME NEW s \in Sub, NEW sp \in SubSpec, CreateSub(s, sp) \/ UpdateSpec(s, sp)
      PROVE  TypeOK'
  <2>1. [NoSub EXCEPT !.phase = "live", !.spec = sp] \in Subscription
    BY <1>0 DEF Subscription
  <2>2. [subs[s] EXCEPT !.spec = sp] \in Subscription
    BY DEF Subscription
  <2>3. subs' \in [Sub -> Subscription]
    BY <1>1, <1>2, <2>1, <2>2 DEF CreateSub, UpdateSpec
  <2> QED
    BY <1>2, <2>3, BoundAssumption DEF CreateSub, UpdateSpec
<1>3. ASSUME NEW s \in Sub, DeleteSub(s) \/ HubFinalize(s) \/ HubWritesMeta(s)
      PROVE  TypeOK'
  <2>1. /\ [subs[s] EXCEPT !.phase = "deleting"] \in Subscription
        /\ [subs[s] EXCEPT !.phase = "gone"] \in Subscription
        /\ subs[s] \in Subscription
    BY DEF Subscription
  <2>2. subs' \in [Sub -> Subscription]
    BY <1>1, <1>3, <2>1 DEF DeleteSub, HubFinalize, HubWritesMeta
  <2> QED
    BY <1>3, <2>2, BoundAssumption DEF DeleteSub, HubFinalize, HubWritesMeta
<1>4. ASSUME NEW c \in Cluster, NEW kind, NEW o \in ManagedCluster, ChangeCluster(kind, c, o)
      PROVE  TypeOK'
  BY <1>4, BoundAssumption DEF ChangeCluster, ClusterList
<1>5. ASSUME NEW c \in Cluster, ClusterEvent(c)
      PROVE  TypeOK'
  <2>1. clusters.obj[c] \in ManagedCluster /\ NoCluster \in ManagedCluster
    BY <1>0 DEF ClusterList, NoClusters
  <2> DEFINE o == clusters.obj[c]
  <2>2. /\ \A l \in Label, t \in BOOLEAN :
             [phase |-> "live", label |-> l, tainted |-> t] \in ManagedCluster
        /\ \A l \in Label : [o EXCEPT !.label = l] \in ManagedCluster
        /\ \A t \in BOOLEAN : [o EXCEPT !.tainted = t] \in ManagedCluster
        /\ [o EXCEPT !.phase = "deleting"] \in ManagedCluster
    BY <2>1 DEF ManagedCluster
  <2> QED
    BY <1>4, <1>5, <2>1, <2>2 DEF ClusterEvent
<1>6. ASSUME NEW b \in Binder, BindFails(b)
      PROVE  TypeOK'
  BY <1>6, BoundAssumption DEF BindFails, Requeue, Binding
<1>7. ASSUME Restart
      PROVE  TypeOK'
  BY <1>7, <1>0, BoundAssumption DEF Restart
<1> QED
  BY <1>2, <1>3, <1>5, <1>6, <1>7 DEF Environment

(* The versions that the listers hold have the type of API objects. *)
LEMMA ListerTypes ==
  ASSUME TypeOK
  PROVE  /\ \A s \in Sub : /\ Len(subLog[s]) \in Nat \ {0}
                           /\ subLister(s) \in Subscription
                           /\ \A i \in 1..Len(subLog[s]) : subLog[s][i] \in Subscription
         /\ clusterLister \in ClusterList
<1>1. ASSUME NEW s \in Sub
      PROVE  /\ Len(subLog[s]) \in Nat \ {0}
             /\ subLister(s) \in Subscription
             /\ \A i \in 1..Len(subLog[s]) : subLog[s][i] \in Subscription
  <2>1. subLog[s] \in Seq(Subscription) /\ subLog[s] # <<>>
    BY DEF TypeOK
  <2> QED
    BY <2>1, LogFacts DEF subLister, Newest
<1>2. clusterLister \in ClusterList
  <2>1. clLog \in Seq(ClusterList) /\ clLog # <<>>
    BY DEF TypeOK
  <2> QED
    BY <2>1, LogFacts DEF clusterLister, Newest
<1> QED
  BY <1>1, <1>2

(* The steps of the informers, the handlers, the cycle and the goroutines  *)
(* keep the types.                                                         *)
LEMMA TypeProgress ==
  ASSUME TypeOK, Progress PROVE TypeOK'
<1> USE DEF TypeOK, apiVars, infVars, procVars
<1>1. ASSUME NEW s \in Sub, SyncSubs(s) PROVE TypeOK'
  <2>1. Append(subLog[s], subs[s]) \in Seq(Subscription) /\ Append(subLog[s], subs[s]) # <<>>
    BY AppendFacts
  <2> QED
    BY <1>1, <2>1 DEF SyncSubs
<1>2. ASSUME NEW s \in Sub, HandleSubEvent(s) PROVE TypeOK'
  <2>1. Tail(subLog[s]) \in Seq(Subscription) /\ Tail(subLog[s]) # <<>>
    BY <1>2, TailFacts DEF HandleSubEvent
  <2>2. subLog[s][2] \in Subscription
    BY <1>2, ListerTypes DEF HandleSubEvent
  <2>3. subLog[s][2].spec \in SubSpec \cup {None}
    BY <2>2 DEF Subscription
  <2>4. SubscribersAfter(s, subLog[s][1], subLog[s][2]) \subseteq SubSpec \cup {None}
    BY <2>3 DEF SubscribersAfter, SubNeedsScheduling, Schedulable
  <2> QED
    BY <1>2, <2>1, <2>4 DEF HandleSubEvent
<1>3. ASSUME NEW s \in Sub, GetNext(s) PROVE TypeOK'
  BY <1>3, ListerTypes DEF GetNext, Cycle
<1>4. ASSUME SyncClusters PROVE TypeOK'
  <2>1. Append(clLog, clusters) \in Seq(ClusterList) /\ Append(clLog, clusters) # <<>>
    BY AppendFacts
  <2> QED
    BY <1>4, <2>1 DEF SyncClusters
<1>5. ASSUME HandleClusterEvents PROVE TypeOK'
  <2>1. Tail(clLog) \in Seq(ClusterList) /\ Tail(clLog) # <<>>
    BY <1>5, TailFacts DEF HandleClusterEvents
  <2>2. \A o : Subscribing(o) \subseteq Sub
    BY DEF Subscribing
  <2>3. queue' \subseteq Sub
    BY <1>5, <2>2 DEF HandleClusterEvents
  <2> QED
    BY <1>5, <2>1, <2>3 DEF HandleClusterEvents
<1>6. ASSUME FilterClusters PROVE TypeOK'
  <2>1. Feasible(clusterLister, cycle.obj.spec) \subseteq Cluster
    BY DEF Feasible
  <2> QED
    BY <1>6, <2>1 DEF FilterClusters, Requeue, Cycle
<1>7. ASSUME NEW b \in Binder, ScoreClusters(b) PROVE TypeOK'
  <2>1. cycle \in Cycle
    BY <1>7 DEF ScoreClusters
  <2>2. [sub |-> cycle.sub, obj |-> cycle.obj, clusters |-> cycle.clusters] \in Binding
        /\ cycle.sub \in Sub
    BY <2>1 DEF Cycle, Binding
  <2>3. queue' \subseteq Sub /\ binder' \in [Binder -> Binding \cup {None}]
    BY <1>7, <2>2 DEF ScoreClusters, Requeue
  <2> QED
    BY <1>7, <2>3 DEF ScoreClusters
<1>8. ASSUME NEW b \in Binder, Bind(b) PROVE TypeOK'
  <2> DEFINE w == binder[b]
  <2>1. w \in Binding
    BY <1>8 DEF Bind
  <2>2. w.sub \in Sub /\ w.obj \in Subscription /\ w.clusters \in SUBSET Cluster
    BY <2>1 DEF Binding
  <2>3. [Bound(w) EXCEPT !.rv = subs[w.sub].rv + 1] \in Subscription
    <3>1. subs[w.sub] \in Subscription /\ subs[w.sub].rv + 1 \in Nat
      BY <2>2 DEF Subscription
    <3>2. w.obj.spec \in SubSpec \cup {None}
      BY <2>2 DEF Subscription
    <3> HIDE DEF w
    <3> QED
      BY <2>2, <3>1, <3>2 DEF Subscription, Bound
  <2>4. subs' \in [Sub -> Subscription]
    BY <1>8, <2>2, <2>3 DEF Bind, WriteSub
  <2> QED
    BY <1>8, <2>2, <2>4 DEF Bind, Requeue
<1> QED
  BY <1>1, <1>2, <1>3, <1>4, <1>5, <1>6, <1>7, <1>8 DEF Progress

(* Every reachable state of the scheduler is well typed: logs are never    *)
(* empty, so a lister always has a version to return.                      *)
THEOREM TypeCorrect == Spec => []TypeOK
<1>1. TypeOK /\ [Next]_vars => TypeOK'
  <2>1. ASSUME TypeOK, UNCHANGED vars PROVE TypeOK'
    BY <2>1 DEF TypeOK, vars, apiVars, infVars, procVars
  <2> QED
    BY <2>1, TypeEnvironment, TypeProgress DEF Next
<1> QED
  BY <1>1, TypeInit, PTL DEF Spec

-----------------------------------------------------------------------------
(* Optimistic concurrency.                                                 *)

(* o is a version that Subscription s has had; the current one if the      *)
(* resource versions agree                                                 *)
VersionOf(o, s) == o.rv <= subs[s].rv /\ (o.rv = subs[s].rv => o = subs[s])

(* Everything the scheduler has read is a version of its Subscription, and *)
(* no cycle or goroutine holds one that is newer than the lister's.        *)
Coherent ==
  /\ \A s \in Sub : VersionOf(NoSub, s)
  /\ \A s \in Sub : \A i \in 1..Len(subLog[s]) : VersionOf(subLog[s][i], s)
  /\ cycle # None => /\ VersionOf(cycle.obj, cycle.sub)
                     /\ cycle.obj.rv <= subLister(cycle.sub).rv
  /\ \A b \in Binder : binder[b] # None =>
                     /\ VersionOf(binder[b].obj, binder[b].sub)
                     /\ binder[b].obj.rv <= subLister(binder[b].sub).rv

(* A Subscription that was never created holds no status, and the          *)
(* scheduler works on created ones only.                                   *)
Existing ==
  /\ \A s \in Sub : subs[s].phase = "absent" => subs[s] = NoSub
  /\ cycle # None => cycle.obj.phase # "absent"
  /\ \A b \in Binder : binder[b] # None => binder[b].obj.phase # "absent"

(* a change that the handlers are still to be told of enqueues s *)
ChangeLogged(s) ==
  \E i \in 2..Len(subLog[s]) : SubNeedsScheduling(subLog[s][i - 1], subLog[s][i])

(* The lister's version of a live Subscription has been scheduled, is      *)
(* being scheduled, or is a change the handlers are still to be told of.   *)
Followed ==
  \A s \in Sub : Schedulable(subLister(s)) =>
    \/ subs[s].hash = subLister(s).spec
    \/ InFlight(s)
    \/ ChangeLogged(s)

IndInv == TypeOK /\ Coherent /\ Existing /\ Followed

(* A write moves the object past every version read so far, so that none   *)
(* of them can be mistaken for the current one.                            *)
LEMMA VersionsStay ==
  ASSUME TypeOK, NEW s \in Sub, NEW o \in Subscription, WriteSub(s, o),
         NEW t \in Sub, NEW x \in Subscription, VersionOf(x, t)
  PROVE  VersionOf(x, t)'
<1>1. x.rv \in Nat /\ subs[t].rv \in Nat /\ subs[s].rv \in Nat
  BY DEF TypeOK, Subscription
<1>2. CASE t = s
  <2>1. subs'[s].rv = subs[s].rv + 1
    BY DEF WriteSub, TypeOK, Subscription
  <2> QED
    BY <1>1, <1>2, <2>1 DEF VersionOf
<1>3. CASE t # s
  <2>1. subs'[t] = subs[t]
    BY <1>3 DEF WriteSub, TypeOK
  <2> QED
    BY <2>1 DEF VersionOf
<1> QED
  BY <1>2, <1>3

(* Types of what the parts of Coherent speak of. *)
LEMMA SnapshotTypes ==
  ASSUME TypeOK
  PROVE  /\ NoSub \in Subscription
         /\ cycle # None => cycle.sub \in Sub /\ cycle.obj \in Subscription
         /\ \A b \in Binder : binder[b] # None =>
               binder[b].sub \in Sub /\ binder[b].obj \in Subscription
BY DEF TypeOK, NoSub, Subscription, Cycle, Binding

(* A write to a Subscription, by whomever, keeps Coherent as long as the   *)
(* scheduler reads nothing in the same step.                               *)
LEMMA WriteCoherent ==
  ASSUME TypeOK, Coherent, NEW s \in Sub, NEW o \in Subscription, WriteSub(s, o),
         UNCHANGED <<subLog, cycle>>,
         \A b \in Binder : binder'[b] \in {binder[b], None}
  PROVE  Coherent'
<1> DEFINE NewVersionOf(x, t) == x.rv <= subs'[t].rv /\ (x.rv = subs'[t].rv => x = subs'[t])
<1>0. ASSUME NEW x \in Subscription, NEW t \in Sub, VersionOf(x, t)
      PROVE  NewVersionOf(x, t)
  BY <1>0, VersionsStay DEF VersionOf
<1> HIDE DEF NewVersionOf
<1>1. \A t \in Sub : NewVersionOf(NoSub, t)
  BY <1>0, SnapshotTypes DEF Coherent
<1>2. \A t \in Sub : \A i \in 1..Len(subLog[t]) : NewVersionOf(subLog[t][i], t)
  BY <1>0, ListerTypes DEF Coherent
<1>3. cycle # None => NewVersionOf(cycle.obj, cycle.sub)
  BY <1>0, SnapshotTypes DEF Coherent
<1>4. \A b \in Binder : binder[b] # None => NewVersionOf(binder[b].obj, binder[b].sub)
  BY <1>0, SnapshotTypes DEF Coherent
<1> USE DEF NewVersionOf
<1>5. (\A t \in Sub : VersionOf(NoSub, t))'
  BY <1>1 DEF VersionOf, NoSub
<1>6. (\A t \in Sub : \A i \in 1..Len(subLog[t]) : VersionOf(subLog[t][i], t))'
  BY <1>2 DEF VersionOf
<1>7. (cycle # None => /\ VersionOf(cycle.obj, cycle.sub)
                      /\ cycle.obj.rv <= subLister(cycle.sub).rv)'
  BY <1>3 DEF VersionOf, Coherent, subLister
<1>8. ASSUME NEW b \in Binder, binder'[b] # None
      PROVE  /\ VersionOf(binder[b].obj, binder[b].sub)'
             /\ (binder[b].obj.rv <= subLister(binder[b].sub).rv)'
  <2>1. binder'[b] = binder[b] /\ binder[b] # None /\ subLog' = subLog
    BY <1>8
  <2> QED
    BY <1>4, <2>1 DEF VersionOf, Coherent, subLister
<1> QED
  BY <1>5, <1>6, <1>7, <1>8 DEF Coherent

(* Coherent depends on nothing but subs, subLog, cycle and binder. *)
LEMMA CoherentStutter ==
  ASSUME Coherent, UNCHANGED <<subs, subLog, cycle, binder>> PROVE Coherent'
BY DEF Coherent, VersionOf, subLister

(* Users and the hub write new versions; a restarted scheduler reads the   *)
(* current ones.                                                           *)
LEMMA CoherentEnvironment ==
  ASSUME TypeOK, Coherent, Environment PROVE Coherent'
<1>1. ASSUME NEW s \in Sub, NEW sp \in SubSpec, CreateSub(s, sp) \/ UpdateSpec(s, sp)
      PROVE  Coherent'
  <2>1. /\ [NoSub EXCEPT !.phase = "live", !.spec = sp] \in Subscription
        /\ [subs[s] EXCEPT !.spec = sp] \in Subscription
    BY DEF NoSub, Subscription, TypeOK
  <2> QED
    BY <1>1, <2>1, WriteCoherent DEF CreateSub, UpdateSpec, infVars, procVars
<1>2. ASSUME NEW s \in Sub, DeleteSub(s) \/ HubFinalize(s) \/ HubWritesMeta(s)
      PROVE  Coherent'
  <2>1. /\ [subs[s] EXCEPT !.phase = "deleting"] \in Subscription
        /\ [subs[s] EXCEPT !.phase = "gone"] \in Subscription
        /\ subs[s] \in Subscription
    BY DEF Subscription, TypeOK
  <2> QED
    BY <1>2, <2>1, WriteCoherent DEF DeleteSub, HubFinalize, HubWritesMeta, infVars, procVars
<1>3. ASSUME NEW c \in Cluster, ClusterEvent(c)
      PROVE  Coherent'
  BY <1>3, CoherentStutter DEF ClusterEvent, ChangeCluster, infVars, procVars
<1>4. ASSUME NEW b \in Binder, BindFails(b)
      PROVE  Coherent'
  BY <1>4 DEF BindFails, apiVars, infVars, Coherent, VersionOf, subLister, TypeOK
<1>5. ASSUME Restart
      PROVE  Coherent'
  <2>0. \A s \in Sub : subs[s].rv \in Nat
    BY DEF TypeOK, Subscription
  <2>1. \A s \in Sub : VersionOf(NoSub, s) /\ VersionOf(subs[s], s)
    <3>1. \A s \in Sub : VersionOf(NoSub, s)
      BY DEF Coherent
    <3>2. ASSUME NEW s \in Sub PROVE VersionOf(subs[s], s)
      <4>1. subs[s].rv <= subs[s].rv
        BY <2>0
      <4> QED
        BY <4>1 DEF VersionOf
    <3> QED
      BY <3>1, <3>2
  <2>2. subs' = subs /\ cycle' = None /\ \A b \in Binder : binder'[b] = None
    BY <1>5 DEF Restart, apiVars
  <2>3. \A s \in Sub : /\ Len(subLog'[s]) = 2
                        /\ subLog'[s][1] = NoSub
                        /\ subLog'[s][2] = subs[s]
    BY <1>5 DEF Restart
  <2>4. \A s \in Sub : \A i \in 1..Len(subLog'[s]) : subLog'[s][i] \in {NoSub, subs[s]}
    BY <2>3
  <2>5. (\A s \in Sub : VersionOf(NoSub, s))'
    BY <2>1, <2>2 DEF VersionOf, NoSub
  <2>6. (\A s \in Sub : \A i \in 1..Len(subLog[s]) : VersionOf(subLog[s][i], s))'
    BY <2>1, <2>2, <2>4 DEF VersionOf
  <2> QED
    BY <2>2, <2>5, <2>6 DEF Coherent
<1> QED
  BY <1>1, <1>2, <1>3, <1>4, <1>5 DEF Environment

(* The scheduler reads versions that exist, and drops them in the end; the *)
(* lister only moves forward, and a goroutine writes the API server only.  *)
LEMMA CoherentProgress ==
  ASSUME TypeOK, Coherent, Progress PROVE Coherent'
<1>1. ASSUME NEW s \in Sub, SyncSubs(s) PROVE Coherent'
  <2>1. /\ subs' = subs /\ cycle' = cycle /\ binder' = binder
        /\ subLog' = [subLog EXCEPT ![s] = Append(@, subs[s])]
    BY <1>1 DEF SyncSubs, apiVars, procVars
  <2>2. /\ subLog[s] \in Seq(Subscription) /\ subs[s] \in Subscription
        /\ subLog'[s] = Append(subLog[s], subs[s])
        /\ \A t \in Sub : t # s => subLog'[t] = subLog[t]
    BY <2>1 DEF TypeOK
  <2>3. /\ Len(subLog'[s]) = Len(subLog[s]) + 1
        /\ \A i \in 1..Len(subLog[s]) : subLog'[s][i] = subLog[s][i]
        /\ subLog'[s][Len(subLog[s]) + 1] = subs[s]
    BY <2>2, AppendFacts
  <2>4. VersionOf(subs[s], s)
    BY <2>2 DEF VersionOf, Subscription
  <2>5. ASSUME NEW t \in Sub, NEW i \in 1..Len(subLog'[t])
        PROVE  VersionOf(subLog'[t][i], t)
    <3>1. CASE t = s
      <4>1. Len(subLog[s]) \in Nat
        BY ListerTypes
      <4>2. i \in 1..Len(subLog[s]) \/ i = Len(subLog[s]) + 1
        BY <2>3, <2>5, <3>1, <4>1
      <4> QED
        BY <2>3, <2>4, <3>1, <4>2 DEF Coherent
    <3>2. CASE t # s
      BY <2>2, <3>2 DEF Coherent
    <3> QED
      BY <3>1, <3>2
  <2>6. subLister(s)' = subs[s] /\ \A t \in Sub : t # s => subLister(t)' = subLister(t)
    BY <2>2, <2>3 DEF subLister, Newest
  <2>7. (\A t \in Sub : VersionOf(NoSub, t))'
    BY <2>1 DEF Coherent, VersionOf, NoSub
  <2>8. (\A t \in Sub : \A i \in 1..Len(subLog[t]) : VersionOf(subLog[t][i], t))'
    BY <2>1, <2>5 DEF VersionOf
  <2>9. ASSUME NEW t \in Sub, NEW o, VersionOf(o, t), o.rv <= subLister(t).rv
        PROVE  VersionOf(o, t)' /\ o.rv <= subLister(t)'.rv
    BY <2>1, <2>6, <2>9 DEF VersionOf
  <2>10. (cycle # None => /\ VersionOf(cycle.obj, cycle.sub)
                         /\ cycle.obj.rv <= subLister(cycle.sub).rv)'
    BY <2>1, <2>9, SnapshotTypes DEF Coherent, VersionOf
  <2>11. (\A b \in Binder : binder[b] # None =>
            /\ VersionOf(binder[b].obj, binder[b].sub)
            /\ binder[b].obj.rv <= subLister(binder[b].sub).rv)'
    BY <2>1, <2>9, SnapshotTypes DEF Coherent, VersionOf
  <2> QED
    BY <2>7, <2>8, <2>10, <2>11 DEF Coherent
<1>2. ASSUME NEW s \in Sub, HandleSubEvent(s) PROVE Coherent'
  <2>1. /\ subs' = subs /\ cycle' = cycle /\ binder' = binder
        /\ subLog' = [subLog EXCEPT ![s] = Tail(@)] /\ Len(subLog[s]) > 1
    BY <1>2 DEF HandleSubEvent, apiVars
  <2>2. /\ subLog[s] \in Seq(Subscription)
        /\ subLog'[s] = Tail(subLog[s])
        /\ \A t \in Sub : t # s => subLog'[t] = subLog[t]
    BY <2>1 DEF TypeOK
  <2>3. /\ Len(subLog'[s]) = Len(subLog[s]) - 1
        /\ \A i \in 1..(Len(subLog[s]) - 1) : subLog'[s][i] = subLog[s][i + 1]
        /\ Len(subLog[s]) \in Nat
    <3>1. Len(subLog[s]) \in Nat
      BY ListerTypes
    <3>2. ASSUME NEW log \in Seq(Subscription), Len(log) > 1
          PROVE  /\ Len(Tail(log)) = Len(log) - 1
                 /\ \A i \in 1..(Len(log) - 1) : Tail(log)[i] = log[i + 1]
      BY <3>2, TailFacts
    <3> QED
      BY <2>1, <2>2, <3>1, <3>2
  <2>4. ASSUME NEW t \in Sub, NEW i \in 1..Len(subLog'[t])
        PROVE  VersionOf(subLog'[t][i], t)
    <3>1. CASE t = s
      <4>1. i \in 1..(Len(subLog[s]) - 1) /\ i + 1 \in 1..Len(subLog[s])
        BY <2>3, <2>4, <3>1
      <4> QED
        BY <2>3, <3>1, <4>1 DEF Coherent
    <3>2. CASE t # s
      BY <2>2, <3>2 DEF Coherent
    <3> QED
      BY <3>1, <3>2
  <2>5. \A t \in Sub : subLister(t)' = subLister(t)
    <3>1. /\ Len(subLog[s]) - 1 \in 1..(Len(subLog[s]) - 1)
          /\ (Len(subLog[s]) - 1) + 1 = Len(subLog[s])
      BY <2>1, <2>3
    <3>2. subLog'[s][Len(subLog'[s])] = subLog[s][Len(subLog[s])]
      BY <2>3, <3>1
    <3> QED
      BY <2>2, <3>2 DEF subLister, Newest
  <2>6. (\A t \in Sub : VersionOf(NoSub, t))'
    BY <2>1 DEF Coherent, VersionOf, NoSub
  <2>7. (\A t \in Sub : \A i \in 1..Len(subLog[t]) : VersionOf(subLog[t][i], t))'
    BY <2>1, <2>4, ZenonT(60) DEF VersionOf
  <2> QED
    BY <2>1, <2>5, <2>6, <2>7, SnapshotTypes DEF Coherent, VersionOf
<1>3. ASSUME NEW s \in Sub, GetNext(s) PROVE Coherent'
  <2>1. subs' = subs /\ subLog' = subLog /\ binder' = binder
    BY <1>3 DEF GetNext, apiVars, infVars
  <2>2. VersionOf(subLister(s), s) /\ subLister(s).rv \in Nat
    BY ListerTypes DEF Coherent, subLister, Newest, Subscription
  <2>3. cycle' = None \/ (cycle'.sub = s /\ cycle'.obj = subLister(s))
    <3>1. \/ cycle' = None
          \/ cycle' = [sub |-> s, obj |-> subLister(s), clusters |-> {}, stage |-> "filter"]
      BY <1>3, Zenon DEF GetNext
    <3>2. ASSUME NEW o
          PROVE  LET d == [sub |-> s, obj |-> o, clusters |-> {}, stage |-> "filter"]
                 IN  d.sub = s /\ d.obj = o
      OBVIOUS
    <3> QED
      BY <3>1, <3>2, Zenon
  <2> QED
    BY <2>1, <2>2, <2>3 DEF Coherent, VersionOf, subLister
<1>4. ASSUME SyncClusters \/ HandleClusterEvents PROVE Coherent'
  BY <1>4, CoherentStutter DEF SyncClusters, HandleClusterEvents, apiVars, procVars
<1>5. ASSUME FilterClusters PROVE Coherent'
  <2>1. subs' = subs /\ subLog' = subLog /\ binder' = binder
    BY <1>5 DEF FilterClusters, apiVars, infVars
  <2>2. cycle' = None \/ (cycle'.sub = cycle.sub /\ cycle'.obj = cycle.obj /\ cycle # None)
    <3>1. cycle \in Cycle
      BY <1>5 DEF FilterClusters, TypeOK
    <3>2. ASSUME NEW fit
          PROVE  LET d == [cycle EXCEPT !.clusters = fit, !.stage = "score"]
                 IN  d.sub = cycle.sub /\ d.obj = cycle.obj
      BY <3>1 DEF Cycle
    <3>3. \/ cycle' = None
          \/ \E fit : cycle' = [cycle EXCEPT !.clusters = fit, !.stage = "score"]
      BY <1>5, Zenon DEF FilterClusters
    <3>4. cycle # None
      BY <1>5 DEF FilterClusters
    <3> QED
      BY <3>2, <3>3, <3>4, Zenon
  <2> QED
    BY <2>1, <2>2 DEF Coherent, VersionOf, subLister
<1>6. ASSUME NEW b \in Binder, ScoreClusters(b) PROVE Coherent'
  <2>1. subs' = subs /\ subLog' = subLog /\ cycle' = None /\ cycle # None
    BY <1>6 DEF ScoreClusters, apiVars, infVars
  <2>2. \A d \in Binder : \/ binder'[d] = binder[d]
                          \/ binder'[d].sub = cycle.sub /\ binder'[d].obj = cycle.obj
    BY <1>6 DEF ScoreClusters, TypeOK
  <2> QED
    BY <2>1, <2>2 DEF Coherent, VersionOf, subLister
<1>7. ASSUME NEW b \in Binder, Bind(b) PROVE Coherent'
  <2> DEFINE w == binder[b]
  <2>1. subLog' = subLog /\ cycle' = cycle /\ w # None
    BY <1>7 DEF Bind, infVars
  <2>2. \A d \in Binder : binder'[d] \in {binder[d], None}
    BY <1>7 DEF Bind, TypeOK
  <2>3. CASE subs' = subs
    BY <2>1, <2>2, <2>3 DEF Coherent, VersionOf, subLister
  <2>4. CASE WriteSub(w.sub, Bound(w))
    <3>1. w \in Binding
      BY <2>1 DEF TypeOK
    <3>2. w.sub \in Sub /\ w.obj.spec \in SubSpec \cup {None} /\ w.clusters \in SUBSET Cluster
      BY <3>1 DEF Binding, Subscription
    <3>3. subs[w.sub] \in Subscription
      BY <3>2 DEF TypeOK
    <3> HIDE DEF w
    <3>4. Bound(w) \in Subscription
      BY <3>2, <3>3 DEF Bound, Subscription
    <3> QED
      BY <2>1, <2>2, <2>4, <3>2, <3>4, WriteCoherent
  <2> QED
    BY <1>7, <2>3, <2>4 DEF Bind
<1> QED
  BY <1>1, <1>2, <1>3, <1>4, <1>5, <1>6, <1>7 DEF Progress

(* Initially nothing has been read but the absence of every object. *)
LEMMA CoherentInit == Init => Coherent
<1> SUFFICES ASSUME Init PROVE Coherent  OBVIOUS
<1>1. \A s \in Sub : VersionOf(NoSub, s)
  <2>1. NoSub.rv <= NoSub.rv
    BY DEF NoSub
  <2>2. \A s \in Sub : subs[s] = NoSub
    BY DEF Init
  <2> QED
    BY <2>1, <2>2 DEF VersionOf
<1>2. \A s \in Sub : \A i \in 1..Len(subLog[s]) : subLog[s][i] = NoSub
  BY DEF Init
<1>3. cycle = None /\ \A b \in Binder : binder[b] = None
  BY DEF Init
<1> QED
  BY <1>1, <1>2, <1>3 DEF Coherent

-----------------------------------------------------------------------------
(* What a write does to a Subscription.                                    *)

(* A goroutine writes only if the version its cycle read is the current    *)
(* one: the binding it writes comes from the current spec.                 *)
LEMMA BindEffect ==
  ASSUME TypeOK, Coherent, NEW b \in Binder, Bind(b),
         Accepts(binder[b].sub, binder[b].obj)
  PROVE  /\ binder[b].sub \in Sub
         /\ binder[b].obj = subs[binder[b].sub]
         /\ subLister(binder[b].sub) = subs[binder[b].sub]
         /\ subs'[binder[b].sub].hash = subs[binder[b].sub].spec
         /\ subs'[binder[b].sub].spec = subs[binder[b].sub].spec
         /\ subs'[binder[b].sub].phase = subs[binder[b].sub].phase
         /\ \A s \in Sub : s # binder[b].sub => subs'[s] = subs[s]
<1> DEFINE w == binder[b]
<1>1. w # None /\ w.sub \in Sub /\ w.obj \in Subscription
  BY SnapshotTypes DEF Bind
<1>2. w.obj = subs[w.sub]
  BY <1>1 DEF Coherent, VersionOf, Accepts
<1>3. subLister(w.sub) = subs[w.sub]
  <2>1. w.obj.rv <= subLister(w.sub).rv
    BY <1>1 DEF Coherent
  <2>2. VersionOf(subLister(w.sub), w.sub) /\ subLister(w.sub).rv \in Nat
    BY <1>1, ListerTypes DEF Coherent, subLister, Newest, Subscription
  <2>3. subs[w.sub].rv \in Nat
    BY <1>1 DEF TypeOK, Subscription
  <2>4. subLister(w.sub).rv = subs[w.sub].rv
    BY <1>2, <2>1, <2>2, <2>3 DEF VersionOf
  <2> QED
    BY <2>2, <2>4 DEF VersionOf
<1>4. CASE subs' = subs /\ subs[w.sub].hash = w.obj.spec
  BY <1>1, <1>2, <1>3, <1>4
<1>5. CASE WriteSub(w.sub, Bound(w))
  <2>1. subs[w.sub] \in Subscription /\ subs \in [Sub -> Subscription]
    BY <1>1 DEF TypeOK
  <2> HIDE DEF w
  <2>2. subs'[w.sub] = [Bound(w) EXCEPT !.rv = subs[w.sub].rv + 1]
        /\ \A s \in Sub : s # w.sub => subs'[s] = subs[s]
    BY <1>1, <1>5, <2>1 DEF WriteSub
  <2>3. /\ subs'[w.sub].hash = w.obj.spec
        /\ subs'[w.sub].spec = subs[w.sub].spec
        /\ subs'[w.sub].phase = subs[w.sub].phase
    BY <2>1, <2>2 DEF Bound, Subscription
  <2> QED
    BY <1>1, <1>2, <1>3, <2>2, <2>3 DEF w
<1> QED
  BY <1>4, <1>5 DEF Bind

(* Nobody but a goroutine writes the status: a created Subscription has    *)
(* none, and the writes of users and of the hub keep it.                   *)
LEMMA EnvironmentEffect ==
  ASSUME TypeOK, Existing, Environment, NEW s \in Sub
  PROVE  /\ subs'[s].hash = subs[s].hash
         /\ subs'[s].binding = subs[s].binding
         /\ subs'[s].phase = "absent" => subs[s].phase = "absent" /\ subs'[s] = subs[s]
<1>0. subs[s] \in Subscription /\ subs \in [Sub -> Subscription]
  BY DEF TypeOK
<1>1. ASSUME NEW t \in Sub, NEW o \in Subscription, WriteSub(t, o),
             o.phase # "absent", o.hash = subs[t].hash, o.binding = subs[t].binding
      PROVE  /\ subs'[s].hash = subs[s].hash
             /\ subs'[s].binding = subs[s].binding
             /\ subs'[s].phase = "absent" => subs[s].phase = "absent" /\ subs'[s] = subs[s]
  <2>1. CASE s = t
    <3>1. subs'[s] = [o EXCEPT !.rv = subs[t].rv + 1]
      BY <1>0, <1>1, <2>1 DEF WriteSub
    <3> QED
      BY <1>1, <2>1, <3>1 DEF Subscription
  <2>2. CASE s # t
    BY <1>0, <1>1, <2>2 DEF WriteSub
  <2> QED
    BY <2>1, <2>2
<1>2. ASSUME NEW t \in Sub, NEW sp \in SubSpec, CreateSub(t, sp)
      PROVE  \E o \in Subscription : /\ WriteSub(t, o) /\ o.phase # "absent"
                                     /\ o.hash = subs[t].hash /\ o.binding = subs[t].binding
  <2> DEFINE o == [NoSub EXCEPT !.phase = "live", !.spec = sp]
  <2>1. o \in Subscription /\ o.phase = "live" /\ o.hash = NoSub.hash /\ o.binding = NoSub.binding
    BY DEF NoSub, Subscription
  <2>2. subs[t] = NoSub
    BY <1>2 DEF CreateSub, Existing
  <2> QED
    BY <1>2, <2>1, <2>2 DEF CreateSub
<1>3. ASSUME NEW t \in Sub, NEW sp \in SubSpec, UpdateSpec(t, sp)
      PROVE  \E o \in Subscription : /\ WriteSub(t, o) /\ o.phase # "absent"
                                     /\ o.hash = subs[t].hash /\ o.binding = subs[t].binding
  <2>1. subs[t] \in Subscription /\ subs[t].phase = "live"
    BY <1>3 DEF TypeOK, UpdateSpec
  <2> DEFINE o == [subs[t] EXCEPT !.spec = sp]
  <2>2. o \in Subscription /\ o.phase = "live" /\ o.hash = subs[t].hash /\ o.binding = subs[t].binding
    BY <2>1 DEF Subscription
  <2> QED
    BY <1>3, <2>2 DEF UpdateSpec
<1>4. ASSUME NEW t \in Sub, DeleteSub(t) \/ HubFinalize(t) \/ HubWritesMeta(t)
      PROVE  \E o \in Subscription : /\ WriteSub(t, o) /\ o.phase # "absent"
                                     /\ o.hash = subs[t].hash /\ o.binding = subs[t].binding
  <2>1. subs[t] \in Subscription
    BY DEF TypeOK
  <2>2. \A ph \in {"deleting", "gone"} :
          LET o == [subs[t] EXCEPT !.phase = ph]
          IN  /\ o \in Subscription /\ o.phase # "absent"
              /\ o.hash = subs[t].hash /\ o.binding = subs[t].binding
    BY <2>1 DEF Subscription
  <2>3. CASE DeleteSub(t) \/ HubFinalize(t)
    BY <2>2, <2>3 DEF DeleteSub, HubFinalize
  <2>4. CASE HubWritesMeta(t)
    <3>1. WriteSub(t, subs[t]) /\ subs[t].phase = "live"
      BY <2>4 DEF HubWritesMeta
    <3> QED
      BY <2>1, <3>1
  <2> QED
    BY <1>4, <2>3, <2>4
<1>5. CASE subs' = subs
  BY <1>5
<1>6. ASSUME NEW c \in Cluster, ClusterEvent(c) PROVE subs' = subs
  BY <1>6 DEF ClusterEvent, ChangeCluster
<1>7. ASSUME NEW b \in Binder, BindFails(b) PROVE subs' = subs
  BY <1>7 DEF BindFails, apiVars
<1>8. ASSUME Restart PROVE subs' = subs
  BY <1>8 DEF Restart, apiVars
<1> QED
  BY <1>1, <1>2, <1>3, <1>4, <1>5, <1>6, <1>7, <1>8 DEF Environment

(* Only a goroutine's write changes a Subscription in a step of the        *)
(* scheduler.                                                              *)
LEMMA ProgressEffect ==
  ASSUME Progress
  PROVE  subs' = subs \/ \E b \in Binder : Bind(b) /\ Accepts(binder[b].sub, binder[b].obj)
<1>1. ASSUME NEW b \in Binder, Bind(b), ~Accepts(binder[b].sub, binder[b].obj)
      PROVE  subs' = subs
  BY <1>1 DEF Bind
<1>2. ASSUME NEW s \in Sub, SyncSubs(s) \/ HandleSubEvent(s) \/ GetNext(s)
      PROVE  subs' = subs
  BY <1>2 DEF SyncSubs, HandleSubEvent, GetNext, apiVars
<1>3. ASSUME SyncClusters \/ HandleClusterEvents \/ FilterClusters
      PROVE  subs' = subs
  BY <1>3 DEF SyncClusters, HandleClusterEvents, FilterClusters, apiVars
<1>4. ASSUME NEW b \in Binder, ScoreClusters(b)
      PROVE  subs' = subs
  BY <1>4 DEF ScoreClusters, apiVars
<1> QED
  BY <1>1, <1>2, <1>3, <1>4 DEF Progress

(* A cycle starts with a Subscription that exists, and versions do not     *)
(* become absent again.                                                    *)
LEMMA ExistingStep ==
  ASSUME TypeOK, Coherent, Existing, [Next]_vars PROVE Existing'
<1>1. (\A s \in Sub : subs[s].phase = "absent" => subs[s] = NoSub)'
  <2>1. CASE subs' = subs
    BY <2>1 DEF Existing, NoSub
  <2>2. CASE Environment
    BY <2>2, EnvironmentEffect DEF Existing, NoSub
  <2>3. ASSUME NEW b \in Binder, Bind(b), Accepts(binder[b].sub, binder[b].obj)
        PROVE  (\A s \in Sub : subs[s].phase = "absent" => subs[s] = NoSub)'
    <3>1. subs'[binder[b].sub].phase # "absent"
      BY <2>3, BindEffect DEF Existing, Bind
    <3> QED
      BY <2>3, <3>1, BindEffect DEF Existing, NoSub
  <2> QED
    BY <2>1, <2>2, <2>3, ProgressEffect DEF Next, vars, apiVars
<1>2. /\ (cycle # None => cycle.obj.phase # "absent")'
      /\ (\A b \in Binder : binder[b] # None => binder[b].obj.phase # "absent")'
  <2>1. CASE UNCHANGED <<cycle, binder>>
    BY <2>1 DEF Existing
  <2>2. ASSUME NEW s \in Sub, GetNext(s)
        PROVE  /\ cycle' = None \/ cycle'.obj.phase # "absent"
               /\ binder' = binder
    BY <2>2 DEF GetNext
  <2>3. ASSUME FilterClusters
        PROVE  /\ cycle' = None \/ cycle'.obj.phase # "absent"
               /\ binder' = binder
    <3>1. cycle # None /\ cycle \in Cycle
      BY <2>3 DEF FilterClusters, TypeOK
    <3>2. \A fit : [cycle EXCEPT !.clusters = fit, !.stage = "score"].obj = cycle.obj
      BY <3>1 DEF Cycle
    <3>3. cycle' = None \/ cycle'.obj = cycle.obj
      BY <2>3, <3>2 DEF FilterClusters
    <3> QED
      BY <2>3, <3>1, <3>3 DEF FilterClusters, Existing
  <2>4. ASSUME NEW b \in Binder, ScoreClusters(b)
        PROVE  /\ cycle' = None
               /\ \A d \in Binder : binder'[d] # None => binder'[d].obj.phase # "absent"
    BY <2>4 DEF ScoreClusters, Existing, TypeOK
  <2>5. ASSUME NEW b \in Binder, Bind(b) \/ BindFails(b)
        PROVE  /\ cycle' = cycle
               /\ \A d \in Binder : binder'[d] \in {binder[d], None}
    BY <2>5 DEF Bind, BindFails, TypeOK
  <2>6. ASSUME Restart
        PROVE  cycle' = None /\ \A d \in Binder : binder'[d] = None
    BY <2>6 DEF Restart
  <2>7. ASSUME NEW s \in Sub, NEW sp \in SubSpec, CreateSub(s, sp) \/ UpdateSpec(s, sp)
        PROVE  UNCHANGED <<cycle, binder>>
    BY <2>7 DEF CreateSub, UpdateSpec, procVars
  <2>8. ASSUME NEW s \in Sub, \/ DeleteSub(s) \/ HubFinalize(s) \/ HubWritesMeta(s)
                              \/ SyncSubs(s) \/ HandleSubEvent(s)
        PROVE  UNCHANGED <<cycle, binder>>
    BY <2>8 DEF DeleteSub, HubFinalize, HubWritesMeta, SyncSubs, HandleSubEvent, procVars
  <2>9. ASSUME NEW c \in Cluster, ClusterEvent(c) PROVE UNCHANGED <<cycle, binder>>
    BY <2>9 DEF ClusterEvent, ChangeCluster, procVars
  <2>10. ASSUME SyncClusters \/ HandleClusterEvents PROVE UNCHANGED <<cycle, binder>>
    BY <2>10 DEF SyncClusters, HandleClusterEvents, procVars
  <2>11. CASE Environment
    BY <2>1, <2>5, <2>6, <2>7, <2>8, <2>9, <2>11 DEF Environment, Existing
  <2>12. CASE Progress
    BY <2>1, <2>2, <2>3, <2>4, <2>5, <2>8, <2>10, <2>12 DEF Progress, Existing
  <2>13. CASE UNCHANGED vars
    BY <2>1, <2>13 DEF vars, procVars
  <2> QED
    BY <2>11, <2>12, <2>13 DEF Next
<1> QED
  BY <1>1, <1>2 DEF Existing

(* Everything that cycles and goroutines hold is coherent with the API     *)
(* server, in every reachable state.                                       *)
LEMMA AlwaysCoherent == Spec => [](TypeOK /\ Coherent /\ Existing)
<1>1. Init => TypeOK /\ Coherent /\ Existing
  BY TypeInit, CoherentInit DEF Init, Existing
<1>2. TypeOK /\ Coherent /\ Existing /\ [Next]_vars => (TypeOK /\ Coherent /\ Existing)'
  <2> SUFFICES ASSUME TypeOK, Coherent, Existing, [Next]_vars
               PROVE  (TypeOK /\ Coherent /\ Existing)'
    OBVIOUS
  <2>1. Existing'
    BY ExistingStep
  <2>2. CASE Environment
    BY <2>1, <2>2, TypeEnvironment, CoherentEnvironment
  <2>3. CASE Progress
    BY <2>1, <2>3, TypeProgress, CoherentProgress
  <2>4. CASE UNCHANGED vars
    <3>1. Coherent'
      BY <2>4, CoherentStutter DEF vars, apiVars, infVars, procVars
    <3>2. TypeOK'
      BY <2>4 DEF TypeOK, vars, apiVars, infVars, procVars
    <3> QED
      BY <2>1, <3>1, <3>2
  <2> QED
    BY <2>2, <2>3, <2>4 DEF Next
<1> QED
  BY <1>1, <1>2, PTL DEF Spec

(* The status that a binding goroutine writes is always the outcome of a   *)
(* cycle that ran on the spec now in the API server: UpdateStatus refuses  *)
(* a version that is not the current one, and nobody else writes it.       *)
THEOREM BindsAreCurrent == Spec => BindFromCurrentSpec
<1> DEFINE Current(s) ==
      \/ subs'[s].hash = subs[s].hash /\ subs'[s].binding = subs[s].binding
      \/ subs'[s].hash = subs'[s].spec
<1>1. TypeOK /\ Coherent /\ Existing /\ [Next]_vars => [\A s \in Sub : Current(s)]_vars
  <2> SUFFICES ASSUME TypeOK, Coherent, Existing, Next, NEW s \in Sub
               PROVE  Current(s)
    OBVIOUS
  <2>1. CASE Environment
    BY <2>1, EnvironmentEffect
  <2>2. CASE subs' = subs
    BY <2>2
  <2>3. ASSUME NEW b \in Binder, Bind(b), Accepts(binder[b].sub, binder[b].obj)
        PROVE  Current(s)
    BY <2>3, BindEffect
  <2> QED
    BY <2>1, <2>2, <2>3, ProgressEffect DEF Next
<1> QED
  BY <1>1, AlwaysCoherent, PTL DEF Spec, BindFromCurrentSpec

-----------------------------------------------------------------------------
(* No Subscription is forgotten.                                           *)

(* In a step that leaves the logs and the cycle alone, keeps or enlarges   *)
(* the queue and lets a goroutine end only if it is accounted for, every   *)
(* Subscription stays followed.                                            *)
LEMMA FollowedByQueue ==
  ASSUME Followed, UNCHANGED subLog, queue \subseteq queue',
         \A s \in Sub : InFlight(s) => InFlight(s)' \/ subs'[s].hash = subLister(s).spec,
         \A s \in Sub : subs'[s].hash = subs[s].hash \/ subs'[s].hash = subLister(s).spec
  PROVE  Followed'
<1> SUFFICES ASSUME NEW s \in Sub, Schedulable(subLister(s))'
             PROVE  \/ subs'[s].hash = subLister(s)'.spec
                    \/ InFlight(s)'
                    \/ ChangeLogged(s)'
  BY DEF Followed
<1>1. subLister(s)' = subLister(s) /\ (ChangeLogged(s) => ChangeLogged(s)')
  BY DEF subLister, ChangeLogged, SubNeedsScheduling, Schedulable
<1>2. Schedulable(subLister(s))
  BY <1>1 DEF Schedulable
<1> QED
  BY <1>1, <1>2 DEF Followed

(* Users, the hub and faults: writes leave the status alone, a failed      *)
(* goroutine requeues its Subscription, a restart replays every object.    *)
LEMMA FollowedEnvironment ==
  ASSUME IndInv, Environment PROVE Followed'
<1> USE DEF IndInv
<1>1. CASE UNCHANGED <<subLog, queue, cycle, binder>>
  <2>1. \A s \in Sub : InFlight(s) => InFlight(s)'
    BY <1>1 DEF InFlight
  <2> QED
    BY <1>1, <2>1, EnvironmentEffect, FollowedByQueue
<1>2. ASSUME NEW b \in Binder, BindFails(b) PROVE Followed'
  <2>1. /\ subLog' = subLog /\ cycle' = cycle /\ queue' = queue \cup {binder[b].sub}
        /\ \A d \in Binder : d # b => binder'[d] = binder[d]
    BY <1>2 DEF BindFails, infVars, Requeue, TypeOK
  <2>2. \A s \in Sub : InFlight(s) => InFlight(s)'
    BY <2>1 DEF InFlight
  <2> QED
    BY <2>1, <2>2, EnvironmentEffect, FollowedByQueue
<1>3. ASSUME Restart PROVE Followed'
  <2>1. \A s \in Sub : Len(subLog'[s]) = 2 /\ subLog'[s][1] = NoSub /\ subLog'[s][2] = subs[s]
    BY <1>3 DEF Restart
  <2>2. ~Schedulable(NoSub)
    BY DEF Schedulable, NoSub
  <2>3. ASSUME NEW s \in Sub, Schedulable(subLister(s))' PROVE ChangeLogged(s)'
    <3>1. subLister(s)' = subs[s]
      BY <2>1 DEF subLister, Newest
    <3>2. SubNeedsScheduling(subLog'[s][1], subLog'[s][2])
      BY <2>1, <2>2, <2>3, <3>1 DEF SubNeedsScheduling, Schedulable
    <3>3. 2 \in 2..Len(subLog'[s]) /\ 2 - 1 = 1
      BY <2>1
    <3> QED
      BY <3>2, <3>3 DEF ChangeLogged, SubNeedsScheduling, Schedulable
  <2> QED
    BY <2>3 DEF Followed
<1>4. ASSUME NEW s \in Sub, NEW sp \in SubSpec, CreateSub(s, sp) \/ UpdateSpec(s, sp)
      PROVE  Followed'
  BY <1>1, <1>4 DEF CreateSub, UpdateSpec, infVars, procVars
<1>5. ASSUME NEW s \in Sub, DeleteSub(s) \/ HubFinalize(s) \/ HubWritesMeta(s)
      PROVE  Followed'
  BY <1>1, <1>5 DEF DeleteSub, HubFinalize, HubWritesMeta, infVars, procVars
<1>6. ASSUME NEW c \in Cluster, ClusterEvent(c) PROVE Followed'
  <2>1. UNCHANGED <<infVars, procVars>>
    BY <1>6 DEF ClusterEvent, ChangeCluster
  <2> QED
    BY <1>1, <2>1 DEF infVars, procVars
<1> QED
  BY <1>2, <1>3, <1>4, <1>5, <1>6 DEF Environment

(* The informers and handlers hand every change on to the queue, and a key *)
(* taken from it stays in a cycle or a goroutine until its binding is      *)
(* written or it is queued again.                                          *)
LEMMA FollowedProgress ==
  ASSUME IndInv, Progress PROVE Followed'
<1> USE DEF IndInv
<1>1. ASSUME NEW s \in Sub, SyncSubs(s) PROVE Followed'
  <2>1. /\ subs' = subs /\ UNCHANGED <<queue, cycle, binder>>
        /\ subLog'[s] = Append(subLog[s], subs[s])
        /\ \A t \in Sub : t # s => subLog'[t] = subLog[t]
    BY <1>1 DEF SyncSubs, apiVars, procVars, TypeOK
  <2>2. \A t \in Sub : InFlight(t)' <=> InFlight(t)
    BY <2>1 DEF InFlight
  <2>3. /\ Len(subLog[s]) \in Nat /\ Len(subLog[s]) >= 1
        /\ Len(subLog'[s]) = Len(subLog[s]) + 1
        /\ \A i \in 1..Len(subLog[s]) : subLog'[s][i] = subLog[s][i]
        /\ subLog'[s][Len(subLog[s]) + 1] = subs[s]
    <3>1. subLog[s] \in Seq(Subscription) /\ subs[s] \in Subscription
      BY DEF TypeOK
    <3>2. Len(subLog[s]) \in Nat /\ Len(subLog[s]) >= 1
      BY ListerTypes
    <3> QED
      BY <2>1, <3>1, <3>2, AppendFacts
  <2>4. subLister(s)' = subs[s] /\ \A t \in Sub : t # s => subLister(t)' = subLister(t)
    BY <2>1, <2>3 DEF subLister, Newest
  <2>5. ChangeLogged(s) => ChangeLogged(s)'
    <3> SUFFICES ASSUME NEW i \in 2..Len(subLog[s]),
                        SubNeedsScheduling(subLog[s][i - 1], subLog[s][i])
                 PROVE  ChangeLogged(s)'
      BY DEF ChangeLogged
    <3>1. /\ i \in 2..Len(subLog'[s])
          /\ i \in 1..Len(subLog[s]) /\ i - 1 \in 1..Len(subLog[s])
      BY <2>3
    <3>2. subLog'[s][i] = subLog[s][i] /\ subLog'[s][i - 1] = subLog[s][i - 1]
      BY <2>3, <3>1
    <3> QED
      BY <3>1, <3>2 DEF ChangeLogged, SubNeedsScheduling, Schedulable
  <2>6. SubNeedsScheduling(subLister(s), subs[s]) => ChangeLogged(s)'
    <3>1. /\ Len(subLog[s]) + 1 \in 2..Len(subLog'[s])
          /\ (Len(subLog[s]) + 1) - 1 = Len(subLog[s])
          /\ Len(subLog[s]) \in 1..Len(subLog[s])
      BY <2>3
    <3>2. subLog'[s][(Len(subLog[s]) + 1) - 1] = subLister(s)
      BY <2>3, <3>1 DEF subLister, Newest
    <3> QED
      BY <2>3, <3>1, <3>2 DEF ChangeLogged, SubNeedsScheduling, Schedulable
  <2>7. ASSUME NEW t \in Sub, Schedulable(subLister(t))'
        PROVE  subs'[t].hash = subLister(t)'.spec \/ InFlight(t)' \/ ChangeLogged(t)'
    <3>1. CASE t = s
      BY <2>1, <2>2, <2>4, <2>5, <2>6, <2>7, <3>1
         DEF Followed, SubNeedsScheduling, Schedulable
    <3>2. CASE t # s
      <4>1. ChangeLogged(t) => ChangeLogged(t)'
        BY <2>1, <3>2 DEF ChangeLogged, SubNeedsScheduling, Schedulable
      <4> QED
        BY <2>1, <2>2, <2>4, <2>7, <3>2, <4>1 DEF Followed, Schedulable
    <3> QED
      BY <3>1, <3>2
  <2> QED
    BY <2>7 DEF Followed
<1>2. ASSUME NEW s \in Sub, HandleSubEvent(s) PROVE Followed'
  <2>1. /\ subs' = subs /\ UNCHANGED <<cycle, binder>> /\ queue \subseteq queue'
        /\ Len(subLog[s]) > 1 /\ subLog'[s] = Tail(subLog[s])
        /\ SubNeedsScheduling(subLog[s][1], subLog[s][2]) => s \in queue'
        /\ \A t \in Sub : t # s => subLog'[t] = subLog[t]
    BY <1>2 DEF HandleSubEvent, apiVars, TypeOK
  <2>2. \A t \in Sub : InFlight(t) => InFlight(t)'
    BY <2>1 DEF InFlight
  <2>3. /\ Len(subLog[s]) \in Nat /\ Len(subLog[s]) > 1
        /\ Len(subLog'[s]) = Len(subLog[s]) - 1
        /\ \A i \in 1..(Len(subLog[s]) - 1) : subLog'[s][i] = subLog[s][i + 1]
    <3>1. ASSUME NEW log \in Seq(Subscription), Len(log) > 1
          PROVE  /\ Len(Tail(log)) = Len(log) - 1
                 /\ \A i \in 1..(Len(log) - 1) : Tail(log)[i] = log[i + 1]
      BY <3>1, TailFacts
    <3>2. subLog[s] \in Seq(Subscription) /\ Len(subLog[s]) \in Nat
      BY ListerTypes DEF TypeOK
    <3> QED
      BY <2>1, <3>1, <3>2
  <2>4. \A t \in Sub : subLister(t)' = subLister(t)
    <3>1. /\ Len(subLog[s]) - 1 \in 1..(Len(subLog[s]) - 1)
          /\ (Len(subLog[s]) - 1) + 1 = Len(subLog[s])
      BY <2>3
    <3>2. subLog'[s][Len(subLog'[s])] = subLog[s][Len(subLog[s])]
      BY <2>3, <3>1
    <3> QED
      BY <2>1, <3>2 DEF subLister, Newest
  <2>5. ChangeLogged(s) => InFlight(s)' \/ ChangeLogged(s)'
    <3> SUFFICES ASSUME NEW i \in 2..Len(subLog[s]),
                        SubNeedsScheduling(subLog[s][i - 1], subLog[s][i])
                 PROVE  InFlight(s)' \/ ChangeLogged(s)'
      BY DEF ChangeLogged
    <3>1. CASE i = 2
      <4>1. s \in queue'
        BY <2>1, <3>1
      <4> QED
        BY <4>1 DEF InFlight
    <3>2. CASE i > 2
      <4>1. /\ i - 1 \in 2..Len(subLog'[s])
            /\ i - 1 \in 1..(Len(subLog[s]) - 1) /\ (i - 1) - 1 \in 1..(Len(subLog[s]) - 1)
            /\ (i - 1) + 1 = i /\ ((i - 1) - 1) + 1 = i - 1
        BY <2>3, <3>2
      <4>2. subLog'[s][i - 1] = subLog[s][i] /\ subLog'[s][(i - 1) - 1] = subLog[s][i - 1]
        BY <2>3, <4>1
      <4> QED
        BY <4>1, <4>2 DEF ChangeLogged, SubNeedsScheduling, Schedulable
    <3> QED
      BY <3>1, <3>2
  <2>6. ASSUME NEW t \in Sub, Schedulable(subLister(t))'
        PROVE  subs'[t].hash = subLister(t)'.spec \/ InFlight(t)' \/ ChangeLogged(t)'
    <3>1. ChangeLogged(t) => InFlight(t)' \/ ChangeLogged(t)'
      BY <2>1, <2>5 DEF ChangeLogged, SubNeedsScheduling, Schedulable
    <3> QED
      BY <2>1, <2>2, <2>4, <2>6, <3>1 DEF Followed, Schedulable
  <2> QED
    BY <2>6 DEF Followed
<1>3. ASSUME NEW s \in Sub, GetNext(s) PROVE Followed'
  <2>1. /\ subs' = subs /\ subLog' = subLog /\ binder' = binder
        /\ queue' = queue \ {s} /\ cycle = None
    BY <1>3 DEF GetNext, apiVars, infVars
  <2>2. Schedulable(subLister(s)) => cycle' # None /\ cycle'.sub = s
    <3>1. ASSUME Schedulable(subLister(s))
          PROVE  cycle' = [sub |-> s, obj |-> subLister(s), clusters |-> {}, stage |-> "filter"]
      BY <1>3, <3>1 DEF GetNext, Schedulable
    <3>2. [sub |-> s, obj |-> subLister(s), clusters |-> {}, stage |-> "filter"] \in Cycle
      BY ListerTypes DEF Cycle
    <3> QED
      BY <3>1, <3>2, NoneAssumption
  <2>3. ASSUME NEW t \in Sub, Schedulable(subLister(t))'
        PROVE  subs'[t].hash = subLister(t)'.spec \/ InFlight(t)' \/ ChangeLogged(t)'
    <3>1. subLister(t)' = subLister(t) /\ (ChangeLogged(t) => ChangeLogged(t)')
      BY <2>1 DEF subLister, ChangeLogged, SubNeedsScheduling, Schedulable
    <3>2. InFlight(t) => InFlight(t)'
      BY <2>1, <2>2, <2>3, <3>1 DEF InFlight, Schedulable
    <3> QED
      BY <2>1, <2>3, <3>1, <3>2 DEF Followed, Schedulable
  <2> QED
    BY <2>3 DEF Followed
<1>4. ASSUME SyncClusters \/ HandleClusterEvents PROVE Followed'
  <2>1. UNCHANGED <<subs, subLog, cycle, binder>> /\ queue \subseteq queue'
    BY <1>4 DEF SyncClusters, HandleClusterEvents, apiVars, procVars
  <2>2. \A s \in Sub : InFlight(s) => InFlight(s)'
    BY <2>1 DEF InFlight
  <2> QED
    BY <2>1, <2>2, FollowedByQueue
<1>5. ASSUME FilterClusters PROVE Followed'
  <2>1. /\ UNCHANGED <<subs, subLog, binder>> /\ queue \subseteq queue'
        /\ cycle # None /\ cycle \in Cycle
    BY <1>5 DEF FilterClusters, Requeue, apiVars, infVars, TypeOK
  <2>2. cycle.sub \in queue' \/ (cycle' # None /\ cycle'.sub = cycle.sub)
    <3>1. \A fit \in SUBSET Cluster :
            LET d == [cycle EXCEPT !.clusters = fit, !.stage = "score"]
            IN  d \in Cycle /\ d.sub = cycle.sub
      BY <2>1 DEF Cycle
    <3>2. Feasible(clusterLister, cycle.obj.spec) \in SUBSET Cluster
      BY DEF Feasible
    <3> QED
      BY <1>5, <3>1, <3>2, NoneAssumption DEF FilterClusters, Requeue
  <2>3. \A s \in Sub : InFlight(s) => InFlight(s)'
    BY <2>1, <2>2 DEF InFlight
  <2> QED
    BY <2>1, <2>3, FollowedByQueue
<1>6. ASSUME NEW b \in Binder, ScoreClusters(b) PROVE Followed'
  <2>1. /\ UNCHANGED <<subs, subLog>> /\ queue \subseteq queue'
        /\ cycle # None /\ cycle \in Cycle
        /\ \A d \in Binder : d # b => binder'[d] = binder[d]
        /\ binder[b] = None
    BY <1>6 DEF ScoreClusters, Requeue, apiVars, infVars, TypeOK
  <2>2. cycle.sub \in queue' \/ (binder'[b] # None /\ binder'[b].sub = cycle.sub)
    <3>1. [sub |-> cycle.sub, obj |-> cycle.obj, clusters |-> cycle.clusters] \in Binding
      BY <2>1 DEF Cycle, Binding
    <3> QED
      BY <1>6, <3>1, NoneAssumption DEF ScoreClusters, Requeue, TypeOK
  <2>3. \A s \in Sub : InFlight(s) => InFlight(s)'
    BY <2>1, <2>2 DEF InFlight
  <2> QED
    BY <2>1, <2>3, FollowedByQueue
<1>7. ASSUME NEW b \in Binder, Bind(b) PROVE Followed'
  <2>1. /\ subLog' = subLog /\ cycle' = cycle /\ queue \subseteq queue'
        /\ \A d \in Binder : d # b => binder'[d] = binder[d]
    BY <1>7 DEF Bind, Requeue, infVars, TypeOK
  <2>2. CASE Accepts(binder[b].sub, binder[b].obj)
    <3>1. /\ subs'[binder[b].sub].hash = subLister(binder[b].sub).spec
          /\ \A s \in Sub : s # binder[b].sub => subs'[s] = subs[s]
      BY <1>7, <2>2, BindEffect
    <3>2. \A s \in Sub : \/ subs'[s].hash = subs[s].hash
                          \/ subs'[s].hash = subLister(s).spec
      BY <3>1
    <3>3. \A s \in Sub : InFlight(s) => InFlight(s)' \/ subs'[s].hash = subLister(s).spec
      BY <2>1, <3>1 DEF InFlight
    <3> QED
      BY <2>1, <3>2, <3>3, FollowedByQueue
  <2>3. CASE ~Accepts(binder[b].sub, binder[b].obj)
    <3>1. subs' = subs /\ binder[b].sub \in queue'
      BY <1>7, <2>3 DEF Bind, Requeue
    <3>2. \A s \in Sub : InFlight(s) => InFlight(s)'
      BY <2>1, <3>1 DEF InFlight
    <3> QED
      BY <2>1, <3>1, <3>2, FollowedByQueue
  <2> QED
    BY <2>2, <2>3
<1> QED
  BY <1>1, <1>2, <1>3, <1>4, <1>5, <1>6, <1>7 DEF Progress

(* The inductive invariant holds in every reachable state. *)
THEOREM Inductive == Spec => []IndInv
<1>1. Init => Followed
  <2>1. Init => \A s \in Sub : subLister(s) = NoSub
    <3>1. <<NoSub>>[Len(<<NoSub>>)] = NoSub
      OBVIOUS
    <3>2. Init => \A s \in Sub : subLog[s] = <<NoSub>>
      BY DEF Init
    <3> QED
      BY <3>1, <3>2, Zenon DEF subLister, Newest
  <2>2. ~Schedulable(NoSub)
    BY DEF Schedulable, NoSub
  <2> QED
    BY <2>1, <2>2 DEF Followed
<1>2. /\ TypeOK /\ Coherent /\ Existing /\ Followed
      /\ [Next]_vars
      => Followed'
  <2> SUFFICES ASSUME IndInv, [Next]_vars PROVE Followed'
    BY DEF IndInv
  <2>1. CASE UNCHANGED vars
    <3>1. UNCHANGED <<subs, subLog, queue, cycle, binder>>
      BY <2>1 DEF vars, apiVars, infVars, procVars
    <3>2. \A s \in Sub : InFlight(s) => InFlight(s)'
      BY <3>1 DEF InFlight
    <3> QED
      BY <3>1, <3>2, FollowedByQueue DEF IndInv
  <2> QED
    BY <2>1, FollowedEnvironment, FollowedProgress DEF Next
<1>3. TypeOK /\ Coherent /\ Existing /\ Followed => IndInv
  BY DEF IndInv
<1> QED
  BY <1>1, <1>2, <1>3, AlwaysCoherent, PTL DEF Spec

(* A Subscription whose current spec has not been scheduled is never       *)
(* forgotten, although Done is called before its binding is written and    *)
(* informers, handlers, conflicts, failures and restarts intervene.        *)
THEOREM NothingLost == Spec => []NoLostSubscription
<1>1. IndInv => NoLostSubscription
  <2> SUFFICES ASSUME IndInv, NEW s \in Sub,
                      subs[s].phase = "live", subs[s].hash # subs[s].spec,
                      ~SubNeedsScheduling(subLister(s), subs[s])
               PROVE  InFlight(s) \/ ChangeLogged(s)
    BY DEF NoLostSubscription, EventComing, ChangeLogged
  <2>1. Schedulable(subLister(s)) /\ subLister(s).spec = subs[s].spec
    BY DEF SubNeedsScheduling, Schedulable
  <2> QED
    BY <2>1 DEF IndInv, Followed
<1> QED
  BY <1>1, Inductive, PTL

-----------------------------------------------------------------------------
(* Bindings, as long as clusters only become eligible.                     *)

(* From list l to list m, clusters have only become eligible. *)
Below(l, m) ==
  \A c \in Cluster : l.obj[c].phase # "absent" =>
    m.obj[c] \in {l.obj[c], [l.obj[c] EXCEPT !.tainted = FALSE]}

(* So it is along the log, and from there to the API server. *)
Chain ==
  \A i \in 1..Len(clLog) :
    /\ Below(clLog[i], clusters)
    /\ \A j \in 1..Len(clLog) : i < j => Below(clLog[i], clLog[j])

(* A Subscription that is live has a spec. *)
Specified ==
  \A s \in Sub :
    /\ Schedulable(subs[s]) => subs[s].spec # None
    /\ \A i \in 1..Len(subLog[s]) : Schedulable(subLog[s][i]) => subLog[s][i].spec # None

(* A version that differs from the lister's is followed by a change that   *)
(* the handlers are still to be told of ...                                *)
Same(o, n) == Schedulable(o) /\ o.spec = n.spec

Replayed ==
  \A s \in Sub : Schedulable(subLister(s)) =>
    \A i \in 1..Len(subLog[s]) :
      \/ Same(subLog[s][i], subLister(s))
      \/ \E k \in (i + 1)..Len(subLog[s]) : SubNeedsScheduling(subLog[s][k - 1], subLog[s][k])

(* ... and the subscribersMap has the version that they were told of.      *)
Mapped ==
  \A s \in Sub : Schedulable(subLog[s][1]) => subscribersMap[s] = subLog[s][1].spec

(* The outcome w of a cycle, or what is to become of it: its clusters fit  *)
(* the list, and if it can be written over o, they include those of o.     *)
Fits(w, list, o) ==
  /\ w.clusters \subseteq Feasible(list, w.obj.spec)
  /\ w.obj.rv = o.rv /\ o.hash = w.obj.spec => o.binding \subseteq w.clusters

AllFit ==
  /\ \A s \in Sub : subs[s].binding \subseteq Feasible(clusterLister, subs[s].hash)
  /\ cycle # None /\ cycle.stage = "score" => Fits(cycle, clusterLister, subs[cycle.sub])
  /\ \A b \in Binder : binder[b] # None => Fits(binder[b], clusterLister, subs[binder[b].sub])

(* w will be tried again, or has every cluster of the list that fits. *)
Carries(w, list, o) ==
  \/ o.phase = "gone" \/ o.rv # w.obj.rv
  \/ Feasible(list, w.obj.spec) \subseteq w.clusters

(* Whatever the handlers have been told of is in the binding, or somebody  *)
(* is about to put it there.                                               *)
Handled(s) ==
  \/ s \in queue
  \/ /\ cycle # None /\ cycle.sub = s
     /\ cycle.stage = "filter" \/ Carries(cycle, clLog[1], subs[s])
  \/ \E b \in Binder : /\ binder[b] # None /\ binder[b].sub = s
                       /\ Carries(binder[b], clLog[1], subs[s])
  \/ /\ subs[s].hash = subLister(s).spec
     /\ Feasible(clLog[1], subLister(s).spec) \subseteq subs[s].binding

Covered(s) == Schedulable(subLister(s)) /\ ~ChangeLogged(s) => Handled(s)

AllCovered == \A s \in Sub : Covered(s)

GrowthInv == Specified /\ Replayed /\ Mapped /\ Chain /\ AllFit /\ AllCovered

(* A cluster that fits stays so, and one that fits only now has changed in *)
(* a way that the handlers act on.                                         *)
LEMMA BelowFacts ==
  ASSUME NEW l \in ClusterList, NEW m \in ClusterList, Below(l, m), NEW sp
  PROVE  /\ Feasible(l, sp) \subseteq Feasible(m, sp)
         /\ \A c \in Feasible(m, sp) \ Feasible(l, sp) :
              ClusterNeedsScheduling(l.obj[c], m.obj[c]) /\ m.obj[c].label \in Affinity[sp]
<1>1. ASSUME NEW c \in Cluster
      PROVE  /\ c \in Feasible(l, sp) => c \in Feasible(m, sp)
             /\ c \in Feasible(m, sp) /\ c \notin Feasible(l, sp) =>
                  ClusterNeedsScheduling(l.obj[c], m.obj[c]) /\ m.obj[c].label \in Affinity[sp]
  <2> DEFINE o == l.obj[c]
             q == m.obj[c]
  <2>1. o \in ManagedCluster /\ q \in ManagedCluster
    BY DEF ClusterList
  <2>2. o.phase # "absent" => q \in {o, [o EXCEPT !.tainted = FALSE]}
    BY DEF Below
  <2>3. /\ c \in Feasible(l, sp) <=> /\ o.phase = "live" /\ o.label \in Affinity[sp]
                                     /\ o.tainted => sp \in Tolerant
        /\ c \in Feasible(m, sp) <=> /\ q.phase = "live" /\ q.label \in Affinity[sp]
                                     /\ q.tainted => sp \in Tolerant
    BY DEF Feasible
  <2> HIDE DEF o, q
  <2>4. CASE o.phase = "absent"
    BY <2>3, <2>4 DEF ClusterNeedsScheduling, o, q
  <2>5. CASE q = o
    BY <2>3, <2>5
  <2>6. CASE q = [o EXCEPT !.tainted = FALSE]
    <3>1. q.phase = o.phase /\ q.label = o.label /\ q.tainted = FALSE
      BY <2>1, <2>6 DEF ManagedCluster
    <3>2. c \in Feasible(l, sp) => c \in Feasible(m, sp)
      BY <2>3, <3>1
    <3>3. ASSUME c \in Feasible(m, sp), c \notin Feasible(l, sp)
          PROVE  q.phase = "live" /\ o.tainted /\ q.label \in Affinity[sp]
      BY <2>3, <3>1, <3>3
    <3>4. o.tainted => o.tainted # q.tainted
      BY <2>1, <3>1 DEF ManagedCluster
    <3>. QED  BY <3>2, <3>3, <3>4 DEF ClusterNeedsScheduling, o, q
  <2>. QED  BY <2>2, <2>4, <2>5, <2>6
<1>. QED  BY <1>1 DEF Feasible

LEMMA BelowOrder ==
  /\ \A l \in ClusterList : Below(l, l)
  /\ \A l, m, n \in ClusterList : Below(l, m) /\ Below(m, n) => Below(l, n)
  /\ NoClusters \in ClusterList /\ \A l \in ClusterList : Below(NoClusters, l)
<1>1. \A l \in ClusterList : Below(l, l)
  BY DEF Below
<1>2. ASSUME NEW l \in ClusterList, NEW m \in ClusterList, NEW n \in ClusterList,
             Below(l, m), Below(m, n), NEW c \in Cluster, l.obj[c].phase # "absent"
      PROVE  n.obj[c] \in {l.obj[c], [l.obj[c] EXCEPT !.tainted = FALSE]}
  <2>1. l.obj[c] \in ManagedCluster /\ m.obj[c] \in {l.obj[c], [l.obj[c] EXCEPT !.tainted = FALSE]}
    BY <1>2 DEF ClusterList, Below
  <2>2. m.obj[c].phase # "absent"
    BY <1>2, <2>1 DEF ManagedCluster
  <2>3. n.obj[c] \in {m.obj[c], [m.obj[c] EXCEPT !.tainted = FALSE]}
    BY <1>2, <2>2 DEF Below
  <2>. QED  BY <2>1, <2>3 DEF ManagedCluster
<1>3. NoClusters \in ClusterList
  <2>1. (CHOOSE l \in Label : TRUE) \in Label
    BY SpecAssumption
  <2>. QED  BY <2>1 DEF NoClusters, NoCluster, ClusterList, ManagedCluster
<1>4. \A l \in ClusterList : Below(NoClusters, l)
  BY DEF Below, NoClusters, NoCluster
<1>. QED  BY <1>1, <1>2, <1>3, <1>4 DEF Below

(* The logs after a step of an informer or of the handlers. *)
LEMMA SyncSubsFacts ==
  ASSUME TypeOK, NEW s \in Sub, SyncSubs(s)
  PROVE  /\ UNCHANGED <<subs, clusters, clLog, subscribersMap, queue, cycle, binder>>
         /\ \A t \in Sub : t # s => subLog'[t] = subLog[t]
         /\ Len(subLog[s]) \in Nat \ {0} /\ Len(subLog'[s]) = Len(subLog[s]) + 1
         /\ \A i \in 1..Len(subLog[s]) : subLog'[s][i] = subLog[s][i]
         /\ subLog'[s][Len(subLog[s]) + 1] = subs[s]
         /\ subLister(s)' = subs[s] /\ subLog[s][Len(subLog[s])] = subLister(s)
<1>1. /\ UNCHANGED <<subs, clusters, clLog, subscribersMap, queue, cycle, binder>>
      /\ subLog'[s] = Append(subLog[s], subs[s])
      /\ \A t \in Sub : t # s => subLog'[t] = subLog[t]
  BY DEF SyncSubs, apiVars, procVars, TypeOK
<1>2. /\ subLog[s] \in Seq(Subscription) /\ subs[s] \in Subscription
      /\ Len(subLog[s]) \in Nat \ {0}
  BY ListerTypes DEF TypeOK
<1>3. /\ Len(subLog'[s]) = Len(subLog[s]) + 1
      /\ \A i \in 1..Len(subLog[s]) : subLog'[s][i] = subLog[s][i]
      /\ subLog'[s][Len(subLog[s]) + 1] = subs[s]
  BY <1>1, <1>2, AppendFacts
<1>. QED  BY <1>1, <1>2, <1>3 DEF subLister, Newest

LEMMA HandleSubFacts ==
  ASSUME TypeOK, NEW s \in Sub, HandleSubEvent(s)
  PROVE  /\ UNCHANGED <<subs, clusters, clLog, cycle, binder>> /\ queue \subseteq queue'
         /\ \A t \in Sub : t # s => /\ subLog'[t] = subLog[t]
                                    /\ subscribersMap'[t] = subscribersMap[t]
         /\ Len(subLog[s]) \in Nat /\ Len(subLog[s]) > 1 /\ Len(subLog'[s]) = Len(subLog[s]) - 1
         /\ \A i \in 1..(Len(subLog[s]) - 1) : subLog'[s][i] = subLog[s][i + 1]
         /\ subLister(s)' = subLister(s)
         /\ SubNeedsScheduling(subLog[s][1], subLog[s][2]) => s \in queue'
         /\ subscribersMap'[s] \in SubscribersAfter(s, subLog[s][1], subLog[s][2])
<1>1. /\ UNCHANGED <<subs, clusters, clLog, cycle, binder>> /\ queue \subseteq queue'
      /\ Len(subLog[s]) > 1 /\ subLog'[s] = Tail(subLog[s])
      /\ SubNeedsScheduling(subLog[s][1], subLog[s][2]) => s \in queue'
      /\ \A t \in Sub : t # s => /\ subLog'[t] = subLog[t]
                                 /\ subscribersMap'[t] = subscribersMap[t]
      /\ subscribersMap'[s] \in SubscribersAfter(s, subLog[s][1], subLog[s][2])
  BY DEF HandleSubEvent, apiVars, TypeOK
<1>2. subLog[s] \in Seq(Subscription) /\ Len(subLog[s]) \in Nat
  BY ListerTypes DEF TypeOK
<1>3. ASSUME NEW log \in Seq(Subscription), Len(log) > 1
      PROVE  /\ Len(Tail(log)) = Len(log) - 1
             /\ \A i \in 1..(Len(log) - 1) : Tail(log)[i] = log[i + 1]
  BY <1>3, TailFacts
<1>4. /\ Len(subLog'[s]) = Len(subLog[s]) - 1
      /\ \A i \in 1..(Len(subLog[s]) - 1) : subLog'[s][i] = subLog[s][i + 1]
  BY <1>1, <1>2, <1>3
<1>5. /\ Len(subLog[s]) - 1 \in 1..(Len(subLog[s]) - 1)
      /\ (Len(subLog[s]) - 1) + 1 = Len(subLog[s])
  BY <1>1, <1>2
<1>6. subLog'[s][Len(subLog'[s])] = subLog[s][Len(subLog[s])]
  BY <1>4, <1>5
<1>7. subLister(s)' = subLister(s)
  BY <1>6 DEF subLister, Newest
<1>. QED  BY <1>1, <1>2, <1>4, <1>7

LEMMA ClLogFacts ==
  ASSUME TypeOK
  PROVE  /\ Len(clLog) \in Nat \ {0} /\ clusterLister = clLog[Len(clLog)]
         /\ clusters \in ClusterList /\ clusterLister \in ClusterList
         /\ \A i \in 1..Len(clLog) : clLog[i] \in ClusterList
         /\ 1 \in 1..Len(clLog) /\ Len(clLog) \in 1..Len(clLog)
<1>1. clLog \in Seq(ClusterList) /\ clLog # <<>> /\ clusters \in ClusterList
  BY DEF TypeOK
<1>2. Len(clLog) \in Nat /\ Len(clLog) >= 1 /\ \A i \in 1..Len(clLog) : clLog[i] \in ClusterList
  BY <1>1, LogFacts
<1>. QED  BY <1>1, <1>2 DEF clusterLister, Newest

LEMMA SyncClustersFacts ==
  ASSUME TypeOK, SyncClusters
  PROVE  /\ UNCHANGED <<subs, clusters, subLog, subscribersMap, queue, cycle, binder>>
         /\ Len(clLog') = Len(clLog) + 1
         /\ \A i \in 1..Len(clLog) : clLog'[i] = clLog[i]
         /\ clLog'[Len(clLog) + 1] = clusters /\ clusterLister' = clusters
<1>1. /\ UNCHANGED <<subs, clusters, subLog, subscribersMap, queue, cycle, binder>>
      /\ clLog' = Append(clLog, clusters)
  BY DEF SyncClusters, apiVars, procVars
<1>2. clLog \in Seq(ClusterList) /\ clusters \in ClusterList
  BY DEF TypeOK
<1>3. /\ Len(clLog') = Len(clLog) + 1
      /\ \A i \in 1..Len(clLog) : clLog'[i] = clLog[i]
      /\ clLog'[Len(clLog) + 1] = clusters
  BY <1>1, <1>2, AppendFacts
<1>. QED  BY <1>1, <1>3 DEF clusterLister, Newest

LEMMA HandleClustersFacts ==
  ASSUME TypeOK, HandleClusterEvents
  PROVE  /\ UNCHANGED <<subs, clusters, subLog, subscribersMap, cycle, binder>>
         /\ queue \subseteq queue' /\ Len(clLog) \in Nat /\ Len(clLog) > 1
         /\ Len(clLog') = Len(clLog) - 1
         /\ \A i \in 1..(Len(clLog) - 1) : clLog'[i] = clLog[i + 1]
         /\ clusterLister' = clusterLister
         /\ \A s \in Sub, c \in Cluster :
              /\ ClusterNeedsScheduling(clLog[1].obj[c], clLog[2].obj[c])
              /\ subscribersMap[s] # None
              /\ clLog[2].obj[c].label \in Affinity[subscribersMap[s]]
              => s \in queue'
<1>1. /\ UNCHANGED <<subs, clusters, subLog, subscribersMap, cycle, binder>>
      /\ Len(clLog) > 1 /\ clLog' = Tail(clLog)
      /\ queue' = queue \cup UNION {Subscribing(clLog[2].obj[c]) : c \in
           {d \in Cluster : ClusterNeedsScheduling(clLog[1].obj[d], clLog[2].obj[d])}}
  BY DEF HandleClusterEvents, apiVars
<1>2. clLog \in Seq(ClusterList) /\ Len(clLog) \in Nat
  BY ClLogFacts DEF TypeOK
<1>3. /\ Len(clLog') = Len(clLog) - 1
      /\ \A i \in 1..(Len(clLog) - 1) : clLog'[i] = clLog[i + 1]
  BY <1>1, <1>2, TailFacts
<1>4. Len(clLog) - 1 \in 1..(Len(clLog) - 1) /\ (Len(clLog) - 1) + 1 = Len(clLog)
  BY <1>1, <1>2
<1>5. clusterLister' = clusterLister
  BY <1>3, <1>4 DEF clusterLister, Newest
<1>6. ASSUME NEW s \in Sub, NEW c \in Cluster,
             ClusterNeedsScheduling(clLog[1].obj[c], clLog[2].obj[c]),
             subscribersMap[s] # None, clLog[2].obj[c].label \in Affinity[subscribersMap[s]]
      PROVE  s \in queue'
  <2>1. s \in Subscribing(clLog[2].obj[c])
    BY <1>6 DEF Subscribing
  <2>. QED  BY <1>1, <1>6, <2>1
<1>. QED  BY <1>1, <1>2, <1>3, <1>5, <1>6

LEMMA RestartFacts ==
  ASSUME TypeOK, Restart
  PROVE  /\ UNCHANGED <<subs, clusters>> /\ cycle' = None /\ \A b \in Binder : binder'[b] = None
         /\ \A s \in Sub : /\ Len(subLog'[s]) = 2 /\ subLog'[s][1] = NoSub
                           /\ subLog'[s][2] = subs[s] /\ subLister(s)' = subs[s]
         /\ Len(clLog') = 2 /\ clLog'[1] = NoClusters /\ clLog'[2] = clusters
         /\ clusterLister' = clusters
<1>1. /\ UNCHANGED <<subs, clusters>> /\ cycle' = None /\ \A b \in Binder : binder'[b] = None
      /\ \A s \in Sub : subLog'[s] = <<NoSub, subs[s]>>
      /\ clLog' = <<NoClusters, clusters>>
  BY DEF Restart, apiVars
<1>2. \A x, y : /\ Len(<<x, y>>) = 2 /\ <<x, y>>[1] = x /\ <<x, y>>[2] = y
                /\ <<x, y>>[Len(<<x, y>>)] = y
  OBVIOUS
<1>. QED  BY <1>1, <1>2 DEF subLister, clusterLister, Newest

(* Everybody else leaves the logs alone. *)
LEMMA LogSteps ==
  ASSUME [Next]_vars
  PROVE  /\ \/ UNCHANGED <<subLog, subscribersMap>>
            \/ \E s \in Sub : SyncSubs(s) \/ HandleSubEvent(s)
            \/ Restart
         /\ \/ UNCHANGED <<clusters, clLog>>
            \/ UNCHANGED clLog /\ \E c \in Cluster : ClusterEvent(c)
            \/ SyncClusters \/ HandleClusterEvents \/ Restart
<1>1. ASSUME NEW s \in Sub, NEW sp \in SubSpec, CreateSub(s, sp) \/ UpdateSpec(s, sp)
      PROVE  UNCHANGED <<clusters, clLog, subLog, subscribersMap>>
  BY <1>1 DEF CreateSub, UpdateSpec, infVars, procVars
<1>2. ASSUME NEW s \in Sub, DeleteSub(s) \/ HubFinalize(s) \/ HubWritesMeta(s)
      PROVE  UNCHANGED <<clusters, clLog, subLog, subscribersMap>>
  BY <1>2 DEF DeleteSub, HubFinalize, HubWritesMeta, infVars, procVars
<1>3. ASSUME NEW c \in Cluster, ClusterEvent(c)
      PROVE  UNCHANGED <<clLog, subLog, subscribersMap>>
  BY <1>3 DEF ClusterEvent, ChangeCluster, infVars, procVars
<1>4. ASSUME NEW b \in Binder, BindFails(b) \/ ScoreClusters(b) \/ Bind(b)
      PROVE  UNCHANGED <<clusters, clLog, subLog, subscribersMap>>
  BY <1>4 DEF BindFails, ScoreClusters, Bind, apiVars, infVars
<1>5. ASSUME NEW s \in Sub, SyncSubs(s) \/ HandleSubEvent(s) PROVE UNCHANGED <<clusters, clLog>>
  BY <1>5 DEF SyncSubs, HandleSubEvent, apiVars
<1>6. ASSUME NEW s \in Sub, GetNext(s) PROVE UNCHANGED <<clusters, clLog, subLog, subscribersMap>>
  BY <1>6 DEF GetNext, apiVars, infVars
<1>7. ASSUME FilterClusters PROVE UNCHANGED <<clusters, clLog, subLog, subscribersMap>>
  BY <1>7 DEF FilterClusters, apiVars, infVars
<1>8. ASSUME SyncClusters \/ HandleClusterEvents PROVE UNCHANGED <<subLog, subscribersMap>>
  BY <1>8 DEF SyncClusters, HandleClusterEvents, procVars
<1>9. ASSUME UNCHANGED vars PROVE UNCHANGED <<clusters, clLog, subLog, subscribersMap>>
  BY <1>9 DEF vars, apiVars, infVars, procVars
<1>. QED  BY <1>1, <1>2, <1>3, <1>4, <1>5, <1>6, <1>7, <1>8, <1>9 DEF Next, Environment, Progress

-----------------------------------------------------------------------------
(* The logs, and the map of the handlers.                                  *)

(* A new version of a Subscription, as users, the hub or a goroutine write *)
(* it.                                                                     *)
Rewritten(o, n) ==
  /\ n.rv = o.rv + 1
  /\ \/ n.spec \in SubSpec
     \/ n.spec = o.spec /\ (Schedulable(n) => Schedulable(o))

LEMMA RewrittenFacts ==
  ASSUME TypeOK, NEW s \in Sub, NEW o \in Subscription, WriteSub(s, o),
         o.spec \in SubSpec \/ (o.spec = subs[s].spec /\ (Schedulable(o) => Schedulable(subs[s])))
  PROVE  \A t \in Sub : subs'[t] = subs[t] \/ Rewritten(subs[t], subs'[t])
<1>1. \A t \in Sub : t # s => subs'[t] = subs[t]
  BY DEF WriteSub, TypeOK
<1>2. subs'[s] = [o EXCEPT !.rv = subs[s].rv + 1]
  BY DEF WriteSub, TypeOK
<1>3. subs'[s].rv = subs[s].rv + 1 /\ subs'[s].spec = o.spec /\ subs'[s].phase = o.phase
  BY <1>2 DEF Subscription
<1>4. Rewritten(subs[s], subs'[s])
  BY <1>3 DEF Rewritten, Schedulable
<1>. QED  BY <1>1, <1>4

LEMMA SubMoves ==
  ASSUME TypeOK, [Next]_vars, NEW s \in Sub
  PROVE  subs'[s] = subs[s] \/ Rewritten(subs[s], subs'[s])
<1>1. ASSUME NEW t \in Sub, NEW sp \in SubSpec, CreateSub(t, sp) PROVE
        subs'[s] = subs[s] \/ Rewritten(subs[s], subs'[s])
  <2> DEFINE o == [NoSub EXCEPT !.phase = "live", !.spec = sp]
  <2>1. o \in Subscription /\ o.spec \in SubSpec /\ WriteSub(t, o)
    BY <1>1 DEF NoSub, Subscription, CreateSub
  <2> HIDE DEF o
  <2>. QED  BY <2>1, RewrittenFacts
<1>2. ASSUME NEW t \in Sub, NEW sp \in SubSpec, UpdateSpec(t, sp) PROVE
        subs'[s] = subs[s] \/ Rewritten(subs[s], subs'[s])
  <2> DEFINE o == [subs[t] EXCEPT !.spec = sp]
  <2>0. subs[t] \in Subscription
    BY DEF TypeOK
  <2>1. o \in Subscription /\ o.spec \in SubSpec /\ WriteSub(t, o)
    BY <1>2, <2>0 DEF Subscription, UpdateSpec
  <2> HIDE DEF o
  <2>. QED  BY <2>1, RewrittenFacts
<1>3. ASSUME NEW t \in Sub, DeleteSub(t) \/ HubFinalize(t) PROVE
        subs'[s] = subs[s] \/ Rewritten(subs[s], subs'[s])
  <2>0. subs[t] \in Subscription
    BY DEF TypeOK
  <2>1. \A ph \in {"deleting", "gone"} :
          LET o == [subs[t] EXCEPT !.phase = ph]
          IN  o \in Subscription /\ o.spec = subs[t].spec /\ ~Schedulable(o)
    BY <2>0 DEF Subscription, Schedulable
  <2>2. PICK ph \in {"deleting", "gone"} : WriteSub(t, [subs[t] EXCEPT !.phase = ph])
    BY <1>3 DEF DeleteSub, HubFinalize
  <2>. QED  BY <2>1, <2>2, RewrittenFacts
<1>4. ASSUME NEW t \in Sub, HubWritesMeta(t) PROVE
        subs'[s] = subs[s] \/ Rewritten(subs[s], subs'[s])
  <2>0. subs[t] \in Subscription /\ WriteSub(t, subs[t])
    BY <1>4 DEF TypeOK, HubWritesMeta
  <2>. QED  BY <2>0, RewrittenFacts
<1>5. ASSUME NEW b \in Binder, Bind(b) PROVE
        subs'[s] = subs[s] \/ Rewritten(subs[s], subs'[s])
  <2> DEFINE w == binder[b]
  <2>1. w \in Binding
    BY <1>5 DEF Bind, TypeOK
  <2>2. w.sub \in Sub /\ w.obj.spec \in SubSpec \cup {None} /\ w.clusters \in SUBSET Cluster
    BY <2>1 DEF Binding, Subscription
  <2>3. subs[w.sub] \in Subscription
    BY <2>2 DEF TypeOK
  <2>4. subs' = subs \/ WriteSub(w.sub, Bound(w))
    BY <1>5 DEF Bind
  <2> HIDE DEF w
  <2>5. Bound(w) \in Subscription /\ Bound(w).spec = subs[w.sub].spec
        /\ Bound(w).phase = subs[w.sub].phase
    BY <2>2, <2>3 DEF Bound, Subscription
  <2>. QED  BY <2>2, <2>4, <2>5, RewrittenFacts DEF Schedulable
<1>6. CASE subs' = subs
  BY <1>6
<1>7. ASSUME NEW c \in Cluster, ClusterEvent(c) PROVE subs' = subs
  BY <1>7 DEF ClusterEvent, ChangeCluster
<1>8. ASSUME NEW b \in Binder, BindFails(b) PROVE subs' = subs
  BY <1>8 DEF BindFails, apiVars
<1>9. ASSUME Restart PROVE subs' = subs
  BY <1>9 DEF Restart, apiVars
<1>10. ASSUME Progress PROVE subs' = subs \/ \E b \in Binder : Bind(b)
  BY <1>10, ProgressEffect
<1>11. ASSUME UNCHANGED vars PROVE subs' = subs
  BY <1>11 DEF vars, apiVars
<1>. QED  BY <1>1, <1>2, <1>3, <1>4, <1>5, <1>6, <1>7, <1>8, <1>9, <1>10, <1>11 DEF Next, Environment

(* What a step puts in the place of a Subscription's log, and what of the  *)
(* map goes with it.                                                       *)
LEMMA SpecifiedStep ==
  ASSUME TypeOK, Specified, [Next]_vars PROVE Specified'
<1>0. \A s \in Sub : Schedulable(subs'[s]) => subs'[s].spec # None
  BY SubMoves, SpecAssumption DEF Specified, Rewritten
<1> SUFFICES ASSUME NEW t \in Sub, NEW i \in 1..Len(subLog'[t]), Schedulable(subLog'[t][i])
             PROVE  subLog'[t][i].spec # None
  BY <1>0 DEF Specified, Schedulable
<1>1. CASE subLog' = subLog
  BY <1>1 DEF Specified
<1>2. ASSUME NEW s \in Sub, SyncSubs(s) PROVE subLog'[t][i].spec # None
  <2>1. CASE t # s
    BY <1>2, <2>1, SyncSubsFacts DEF Specified
  <2>2. CASE t = s
    <3>1. i \in 1..Len(subLog[s]) \/ i = Len(subLog[s]) + 1
      BY <1>2, <2>2, SyncSubsFacts
    <3>. QED  BY <1>2, <2>2, <3>1, SyncSubsFacts DEF Specified
  <2>. QED  BY <2>1, <2>2
<1>3. ASSUME NEW s \in Sub, HandleSubEvent(s) PROVE subLog'[t][i].spec # None
  <2>1. CASE t # s
    BY <1>3, <2>1, HandleSubFacts DEF Specified
  <2>2. CASE t = s
    <3>1. i \in 1..(Len(subLog[s]) - 1) /\ i + 1 \in 1..Len(subLog[s])
      BY <1>3, <2>2, HandleSubFacts
    <3>2. subLog'[s][i] = subLog[s][i + 1]
      BY <1>3, <3>1, HandleSubFacts
    <3>. QED  BY <2>2, <3>1, <3>2 DEF Specified
  <2>. QED  BY <2>1, <2>2
<1>4. ASSUME Restart PROVE subLog'[t][i].spec # None
  <2>1. i = 1 \/ i = 2
    BY <1>4, RestartFacts
  <2>2. ~Schedulable(NoSub)
    BY DEF NoSub, Schedulable
  <2>. QED  BY <1>4, <2>1, <2>2, RestartFacts DEF Specified
<1>. QED  BY <1>1, <1>2, <1>3, <1>4, LogSteps

LEMMA ReplayedStep ==
  ASSUME TypeOK, Replayed, [Next]_vars PROVE Replayed'
<1> SUFFICES ASSUME NEW t \in Sub, Schedulable(subLister(t)'), NEW i \in 1..Len(subLog'[t])
             PROVE  \/ Same(subLog'[t][i], subLister(t)')
                    \/ \E k \in (i + 1)..Len(subLog'[t]) :
                         SubNeedsScheduling(subLog'[t][k - 1], subLog'[t][k])
  BY DEF Replayed, Same, SubNeedsScheduling, Schedulable
<1> DEFINE Goal == \/ Same(subLog'[t][i], subLister(t)')
                   \/ \E k \in (i + 1)..Len(subLog'[t]) :
                         SubNeedsScheduling(subLog'[t][k - 1], subLog'[t][k])
<1>1. ASSUME subLog'[t] = subLog[t] PROVE Goal
  <2>1. subLister(t)' = subLister(t)
    BY <1>1 DEF subLister
  <2>. QED  BY <1>1, <2>1 DEF Replayed
<1>2. ASSUME SyncSubs(t) PROVE Goal
  <2> DEFINE L == Len(subLog[t])
             o == subLister(t)
             n == subs[t]
  <2>1. /\ L \in Nat \ {0} /\ Len(subLog'[t]) = L + 1 /\ subLog'[t][L + 1] = n
        /\ \A j \in 1..L : subLog'[t][j] = subLog[t][j]
        /\ subLister(t)' = n /\ subLog[t][L] = o
    BY <1>2, SyncSubsFacts
  <2> HIDE DEF L, o, n
  <2>2. CASE i = L + 1
    BY <2>1, <2>2 DEF Same
  <2>3. CASE i \in 1..L /\ SubNeedsScheduling(o, n)
    <3>1. L + 1 \in (i + 1)..Len(subLog'[t]) /\ (L + 1) - 1 = L /\ L \in 1..L
      BY <2>1, <2>3
    <3>. QED  BY <2>1, <2>3, <3>1
  <2>4. CASE i \in 1..L /\ ~SubNeedsScheduling(o, n)
    <3>1. Schedulable(o) /\ o.spec = n.spec
      BY <2>1, <2>4 DEF SubNeedsScheduling
    <3>2. \/ Same(subLog[t][i], o)
          \/ \E k \in (i + 1)..L : SubNeedsScheduling(subLog[t][k - 1], subLog[t][k])
      BY <2>4, <3>1 DEF Replayed, o, L
    <3>3. CASE Same(subLog[t][i], o)
      BY <2>1, <2>4, <3>1, <3>3 DEF Same
    <3>4. ASSUME NEW k \in (i + 1)..L, SubNeedsScheduling(subLog[t][k - 1], subLog[t][k])
          PROVE  Goal
      <4>1. k \in 1..L /\ k - 1 \in 1..L /\ k \in (i + 1)..Len(subLog'[t])
        BY <2>1, <3>4
      <4>2. subLog'[t][k] = subLog[t][k] /\ subLog'[t][k - 1] = subLog[t][k - 1]
        BY <2>1, <4>1
      <4>. QED  BY <3>4, <4>1, <4>2
    <3>. QED  BY <3>2, <3>3, <3>4
  <2>5. i = L + 1 \/ i \in 1..L
    BY <2>1
  <2>. QED  BY <2>2, <2>3, <2>4, <2>5, Zenon
<1>3. ASSUME HandleSubEvent(t) PROVE Goal
  <2> DEFINE L == Len(subLog[t])
  <2>1. /\ L \in Nat /\ L > 1 /\ Len(subLog'[t]) = L - 1
        /\ \A j \in 1..(L - 1) : subLog'[t][j] = subLog[t][j + 1]
        /\ subLister(t)' = subLister(t)
    BY <1>3, HandleSubFacts
  <2>2. \/ Same(subLog[t][i + 1], subLister(t))
        \/ \E k \in (i + 2)..L : SubNeedsScheduling(subLog[t][k - 1], subLog[t][k])
    <3>1. i + 1 \in 1..L /\ (i + 1) + 1 = i + 2 /\ Schedulable(subLister(t))
      BY <2>1
    <3>. QED  BY <3>1 DEF Replayed
  <2> HIDE DEF L
  <2>3. ASSUME NEW k \in (i + 2)..L, SubNeedsScheduling(subLog[t][k - 1], subLog[t][k])
        PROVE  Goal
    <3>1. /\ k - 1 \in (i + 1)..Len(subLog'[t]) /\ k - 1 \in 1..(L - 1) /\ k - 2 \in 1..(L - 1)
          /\ (k - 1) + 1 = k /\ (k - 2) + 1 = k - 1 /\ (k - 1) - 1 = k - 2
      BY <2>1
    <3>2. subLog'[t][k - 1] = subLog[t][k] /\ subLog'[t][k - 2] = subLog[t][k - 1]
      BY <2>1, <3>1
    <3>. QED  BY <2>3, <3>1, <3>2
  <2>. QED  BY <2>1, <2>2, <2>3
<1>4. ASSUME Restart PROVE Goal
  <2>1. /\ Len(subLog'[t]) = 2 /\ subLog'[t][1] = NoSub
        /\ subLog'[t][2] = subs[t] /\ subLister(t)' = subs[t]
    BY <1>4, RestartFacts
  <2>2. ~Schedulable(NoSub)
    BY DEF NoSub, Schedulable
  <2>3. CASE i = 2
    BY <2>1, <2>3 DEF Same
  <2>4. CASE i = 1
    <3>1. 2 \in (i + 1)..Len(subLog'[t]) /\ 2 - 1 = 1
      BY <2>1, <2>4
    <3>2. SubNeedsScheduling(subLog'[t][2 - 1], subLog'[t][2])
      BY <2>1, <2>2, <3>1 DEF SubNeedsScheduling
    <3>. QED  BY <3>1, <3>2
  <2>. QED  BY <2>1, <2>3, <2>4
<1>5. ASSUME NEW s \in Sub, s # t, SyncSubs(s) \/ HandleSubEvent(s) PROVE subLog'[t] = subLog[t]
  BY <1>5, SyncSubsFacts, HandleSubFacts
<1>. QED  BY <1>1, <1>2, <1>3, <1>4, <1>5, LogSteps

LEMMA MappedStep ==
  ASSUME TypeOK, Mapped, [Next]_vars PROVE Mapped'
<1> SUFFICES ASSUME NEW t \in Sub, Schedulable(subLog'[t][1])
             PROVE  subscribersMap'[t] = subLog'[t][1].spec
  BY DEF Mapped, Schedulable
<1>1. ASSUME subLog'[t][1] = subLog[t][1], subscribersMap'[t] = subscribersMap[t]
      PROVE  subscribersMap'[t] = subLog'[t][1].spec
  BY <1>1 DEF Mapped
<1>2. ASSUME SyncSubs(t) PROVE subscribersMap'[t] = subLog'[t][1].spec
  <2>1. 1 \in 1..Len(subLog[t])
    BY ListerTypes
  <2>. QED  BY <1>1, <1>2, <2>1, SyncSubsFacts
<1>3. ASSUME HandleSubEvent(t) PROVE subscribersMap'[t] = subLog'[t][1].spec
  <2>1. 1 \in 1..(Len(subLog[t]) - 1) /\ 1 + 1 = 2
    BY <1>3, HandleSubFacts
  <2>2. /\ subLog'[t][1] = subLog[t][2]
        /\ subscribersMap'[t] \in SubscribersAfter(t, subLog[t][1], subLog[t][2])
    BY <1>3, <2>1, HandleSubFacts
  <2>. QED  BY <2>2 DEF SubscribersAfter, SubNeedsScheduling, Mapped
<1>4. ASSUME Restart PROVE FALSE
  BY <1>4, RestartFacts DEF Schedulable, NoSub
<1>5. ASSUME NEW s \in Sub, s # t, SyncSubs(s) \/ HandleSubEvent(s)
      PROVE  subLog'[t] = subLog[t] /\ subscribersMap'[t] = subscribersMap[t]
  BY <1>5, SyncSubsFacts, HandleSubFacts
<1>. QED  BY <1>1, <1>2, <1>3, <1>4, <1>5, LogSteps

(* Lists only move on: the handlers and the lister of clusters too. *)
LEMMA ChainStep ==
  ASSUME TypeOK, Chain, Below(clusters, clusters'), [Next]_vars, TypeOK'
  PROVE  Chain' /\ Below(clusterLister, clusterLister')
<1>0. /\ clusters \in ClusterList /\ clusters' \in ClusterList
      /\ \A i \in 1..Len(clLog) : clLog[i] \in ClusterList
      /\ Len(clLog) \in Nat \ {0} /\ clusterLister = clLog[Len(clLog)]
      /\ 1 \in 1..Len(clLog) /\ Len(clLog) \in 1..Len(clLog)
  BY ClLogFacts DEF TypeOK
<1>1. CASE UNCHANGED clLog
  <2>1. \A i \in 1..Len(clLog) : Below(clLog[i], clusters')
    BY <1>0, BelowOrder DEF Chain
  <2>2. Chain'
    BY <1>1, <2>1 DEF Chain, Below
  <2>3. clusterLister' = clusterLister
    BY <1>1 DEF clusterLister
  <2>. QED  BY <1>0, <1>1, <2>2, <2>3, BelowOrder
<1>2. CASE SyncClusters
  <2> DEFINE L == Len(clLog)
  <2>1. /\ clusters' = clusters /\ clusterLister' = clusters /\ Len(clLog') = L + 1
        /\ \A i \in 1..L : clLog'[i] = clLog[i]
        /\ clLog'[L + 1] = clusters
    BY <1>2, SyncClustersFacts
  <2>2. ASSUME NEW i \in 1..Len(clLog') PROVE
          /\ Below(clLog'[i], clusters')
          /\ \A j \in 1..Len(clLog') : i < j => Below(clLog'[i], clLog'[j])
    <3>1. i \in 1..L \/ i = L + 1
      BY <1>0, <2>1
    <3>2. CASE i \in 1..L
      BY <1>0, <2>1, <3>2 DEF Chain
    <3>3. CASE i = L + 1
      BY <1>0, <2>1, <3>3, BelowOrder
    <3>. QED  BY <3>1, <3>2, <3>3
  <2>3. Chain'
    BY <2>2 DEF Chain, Below
  <2>. QED  BY <1>0, <2>1, <2>3, BelowOrder DEF Chain
<1>3. CASE HandleClusterEvents
  <2> DEFINE L == Len(clLog)
  <2>1. /\ clusters' = clusters /\ clusterLister' = clusterLister /\ Len(clLog') = L - 1 /\ L > 1
        /\ \A i \in 1..(L - 1) : clLog'[i] = clLog[i + 1]
    BY <1>3, HandleClustersFacts
  <2>2. ASSUME NEW i \in 1..Len(clLog') PROVE
          /\ Below(clLog'[i], clusters')
          /\ \A j \in 1..Len(clLog') : i < j => Below(clLog'[i], clLog'[j])
    <3>1. /\ i \in 1..(L - 1) /\ i + 1 \in 1..L
          /\ \A j \in 1..Len(clLog') : j \in 1..(L - 1) /\ j + 1 \in 1..L /\ (i < j => i + 1 < j + 1)
      BY <1>0, <2>1
    <3>. QED  BY <2>1, <3>1 DEF Chain
  <2>3. Chain'
    BY <2>2 DEF Chain, Below
  <2>. QED  BY <1>0, <2>1, <2>3, BelowOrder
<1>4. CASE Restart
  <2>1. /\ clusters' = clusters /\ Len(clLog') = 2 /\ clLog'[1] = NoClusters /\ clLog'[2] = clusters
        /\ clusterLister' = clusters
    BY <1>4, RestartFacts
  <2>2. ASSUME NEW i \in 1..Len(clLog') PROVE
          /\ Below(clLog'[i], clusters')
          /\ \A j \in 1..Len(clLog') : i < j => Below(clLog'[i], clLog'[j])
    <3>1. i \in {1, 2} /\ \A j \in 1..Len(clLog') : i < j => i = 1 /\ j = 2
      BY <2>1
    <3>. QED  BY <1>0, <2>1, <3>1, BelowOrder
  <2>3. Chain'
    BY <2>2 DEF Chain, Below
  <2>. QED  BY <1>0, <2>1, <2>3 DEF Chain
<1>. QED  BY <1>1, <1>2, <1>3, <1>4, LogSteps

-----------------------------------------------------------------------------
(* Cycles and goroutines.                                                  *)

(* The parts of the state that a step of a cycle or a goroutine leaves     *)
(* alone.                                                                  *)
LEMMA GetNextFacts ==
  ASSUME TypeOK, NEW s \in Sub, GetNext(s)
  PROVE  /\ UNCHANGED <<subs, clusters, subLog, clLog, subscribersMap, binder>>
         /\ cycle = None /\ queue' = queue \ {s}
         /\ cycle' # None => cycle'.stage = "filter"
         /\ Schedulable(subLister(s)) => cycle' # None /\ cycle'.sub = s
<1>1. /\ UNCHANGED <<subs, clusters, subLog, clLog, subscribersMap, binder>>
      /\ cycle = None /\ queue' = queue \ {s}
  BY DEF GetNext, apiVars, infVars
<1> DEFINE d == [sub |-> s, obj |-> subLister(s), clusters |-> {}, stage |-> "filter"]
<1>2. d \in Cycle /\ d.sub = s /\ d.stage = "filter"
  BY ListerTypes DEF Cycle
<1>3. cycle' = None \/ cycle' = d
  BY Zenon DEF GetNext
<1>4. Schedulable(subLister(s)) => cycle' = d
  BY DEF GetNext, Schedulable
<1> HIDE DEF d
<1>. QED  BY <1>1, <1>2, <1>3, <1>4, NoneAssumption

LEMMA FilterFacts ==
  ASSUME TypeOK, FilterClusters
  PROVE  /\ UNCHANGED <<subs, clusters, subLog, clLog, subscribersMap, binder>>
         /\ queue \subseteq queue' /\ cycle # None
         /\ \/ cycle' = None /\ cycle.sub \in queue'
            \/ /\ cycle' # None /\ cycle'.sub = cycle.sub /\ cycle'.obj = cycle.obj
               /\ cycle'.stage = "score"
               /\ cycle'.clusters = Feasible(clusterLister, cycle.obj.spec)
<1>1. /\ UNCHANGED <<subs, clusters, subLog, clLog, subscribersMap, binder>>
      /\ queue \subseteq queue' /\ cycle # None /\ cycle \in Cycle
  BY DEF FilterClusters, apiVars, infVars, Requeue, TypeOK
<1> DEFINE fit == Feasible(clusterLister, cycle.obj.spec)
           d == [cycle EXCEPT !.clusters = fit, !.stage = "score"]
<1>2. (cycle' = None /\ cycle.sub \in queue') \/ cycle' = d
  BY DEF FilterClusters, Requeue
<1>3. fit \in SUBSET Cluster
  BY DEF Feasible
<1> HIDE DEF fit
<1>4. /\ d \in Cycle /\ d.sub = cycle.sub /\ d.obj = cycle.obj /\ d.stage = "score"
      /\ d.clusters = fit
  BY <1>1, <1>3 DEF Cycle
<1> HIDE DEF d
<1>. QED  BY <1>1, <1>2, <1>4, NoneAssumption DEF fit

LEMMA ScoreFacts ==
  ASSUME TypeOK, NEW b \in Binder, ScoreClusters(b)
  PROVE  /\ UNCHANGED <<subs, clusters, subLog, clLog, subscribersMap>>
         /\ queue \subseteq queue' /\ cycle # None /\ cycle.stage = "score" /\ cycle' = None
         /\ binder[b] = None /\ \A d \in Binder : d # b => binder'[d] = binder[d]
         /\ \/ binder'[b] = None /\ cycle.sub \in queue'
            \/ /\ binder'[b] # None /\ binder'[b].sub = cycle.sub /\ binder'[b].obj = cycle.obj
               /\ binder'[b].clusters = cycle.clusters
<1>1. /\ UNCHANGED <<subs, clusters, subLog, clLog, subscribersMap>>
      /\ queue \subseteq queue' /\ cycle # None /\ cycle \in Cycle
      /\ cycle.stage = "score" /\ cycle' = None /\ binder[b] = None
      /\ binder \in [Binder -> Binding \cup {None}]
  BY DEF ScoreClusters, apiVars, infVars, Requeue, TypeOK
<1> DEFINE w == [sub |-> cycle.sub, obj |-> cycle.obj, clusters |-> cycle.clusters]
<1>2. w \in Binding /\ w.sub = cycle.sub /\ w.obj = cycle.obj /\ w.clusters = cycle.clusters
  BY <1>1 DEF Cycle, Binding
<1>3. (binder' = binder /\ cycle.sub \in queue') \/ binder' = [binder EXCEPT ![b] = w]
  BY DEF ScoreClusters, Requeue
<1> HIDE DEF w
<1>. QED  BY <1>1, <1>2, <1>3, NoneAssumption

LEMMA FailsFacts ==
  ASSUME TypeOK, NEW b \in Binder, BindFails(b)
  PROVE  /\ UNCHANGED <<subs, clusters, subLog, clLog, subscribersMap, cycle>>
         /\ queue \subseteq queue' /\ binder[b].sub \in queue'
         /\ binder'[b] = None /\ \A d \in Binder : d # b => binder'[d] = binder[d]
BY DEF BindFails, apiVars, infVars, Requeue, TypeOK

(* The two ends of a goroutine: a conflict puts the Subscription back into *)
(* the queue, and what is accepted is what the API server has from now on. *)
LEMMA BindFacts ==
  ASSUME TypeOK, Coherent, NEW b \in Binder, Bind(b)
  PROVE  LET w == binder[b] IN
         /\ w # None /\ w.sub \in Sub
         /\ UNCHANGED <<clusters, subLog, clLog, subscribersMap, cycle>> /\ queue \subseteq queue'
         /\ binder'[b] = None /\ \A d \in Binder : d # b => binder'[d] = binder[d]
         /\ \A s \in Sub : s # w.sub => subs'[s] = subs[s]
         /\ \/ subs' = subs /\ w.sub \in queue'
            \/ /\ w.obj = subs[w.sub] /\ subLister(w.sub) = subs[w.sub]
               /\ subs'[w.sub].hash = w.obj.spec /\ subs'[w.sub].binding = w.clusters
               /\ subs'[w.sub] = subs[w.sub] \/ subs'[w.sub].rv = subs[w.sub].rv + 1
<1> DEFINE w == binder[b]
<1>1. /\ w # None /\ w.sub \in Sub /\ w \in Binding
      /\ UNCHANGED <<clusters, subLog, clLog, subscribersMap, cycle>> /\ queue \subseteq queue'
      /\ binder'[b] = None /\ \A d \in Binder : d # b => binder'[d] = binder[d]
  BY DEF Bind, infVars, Requeue, TypeOK, Binding
<1>2. CASE ~Accepts(w.sub, w.obj)
  <2>1. subs' = subs /\ w.sub \in queue'
    BY <1>2 DEF Bind, Requeue
  <2>. QED  BY <1>1, <2>1
<1>3. CASE Accepts(w.sub, w.obj)
  <2>1. /\ w.obj = subs[w.sub] /\ subLister(w.sub) = subs[w.sub]
        /\ subs'[w.sub].hash = w.obj.spec
        /\ \A s \in Sub : s # w.sub => subs'[s] = subs[s]
    BY <1>3, BindEffect
  <2>2. \/ subs' = subs /\ subs[w.sub].binding = w.clusters
        \/ WriteSub(w.sub, Bound(w))
    BY <1>3 DEF Bind
  <2>3. ASSUME WriteSub(w.sub, Bound(w))
        PROVE  subs'[w.sub].binding = w.clusters /\ subs'[w.sub].rv = subs[w.sub].rv + 1
    <3>1. subs[w.sub] \in Subscription /\ subs \in [Sub -> Subscription]
      BY <1>1 DEF TypeOK
    <3> HIDE DEF w
    <3>2. subs'[w.sub] = [Bound(w) EXCEPT !.rv = subs[w.sub].rv + 1]
      BY <1>1, <2>3, <3>1 DEF WriteSub
    <3>. QED  BY <3>1, <3>2 DEF Bound, Subscription
  <2>. QED  BY <1>1, <2>1, <2>2, <2>3
<1>. QED  BY <1>2, <1>3

(* Who starts a cycle, an outcome or a goroutine. *)
LEMMA ProcSteps ==
  ASSUME TypeOK, [Next]_vars
  PROVE  /\ \/ cycle' = cycle \/ cycle' = None
            \/ \E s \in Sub : GetNext(s)
            \/ FilterClusters
         /\ \A d \in Binder : binder'[d] \in {binder[d], None} \/ ScoreClusters(d)
<1>1. ASSUME NEW s \in Sub, NEW sp \in SubSpec, CreateSub(s, sp) \/ UpdateSpec(s, sp)
      PROVE  UNCHANGED <<cycle, binder>>
  BY <1>1 DEF CreateSub, UpdateSpec, procVars
<1>2. ASSUME NEW s \in Sub, \/ DeleteSub(s) \/ HubFinalize(s) \/ HubWritesMeta(s)
                            \/ SyncSubs(s) \/ HandleSubEvent(s)
      PROVE  UNCHANGED <<cycle, binder>>
  BY <1>2 DEF DeleteSub, HubFinalize, HubWritesMeta, SyncSubs, HandleSubEvent, procVars
<1>3. ASSUME NEW c \in Cluster, ClusterEvent(c) PROVE UNCHANGED <<cycle, binder>>
  BY <1>3 DEF ClusterEvent, ChangeCluster, procVars
<1>4. ASSUME SyncClusters \/ HandleClusterEvents PROVE UNCHANGED <<cycle, binder>>
  BY <1>4 DEF SyncClusters, HandleClusterEvents, procVars
<1>5. ASSUME NEW b \in Binder, Bind(b) \/ BindFails(b)
      PROVE  cycle' = cycle /\ \A d \in Binder : binder'[d] \in {binder[d], None}
  BY <1>5 DEF Bind, BindFails, TypeOK
<1>6. ASSUME NEW b \in Binder, ScoreClusters(b)
      PROVE  cycle' = None /\ \A d \in Binder : binder'[d] = binder[d] \/ d = b
  BY <1>6, ScoreFacts
<1>7. ASSUME NEW s \in Sub, GetNext(s) PROVE binder' = binder
  BY <1>7 DEF GetNext
<1>8. ASSUME FilterClusters PROVE binder' = binder
  BY <1>8 DEF FilterClusters
<1>9. ASSUME Restart PROVE cycle' = None /\ \A d \in Binder : binder'[d] = None
  BY <1>9, RestartFacts
<1>10. ASSUME UNCHANGED vars PROVE UNCHANGED <<cycle, binder>>
  BY <1>10 DEF vars, procVars
<1>. QED  BY <1>1, <1>2, <1>3, <1>4, <1>5, <1>6, <1>7, <1>8, <1>9, <1>10
             DEF Next, Environment, Progress

(* Who writes a status. *)
LEMMA StatusMoves ==
  ASSUME TypeOK, Coherent, Existing, [Next]_vars, NEW s \in Sub
  PROVE  \/ subs'[s].hash = subs[s].hash /\ subs'[s].binding = subs[s].binding
         \/ \E b \in Binder : /\ binder[b] # None /\ binder[b].sub = s
                              /\ subs'[s].hash = binder[b].obj.spec
                              /\ subs'[s].binding = binder[b].clusters
<1>1. CASE Environment
  BY <1>1, EnvironmentEffect
<1>2. CASE subs' = subs
  BY <1>2
<1>3. ASSUME NEW b \in Binder, Bind(b)
      PROVE  \/ subs'[s] = subs[s]
             \/ /\ binder[b] # None /\ binder[b].sub = s
                /\ subs'[s].hash = binder[b].obj.spec
                /\ subs'[s].binding = binder[b].clusters
  BY <1>3, BindFacts
<1>. QED  BY <1>1, <1>2, <1>3, ProgressEffect DEF Next, vars, apiVars

-----------------------------------------------------------------------------
(* What is bound, or about to be bound, fits.                              *)

LEMMA KeptFits ==
  ASSUME NEW l \in ClusterList, NEW m \in ClusterList, Below(l, m),
         NEW w, NEW o, NEW n, Fits(w, l, o),
         n = o \/ (n.rv = o.rv + 1 /\ w.obj.rv <= o.rv /\ o.rv \in Nat /\ w.obj.rv \in Nat)
  PROVE  Fits(w, m, n)
<1>1. w.clusters \subseteq Feasible(m, w.obj.spec)
  BY BelowFacts DEF Fits
<1>2. w.obj.rv = n.rv /\ n.hash = w.obj.spec => n.binding \subseteq w.clusters
  <2>1. CASE n = o
    BY <2>1 DEF Fits
  <2>2. CASE n.rv = o.rv + 1 /\ w.obj.rv <= o.rv /\ o.rv \in Nat /\ w.obj.rv \in Nat
    BY <2>2
  <2>. QED  BY <2>1, <2>2
<1>. QED  BY <1>1, <1>2 DEF Fits

LEMMA AllFitStep ==
  ASSUME IndInv, AllFit, [Next]_vars, TypeOK', Below(clusterLister, clusterLister')
  PROVE  AllFit'
<1> USE DEF IndInv
<1>0. clusterLister \in ClusterList /\ clusterLister' \in ClusterList
  <2>1. clusterLister \in ClusterList
    BY ClLogFacts
  <2>2. clLog' \in Seq(ClusterList) /\ clLog' # <<>>
    BY DEF TypeOK
  <2>3. clLog'[Len(clLog')] \in ClusterList
    BY <2>2, LogFacts
  <2>. QED  BY <2>1, <2>3 DEF clusterLister, Newest
<1>1. ASSUME NEW s \in Sub, NEW w, VersionOf(w.obj, s), w.obj \in Subscription,
             Fits(w, clusterLister, subs[s])
      PROVE  Fits(w, clusterLister', subs'[s])
  <2>1. subs'[s] = subs[s] \/ subs'[s].rv = subs[s].rv + 1
    BY SubMoves DEF Rewritten
  <2>2. w.obj.rv <= subs[s].rv /\ w.obj.rv \in Nat /\ subs[s].rv \in Nat
    BY <1>1 DEF VersionOf, TypeOK, Subscription
  <2>. QED  BY <1>0, <1>1, <2>1, <2>2, KeptFits
<1>2. ASSUME NEW s \in Sub
      PROVE  subs'[s].binding \subseteq Feasible(clusterLister', subs'[s].hash)
  <2>1. subs'[s].binding \subseteq Feasible(clusterLister, subs'[s].hash)
    BY StatusMoves DEF AllFit, Fits
  <2>2. Feasible(clusterLister, subs'[s].hash) \subseteq Feasible(clusterLister', subs'[s].hash)
    BY <1>0, BelowFacts
  <2>. QED  BY <2>1, <2>2
<1>3. ASSUME cycle' # None, cycle'.stage = "score"
      PROVE  Fits(cycle', clusterLister', subs'[cycle'.sub])
  <2>1. CASE cycle' = cycle
    <3>1. /\ cycle.sub \in Sub /\ cycle.obj \in Subscription /\ VersionOf(cycle.obj, cycle.sub)
          /\ Fits(cycle, clusterLister, subs[cycle.sub])
      BY <1>3, <2>1, SnapshotTypes DEF Coherent, AllFit
    <3>. QED  BY <1>1, <2>1, <3>1
  <2>2. ASSUME NEW s \in Sub, GetNext(s) PROVE FALSE
    BY <1>3, <2>2, GetNextFacts
  <2>3. CASE FilterClusters
    <3>1. /\ subs' = subs /\ clLog' = clLog /\ cycle # None
          /\ cycle'.sub = cycle.sub /\ cycle'.obj = cycle.obj
          /\ cycle'.clusters = Feasible(clusterLister, cycle.obj.spec)
      BY <1>3, <2>3, FilterFacts
    <3>2. cycle.sub \in Sub
      BY <3>1, SnapshotTypes
    <3>3. subs[cycle.sub].binding \subseteq Feasible(clusterLister, subs[cycle.sub].hash)
      BY <3>2 DEF AllFit
    <3>4. clusterLister' = clusterLister
      BY <3>1 DEF clusterLister
    <3>. QED  BY <3>1, <3>3, <3>4 DEF Fits
  <2>. QED  BY <1>3, <2>1, <2>2, <2>3, ProcSteps
<1>4. ASSUME NEW b \in Binder, binder'[b] # None
      PROVE  Fits(binder'[b], clusterLister', subs'[binder'[b].sub])
  <2>1. CASE binder'[b] = binder[b]
    <3>1. /\ binder[b].sub \in Sub /\ binder[b].obj \in Subscription
          /\ VersionOf(binder[b].obj, binder[b].sub)
          /\ Fits(binder[b], clusterLister, subs[binder[b].sub])
      BY <1>4, <2>1, SnapshotTypes DEF Coherent, AllFit
    <3>. QED  BY <1>1, <2>1, <3>1
  <2>2. CASE ScoreClusters(b)
    <3>1. /\ subs' = subs /\ clLog' = clLog /\ cycle # None /\ cycle.stage = "score"
          /\ binder'[b].sub = cycle.sub /\ binder'[b].obj = cycle.obj
          /\ binder'[b].clusters = cycle.clusters
      BY <1>4, <2>2, ScoreFacts
    <3>2. Fits(cycle, clusterLister, subs[cycle.sub]) /\ clusterLister' = clusterLister
      BY <3>1 DEF AllFit, clusterLister
    <3>. QED  BY <3>1, <3>2 DEF Fits
  <2>. QED  BY <1>4, <2>1, <2>2, ProcSteps
<1>. QED  BY <1>2, <1>3, <1>4 DEF AllFit, Fits, Feasible

-----------------------------------------------------------------------------
(* What fits is bound, or about to be bound.                               *)

(* What is handled after a step, spelled out. *)
LEMMA HandledNext ==
  ASSUME NEW s,
         \/ s \in queue'
         \/ /\ cycle' # None /\ cycle'.sub = s
            /\ cycle'.stage = "filter" \/ Carries(cycle', clLog'[1], subs'[s])
         \/ \E b \in Binder : /\ binder'[b] # None /\ binder'[b].sub = s
                              /\ Carries(binder'[b], clLog'[1], subs'[s])
         \/ /\ subs'[s].hash = subLister(s)'.spec
            /\ Feasible(clLog'[1], subLister(s)'.spec) \subseteq subs'[s].binding
  PROVE  Handled(s)'
BY DEF Handled, Carries, Feasible

LEMMA KeptCarries ==
  ASSUME NEW w, NEW l, NEW o, NEW n, Carries(w, l, o),
         n = o \/ (n.rv = o.rv + 1 /\ w.obj.rv <= o.rv /\ o.rv \in Nat /\ w.obj.rv \in Nat)
  PROVE  Carries(w, l, n)
BY DEF Carries

(* Steps that neither end a cycle or a goroutine nor tell the handlers of  *)
(* a list.                                                                 *)
LEMMA QuietStep ==
  ASSUME TypeOK, Coherent, NEW s \in Sub, Handled(s), UNCHANGED <<cycle, binder>>,
         clLog'[1] = clLog[1], queue \subseteq queue',
         subs'[s].hash = subs[s].hash, subs'[s].binding = subs[s].binding,
         subs'[s] = subs[s] \/ Rewritten(subs[s], subs'[s]),
         subLister(s)'.spec = subLister(s).spec
  PROVE  Handled(s)'
<1>1. ASSUME NEW w, VersionOf(w.obj, s), w.obj \in Subscription,
             Carries(w, clLog[1], subs[s])
      PROVE  Carries(w, clLog'[1], subs'[s])
  <2>1. subs'[s] = subs[s] \/ subs'[s].rv = subs[s].rv + 1
    BY DEF Rewritten
  <2>2. w.obj.rv <= subs[s].rv /\ w.obj.rv \in Nat /\ subs[s].rv \in Nat
    BY <1>1 DEF VersionOf, TypeOK, Subscription
  <2>. QED  BY <1>1, <2>1, <2>2, KeptCarries
<1>2. CASE s \in queue
  BY <1>2, HandledNext
<1>3. CASE /\ cycle # None /\ cycle.sub = s
           /\ cycle.stage = "filter" \/ Carries(cycle, clLog[1], subs[s])
  <2>1. VersionOf(cycle.obj, s) /\ cycle.obj \in Subscription
    BY <1>3, SnapshotTypes DEF Coherent
  <2>. QED  BY <1>1, <1>3, <2>1, HandledNext
<1>4. ASSUME NEW b \in Binder, binder[b] # None, binder[b].sub = s,
             Carries(binder[b], clLog[1], subs[s])
      PROVE  Handled(s)'
  <2>1. VersionOf(binder[b].obj, s) /\ binder[b].obj \in Subscription
    BY <1>4, SnapshotTypes DEF Coherent
  <2>. QED  BY <1>1, <1>4, <2>1, HandledNext
<1>5. CASE /\ subs[s].hash = subLister(s).spec
           /\ Feasible(clLog[1], subLister(s).spec) \subseteq subs[s].binding
  BY <1>5, HandledNext
<1>. QED  BY <1>2, <1>3, <1>4, <1>5 DEF Handled

(* A change that the handlers have still to be told of is still to be told *)
(* of, or has been, which enqueues the Subscription.                       *)
LEMMA LogKept ==
  ASSUME TypeOK, NEW s \in Sub,
         subLog' = subLog \/ \E t \in Sub : SyncSubs(t) \/ HandleSubEvent(t),
         Schedulable(subLister(s)'), ~ChangeLogged(s)'
  PROVE  \/ s \in queue'
         \/ Schedulable(subLister(s)) /\ ~ChangeLogged(s) /\ subLister(s)'.spec = subLister(s).spec
<1>1. ASSUME subLog'[s] = subLog[s]
      PROVE  ~ChangeLogged(s) /\ subLister(s)' = subLister(s)
  BY <1>1 DEF ChangeLogged, subLister, SubNeedsScheduling, Schedulable
<1>2. ASSUME SyncSubs(s)
      PROVE  /\ Schedulable(subLister(s)) /\ ~ChangeLogged(s)
             /\ subLister(s)'.spec = subLister(s).spec
  <2> DEFINE L == Len(subLog[s])
  <2>1. /\ L \in Nat \ {0} /\ Len(subLog'[s]) = L + 1 /\ subLog'[s][L + 1] = subs[s]
        /\ \A j \in 1..L : subLog'[s][j] = subLog[s][j]
        /\ subLister(s)' = subs[s] /\ subLog[s][L] = subLister(s)
    BY <1>2, SyncSubsFacts
  <2>2. ASSUME NEW i \in 2..L PROVE ~SubNeedsScheduling(subLog[s][i - 1], subLog[s][i])
    <3>1. i \in 2..Len(subLog'[s]) /\ i \in 1..L /\ i - 1 \in 1..L
      BY <2>1
    <3>2. ~SubNeedsScheduling(subLog'[s][i - 1], subLog'[s][i])
      BY <3>1 DEF ChangeLogged, SubNeedsScheduling, Schedulable
    <3>. QED  BY <2>1, <3>1, <3>2
  <2>3. ~SubNeedsScheduling(subLister(s), subs[s])
    <3>1. L + 1 \in 2..Len(subLog'[s]) /\ (L + 1) - 1 = L /\ L \in 1..L
      BY <2>1
    <3>2. ~SubNeedsScheduling(subLog'[s][(L + 1) - 1], subLog'[s][L + 1])
      BY <3>1 DEF ChangeLogged, SubNeedsScheduling, Schedulable
    <3>. QED  BY <2>1, <3>1, <3>2
  <2>. QED  BY <2>1, <2>2, <2>3 DEF SubNeedsScheduling, ChangeLogged
<1>3. ASSUME HandleSubEvent(s)
      PROVE  s \in queue' \/ (~ChangeLogged(s) /\ subLister(s)' = subLister(s))
  <2> DEFINE L == Len(subLog[s])
  <2>1. /\ L \in Nat /\ L > 1 /\ Len(subLog'[s]) = L - 1
        /\ \A j \in 1..(L - 1) : subLog'[s][j] = subLog[s][j + 1]
        /\ subLister(s)' = subLister(s)
        /\ SubNeedsScheduling(subLog[s][1], subLog[s][2]) => s \in queue'
    BY <1>3, HandleSubFacts
  <2>2. ASSUME NEW i \in 3..L PROVE ~SubNeedsScheduling(subLog[s][i - 1], subLog[s][i])
    <3>1. /\ i - 1 \in 2..Len(subLog'[s]) /\ i - 1 \in 1..(L - 1) /\ i - 2 \in 1..(L - 1)
          /\ (i - 1) - 1 = i - 2 /\ (i - 1) + 1 = i /\ (i - 2) + 1 = i - 1
      BY <2>1
    <3>2. ~SubNeedsScheduling(subLog'[s][(i - 1) - 1], subLog'[s][i - 1])
      BY <3>1 DEF ChangeLogged, SubNeedsScheduling, Schedulable
    <3>. QED  BY <2>1, <3>1, <3>2
  <2>3. ASSUME ChangeLogged(s) PROVE SubNeedsScheduling(subLog[s][1], subLog[s][2])
    <3>1. PICK i \in 2..L : SubNeedsScheduling(subLog[s][i - 1], subLog[s][i])
      BY <2>3 DEF ChangeLogged
    <3>2. i \in 3..L \/ (i = 2 /\ i - 1 = 1)
      BY <2>1
    <3>. QED  BY <2>2, <3>1, <3>2
  <2>. QED  BY <2>1, <2>3
<1>4. ASSUME NEW t \in Sub, t # s, SyncSubs(t) \/ HandleSubEvent(t) PROVE subLog'[s] = subLog[s]
  BY <1>4, SyncSubsFacts, HandleSubFacts
<1>. QED  BY <1>1, <1>2, <1>3, <1>4

(* The handlers are told of the next list of clusters: a Subscription that *)
(* a cluster newly fits is enqueued, because the subscribersMap has the    *)
(* spec that cycles and goroutines work on.                                *)
LEMMA HandledByEvents ==
  ASSUME IndInv, Specified, Replayed, Mapped, Chain, HandleClusterEvents,
         NEW s \in Sub, Schedulable(subLister(s)), ~ChangeLogged(s), Handled(s)
  PROVE  Handled(s)'
<1> USE DEF IndInv
<1> DEFINE sp == subLister(s).spec
<1>1. /\ UNCHANGED <<subs, clusters, subLog, subscribersMap, cycle, binder>>
      /\ queue \subseteq queue' /\ Len(clLog) \in Nat /\ Len(clLog) > 1
      /\ \A i \in 1..(Len(clLog) - 1) : clLog'[i] = clLog[i + 1]
      /\ \A c \in Cluster :
           /\ ClusterNeedsScheduling(clLog[1].obj[c], clLog[2].obj[c])
           /\ subscribersMap[s] # None
           /\ clLog[2].obj[c].label \in Affinity[subscribersMap[s]]
           => s \in queue'
  BY HandleClustersFacts
<1>2. /\ 1 \in 1..(Len(clLog) - 1) /\ 1 + 1 = 2 /\ 1 < 2
      /\ 1 \in 1..Len(clLog) /\ 2 \in 1..Len(clLog)
  BY <1>1
<1>3. /\ clLog'[1] = clLog[2] /\ Below(clLog[1], clLog[2])
      /\ clLog[1] \in ClusterList /\ clLog[2] \in ClusterList
  BY <1>1, <1>2, ClLogFacts DEF Chain
<1>4. subscribersMap[s] = sp /\ sp # None
  <2>1. 1 \in 1..Len(subLog[s]) /\ 1 + 1 = 2
    BY ListerTypes
  <2>2. Same(subLog[s][1], subLister(s))
    BY <2>1 DEF Replayed, ChangeLogged
  <2>. QED  BY <2>1, <2>2 DEF Same, Mapped, Specified
<1>5. s \in queue' \/ Feasible(clLog[2], sp) \subseteq Feasible(clLog[1], sp)
  <2>1. ASSUME NEW c \in Feasible(clLog[2], sp) \ Feasible(clLog[1], sp) PROVE s \in queue'
    <3>1. /\ c \in Cluster
          /\ ClusterNeedsScheduling(clLog[1].obj[c], clLog[2].obj[c])
          /\ clLog[2].obj[c].label \in Affinity[sp]
      <4>1. c \in Cluster
        BY <2>1 DEF Feasible
      <4>. QED  BY <1>3, <2>1, <4>1, BelowFacts
    <3>. QED  BY <1>1, <1>4, <3>1
  <2>. QED  BY <2>1
<1>6. subLister(s)' = subLister(s)
  BY <1>1 DEF subLister
<1>7. ASSUME NEW w, VersionOf(w.obj, s), w.obj.rv <= subLister(s).rv, w.obj \in Subscription,
             Carries(w, clLog[1], subs[s]), s \notin queue'
      PROVE  Carries(w, clLog'[1], subs'[s])
  <2>1. CASE subs[s].phase = "gone" \/ subs[s].rv # w.obj.rv
    BY <1>1, <2>1 DEF Carries
  <2>2. CASE subs[s].rv = w.obj.rv /\ Feasible(clLog[1], w.obj.spec) \subseteq w.clusters
    <3>1. w.obj = subs[s]
      BY <1>7, <2>2 DEF VersionOf
    <3>2. VersionOf(subLister(s), s) /\ subLister(s).rv \in Nat /\ subs[s].rv \in Nat
      <4>1. VersionOf(subLister(s), s) /\ subLister(s) \in Subscription
        BY ListerTypes DEF Coherent, subLister, Newest
      <4>2. subs[s] \in Subscription
        BY DEF TypeOK
      <4>. QED  BY <4>1, <4>2 DEF Subscription
    <3>3. subLister(s) = subs[s]
      BY <1>7, <2>2, <3>2 DEF VersionOf
    <3>4. w.obj.spec = sp
      BY <3>1, <3>3
    <3>. QED  BY <1>3, <1>5, <1>7, <2>2, <3>4 DEF Carries
  <2>. QED  BY <1>7, <2>1, <2>2 DEF Carries
<1>8. CASE s \in queue'
  BY <1>8, HandledNext
<1>9. CASE s \notin queue'
  <2>1. CASE /\ cycle # None /\ cycle.sub = s
             /\ cycle.stage = "filter" \/ Carries(cycle, clLog[1], subs[s])
    <3>1. /\ VersionOf(cycle.obj, s) /\ cycle.obj \in Subscription
          /\ cycle.obj.rv <= subLister(s).rv
      BY <2>1, SnapshotTypes DEF Coherent
    <3>. QED  BY <1>1, <1>7, <1>9, <2>1, <3>1, HandledNext
  <2>2. ASSUME NEW b \in Binder, binder[b] # None, binder[b].sub = s,
               Carries(binder[b], clLog[1], subs[s])
        PROVE  Handled(s)'
    <3>1. /\ VersionOf(binder[b].obj, s) /\ binder[b].obj \in Subscription
          /\ binder[b].obj.rv <= subLister(s).rv
      BY <2>2, SnapshotTypes DEF Coherent
    <3>. QED  BY <1>1, <1>7, <1>9, <2>2, <3>1, HandledNext
  <2>3. CASE /\ subs[s].hash = subLister(s).spec
             /\ Feasible(clLog[1], subLister(s).spec) \subseteq subs[s].binding
    BY <1>1, <1>3, <1>5, <1>6, <1>9, <2>3, HandledNext
  <2>. QED  BY <1>1, <1>9, <2>1, <2>2, <2>3 DEF Handled
<1>. QED  BY <1>8, <1>9

(* The end of a goroutine: a conflict requeues, and what is written over a *)
(* binding includes it.                                                    *)
LEMMA HandledByBind ==
  ASSUME IndInv, AllFit, NEW b \in Binder, Bind(b),
         NEW s \in Sub, Schedulable(subLister(s)), Handled(s)
  PROVE  Handled(s)'
<1> USE DEF IndInv
<1> DEFINE w == binder[b]
<1>1. /\ w # None /\ w.sub \in Sub
      /\ UNCHANGED <<clusters, subLog, clLog, subscribersMap, cycle>> /\ queue \subseteq queue'
      /\ binder'[b] = None /\ \A d \in Binder : d # b => binder'[d] = binder[d]
      /\ \A t \in Sub : t # w.sub => subs'[t] = subs[t]
      /\ \/ subs' = subs /\ w.sub \in queue'
         \/ /\ w.obj = subs[w.sub] /\ subLister(w.sub) = subs[w.sub]
            /\ subs'[w.sub].hash = w.obj.spec /\ subs'[w.sub].binding = w.clusters
            /\ subs'[w.sub] = subs[w.sub] \/ subs'[w.sub].rv = subs[w.sub].rv + 1
  BY BindFacts
<1>2. subLister(s)' = subLister(s)
  BY <1>1 DEF subLister
<1>3. ASSUME NEW v, VersionOf(v.obj, s), v.obj \in Subscription, Carries(v, clLog[1], subs[s])
      PROVE  Carries(v, clLog'[1], subs'[s])
  <2>1. subs'[s] = subs[s] \/ subs'[s].rv = subs[s].rv + 1
    BY <1>1
  <2>2. v.obj.rv <= subs[s].rv /\ v.obj.rv \in Nat /\ subs[s].rv \in Nat
    BY <1>3 DEF VersionOf, TypeOK, Subscription
  <2>. QED  BY <1>1, <1>3, <2>1, <2>2, KeptCarries
<1>4. CASE s \in queue'
  BY <1>4, HandledNext
<1>5. CASE /\ cycle # None /\ cycle.sub = s
           /\ cycle.stage = "filter" \/ Carries(cycle, clLog[1], subs[s])
  <2>1. VersionOf(cycle.obj, s) /\ cycle.obj \in Subscription
    BY <1>5, SnapshotTypes DEF Coherent
  <2>. QED  BY <1>1, <1>3, <1>5, <2>1, HandledNext
<1>6. ASSUME NEW d \in Binder, d # b, binder[d] # None, binder[d].sub = s,
             Carries(binder[d], clLog[1], subs[s])
      PROVE  Handled(s)'
  <2>1. VersionOf(binder[d].obj, s) /\ binder[d].obj \in Subscription
    BY <1>6, SnapshotTypes DEF Coherent
  <2>. QED  BY <1>1, <1>3, <1>6, <2>1, HandledNext
<1>7. ASSUME w.sub = s, s \notin queue', Carries(w, clLog[1], subs[s]) PROVE Handled(s)'
  <2>1. /\ w.obj = subs[s] /\ subLister(s) = subs[s]
        /\ subs'[s].hash = w.obj.spec /\ subs'[s].binding = w.clusters
    BY <1>1, <1>7
  <2>2. Feasible(clLog[1], w.obj.spec) \subseteq w.clusters
    BY <1>7, <2>1 DEF Carries, Schedulable
  <2>. QED  BY <1>1, <1>2, <2>1, <2>2, HandledNext
<1>8. ASSUME s \notin queue', subs[s].hash = subLister(s).spec,
             Feasible(clLog[1], subLister(s).spec) \subseteq subs[s].binding
      PROVE  Handled(s)'
  <2>1. CASE w.sub = s
    <3>1. /\ w.obj = subs[s] /\ subLister(s) = subs[s]
          /\ subs'[s].hash = w.obj.spec /\ subs'[s].binding = w.clusters
      BY <1>1, <1>8, <2>1
    <3>2. subs[s].binding \subseteq w.clusters
      BY <1>1, <1>8, <2>1, <3>1 DEF AllFit, Fits
    <3>. QED  BY <1>1, <1>2, <1>8, <3>1, <3>2, HandledNext
  <2>2. CASE w.sub # s
    BY <1>1, <1>2, <1>8, <2>2, HandledNext
  <2>. QED  BY <2>1, <2>2
<1>. QED  BY <1>1, <1>4, <1>5, <1>6, <1>7, <1>8 DEF Handled

LEMMA HandledByCycle ==
  ASSUME IndInv, Chain, NEW s \in Sub, Schedulable(subLister(s)), Handled(s),
         \/ \E t \in Sub : GetNext(t)
         \/ FilterClusters
         \/ \E b \in Binder : ScoreClusters(b) \/ BindFails(b)
  PROVE  Handled(s)'
<1> USE DEF IndInv
<1>1. ASSUME NEW t \in Sub, GetNext(t) PROVE Handled(s)'
  <2>1. /\ UNCHANGED <<subs, subLog, clLog, binder>>
        /\ cycle = None /\ queue' = queue \ {t}
        /\ cycle' # None => cycle'.stage = "filter"
        /\ Schedulable(subLister(t)) => cycle' # None /\ cycle'.sub = t
    BY <1>1, GetNextFacts
  <2>2. subLister(s)' = subLister(s)
    BY <2>1 DEF subLister
  <2>3. CASE s = t
    BY <2>1, <2>3, HandledNext
  <2>4. CASE s # t
    <3>1. CASE s \in queue
      BY <2>1, <2>4, <3>1, HandledNext
    <3>2. CASE s \notin queue
      BY <2>1, <2>2, <3>2, HandledNext DEF Handled
    <3>. QED  BY <3>1, <3>2
  <2>. QED  BY <2>3, <2>4
<1>2. ASSUME FilterClusters PROVE Handled(s)'
  <2>1. /\ UNCHANGED <<subs, subLog, clLog, binder>>
        /\ queue \subseteq queue' /\ cycle # None
        /\ \/ cycle' = None /\ cycle.sub \in queue'
           \/ /\ cycle' # None /\ cycle'.sub = cycle.sub /\ cycle'.obj = cycle.obj
              /\ cycle'.stage = "score"
              /\ cycle'.clusters = Feasible(clusterLister, cycle.obj.spec)
    BY <1>2, FilterFacts
  <2>2. subLister(s)' = subLister(s)
    BY <2>1 DEF subLister
  <2>3. Feasible(clLog[1], cycle.obj.spec) \subseteq Feasible(clusterLister, cycle.obj.spec)
    <3>1. /\ clLog[1] \in ClusterList /\ clusterLister \in ClusterList
          /\ Len(clLog) \in Nat \ {0} /\ clusterLister = clLog[Len(clLog)]
          /\ 1 \in 1..Len(clLog) /\ Len(clLog) \in 1..Len(clLog)
      BY ClLogFacts
    <3>2. Len(clLog) = 1 \/ 1 < Len(clLog)
      <4>1. \A n \in Nat \ {0} : n = 1 \/ 1 < n
        OBVIOUS
      <4>. QED  BY <3>1, <4>1, Zenon
    <3>3. Below(clLog[1], clusterLister)
      BY <3>1, <3>2, BelowOrder DEF Chain
    <3>. QED  BY <3>1, <3>3, BelowFacts
  <2>4. CASE cycle.sub = s
    <3>1. CASE s \in queue'
      BY <3>1, HandledNext
    <3>2. CASE s \notin queue'
      <4>1. Carries(cycle', clLog'[1], subs'[s])
        BY <2>1, <2>3, <2>4, <3>2 DEF Carries
      <4>. QED  BY <2>1, <2>4, <3>2, <4>1, HandledNext
    <3>. QED  BY <3>1, <3>2
  <2>5. CASE cycle.sub # s
    BY <2>1, <2>2, <2>5, HandledNext DEF Handled
  <2>. QED  BY <2>4, <2>5
<1>3. ASSUME NEW b \in Binder, ScoreClusters(b) PROVE Handled(s)'
  <2>1. /\ UNCHANGED <<subs, subLog, clLog>>
        /\ queue \subseteq queue' /\ cycle # None /\ cycle.stage = "score" /\ cycle' = None
        /\ binder[b] = None /\ \A d \in Binder : d # b => binder'[d] = binder[d]
        /\ \/ binder'[b] = None /\ cycle.sub \in queue'
           \/ /\ binder'[b] # None /\ binder'[b].sub = cycle.sub /\ binder'[b].obj = cycle.obj
              /\ binder'[b].clusters = cycle.clusters
    BY <1>3, ScoreFacts
  <2>2. subLister(s)' = subLister(s)
    BY <2>1 DEF subLister
  <2>3. CASE s \in queue'
    BY <2>3, HandledNext
  <2>4. ASSUME s \notin queue', cycle.sub = s, Carries(cycle, clLog[1], subs[s])
        PROVE  Handled(s)'
    <3>1. Carries(binder'[b], clLog'[1], subs'[s])
      BY <2>1, <2>4 DEF Carries
    <3>. QED  BY <2>1, <2>4, <3>1, HandledNext
  <2>5. ASSUME NEW d \in Binder, binder[d] # None, binder[d].sub = s,
               Carries(binder[d], clLog[1], subs[s])
        PROVE  Handled(s)'
    BY <2>1, <2>5, HandledNext
  <2>6. CASE /\ subs[s].hash = subLister(s).spec
             /\ Feasible(clLog[1], subLister(s).spec) \subseteq subs[s].binding
    BY <2>1, <2>2, <2>6, HandledNext
  <2>7. cycle.stage # "filter"
    BY <2>1
  <2>. QED  BY <2>1, <2>3, <2>4, <2>5, <2>6, <2>7 DEF Handled
<1>4. ASSUME NEW b \in Binder, BindFails(b) PROVE Handled(s)'
  <2>1. /\ UNCHANGED <<subs, subLog, clLog, cycle>>
        /\ queue \subseteq queue' /\ binder[b].sub \in queue'
        /\ binder'[b] = None /\ \A d \in Binder : d # b => binder'[d] = binder[d]
    BY <1>4, FailsFacts
  <2>2. subLister(s)' = subLister(s)
    BY <2>1 DEF subLister
  <2>3. CASE s \in queue'
    BY <2>3, HandledNext
  <2>4. ASSUME NEW d \in Binder, binder[d] # None, binder[d].sub = s, s \notin queue',
               Carries(binder[d], clLog[1], subs[s])
        PROVE  Handled(s)'
    <3>1. d # b
      BY <2>1, <2>4
    <3>. QED  BY <2>1, <2>4, <3>1, HandledNext
  <2>5. CASE /\ cycle # None /\ cycle.sub = s
             /\ cycle.stage = "filter" \/ Carries(cycle, clLog[1], subs[s])
    BY <2>1, <2>5, HandledNext
  <2>6. CASE /\ subs[s].hash = subLister(s).spec
             /\ Feasible(clLog[1], subLister(s).spec) \subseteq subs[s].binding
    BY <2>1, <2>2, <2>6, HandledNext
  <2>. QED  BY <2>1, <2>3, <2>4, <2>5, <2>6 DEF Handled
<1>. QED  BY <1>1, <1>2, <1>3, <1>4

LEMMA AllCoveredStep ==
  ASSUME IndInv, GrowthInv, [Next]_vars PROVE AllCovered'
<1> USE DEF IndInv
<1> SUFFICES ASSUME NEW s \in Sub, Schedulable(subLister(s)'), ~ChangeLogged(s)'
             PROVE  Handled(s)'
  BY DEF AllCovered, Covered, Schedulable
<1>0. Specified /\ Replayed /\ Mapped /\ Chain /\ AllFit /\ Covered(s)
  BY DEF GrowthInv, AllCovered
<1>1. ASSUME subLog' = subLog
      PROVE  (Schedulable(subLister(s)) /\ ~ChangeLogged(s) /\ Handled(s)) \/ s \in queue'
  BY <1>0, <1>1, LogKept DEF Covered
<1>2. ASSUME NEW t \in Sub, GetNext(t) PROVE Handled(s)'
  <2>1. subLog' = subLog
    BY <1>2, GetNextFacts
  <2>. QED  BY <1>0, <1>1, <1>2, <2>1, HandledByCycle, HandledNext
<1>3. ASSUME FilterClusters PROVE Handled(s)'
  <2>1. subLog' = subLog
    BY <1>3, FilterFacts
  <2>. QED  BY <1>0, <1>1, <1>3, <2>1, HandledByCycle, HandledNext
<1>4. ASSUME NEW b \in Binder, ScoreClusters(b) \/ BindFails(b) PROVE Handled(s)'
  <2>1. subLog' = subLog
    BY <1>4, ScoreFacts, FailsFacts
  <2>. QED  BY <1>0, <1>1, <1>4, <2>1, HandledByCycle, HandledNext
<1>5. ASSUME NEW b \in Binder, Bind(b) PROVE Handled(s)'
  <2>1. subLog' = subLog
    BY <1>5, BindFacts
  <2>. QED  BY <1>0, <1>1, <1>5, <2>1, HandledByBind, HandledNext
<1>6. ASSUME HandleClusterEvents PROVE Handled(s)'
  <2>1. subLog' = subLog
    BY <1>6, HandleClustersFacts
  <2>. QED  BY <1>0, <1>1, <1>6, <2>1, HandledByEvents, HandledNext
<1>7. ASSUME Restart PROVE FALSE
  <2>1. /\ Len(subLog'[s]) = 2 /\ subLog'[s][1] = NoSub
        /\ subLog'[s][2] = subs[s] /\ subLister(s)' = subs[s]
    BY <1>7, RestartFacts
  <2>2. ~Schedulable(NoSub)
    BY DEF NoSub, Schedulable
  <2>3. 2 \in 2..Len(subLog'[s]) /\ 2 - 1 = 1
    BY <2>1
  <2>4. SubNeedsScheduling(subLog'[s][2 - 1], subLog'[s][2])
    BY <2>1, <2>2, <2>3 DEF SubNeedsScheduling
  <2>. QED  BY <2>3, <2>4 DEF ChangeLogged, SubNeedsScheduling, Schedulable
<1>8. ASSUME UNCHANGED <<cycle, binder>>, clLog'[1] = clLog[1], queue \subseteq queue',
             subLog' = subLog \/ \E t \in Sub : SyncSubs(t) \/ HandleSubEvent(t),
             subs'[s].hash = subs[s].hash, subs'[s].binding = subs[s].binding
      PROVE  Handled(s)'
  <2>1. \/ s \in queue'
        \/ Handled(s) /\ subLister(s)'.spec = subLister(s).spec
    BY <1>0, <1>8, LogKept DEF Covered
  <2>2. subs'[s] = subs[s] \/ Rewritten(subs[s], subs'[s])
    BY SubMoves
  <2>. QED  BY <1>8, <2>1, <2>2, QuietStep, HandledNext
<1>9. ASSUME NEW t \in Sub, SyncSubs(t) \/ HandleSubEvent(t) PROVE Handled(s)'
  <2>1. UNCHANGED <<cycle, binder, clLog, subs>> /\ queue \subseteq queue'
    BY <1>9, SyncSubsFacts, HandleSubFacts
  <2>. QED  BY <1>8, <1>9, <2>1
<1>10. ASSUME SyncClusters PROVE Handled(s)'
  <2>1. /\ UNCHANGED <<subs, subLog, queue, cycle, binder>>
        /\ \A i \in 1..Len(clLog) : clLog'[i] = clLog[i]
    BY <1>10, SyncClustersFacts
  <2>2. clLog'[1] = clLog[1]
    BY <2>1, ClLogFacts
  <2>. QED  BY <1>8, <2>1, <2>2
<1>11. ASSUME Environment, UNCHANGED <<infVars, procVars>> PROVE Handled(s)'
  <2>1. UNCHANGED <<subLog, clLog, queue, cycle, binder>>
    BY <1>11 DEF infVars, procVars
  <2>2. subs'[s].hash = subs[s].hash /\ subs'[s].binding = subs[s].binding
    BY <1>11, EnvironmentEffect
  <2>. QED  BY <1>8, <2>1, <2>2
<1>12. ASSUME NEW t \in Sub, NEW sp \in SubSpec, CreateSub(t, sp) \/ UpdateSpec(t, sp)
       PROVE  Environment /\ UNCHANGED <<infVars, procVars>>
  BY <1>12 DEF CreateSub, UpdateSpec, Environment
<1>13. ASSUME NEW t \in Sub, DeleteSub(t) \/ HubFinalize(t) \/ HubWritesMeta(t)
       PROVE  Environment /\ UNCHANGED <<infVars, procVars>>
  BY <1>13 DEF DeleteSub, HubFinalize, HubWritesMeta, Environment
<1>14. ASSUME NEW c \in Cluster, ClusterEvent(c)
       PROVE  Environment /\ UNCHANGED <<infVars, procVars>>
  <2>1. UNCHANGED <<infVars, procVars>>
    BY <1>14 DEF ClusterEvent, ChangeCluster
  <2>. QED  BY <1>14, <2>1 DEF Environment
<1>15. CASE UNCHANGED vars
  <2>1. UNCHANGED <<subs, subLog, clLog, queue, cycle, binder>>
    BY <1>15 DEF vars, apiVars, infVars, procVars
  <2>. QED  BY <1>8, <2>1
<1>16. CASE Environment
  BY <1>4, <1>7, <1>11, <1>12, <1>13, <1>14, <1>16 DEF Environment
<1>17. CASE Progress
  BY <1>2, <1>3, <1>4, <1>5, <1>6, <1>9, <1>10, <1>17 DEF Progress
<1>. QED  BY <1>15, <1>16, <1>17 DEF Next

-----------------------------------------------------------------------------
(* Settled bindings.                                                       *)

LEMMA GrowthInit == Init => GrowthInv
<1> SUFFICES ASSUME Init PROVE GrowthInv
  OBVIOUS
<1>1. /\ \A s \in Sub : subs[s] = NoSub /\ subLog[s] = <<NoSub>>
      /\ clusters = NoClusters /\ clLog = <<NoClusters>>
      /\ cycle = None /\ \A b \in Binder : binder[b] = None
  BY DEF Init
<1>2. \A x : Len(<<x>>) = 1 /\ <<x>>[1] = x /\ <<x>>[Len(<<x>>)] = x /\ 1..1 = {1}
  OBVIOUS
<1>3. /\ \A s \in Sub : Len(subLog[s]) = 1 /\ subLog[s][1] = NoSub /\ subLister(s) = NoSub
      /\ Len(clLog) = 1 /\ clLog[1] = NoClusters /\ clusterLister = NoClusters
  BY <1>1, <1>2, Zenon DEF subLister, clusterLister, Newest
<1>4. ~Schedulable(NoSub) /\ NoSub.binding = {}
  BY DEF Schedulable, NoSub
<1>5. Specified
  <2>1. \A s \in Sub : \A i \in 1..Len(subLog[s]) : subLog[s][i] = NoSub
    BY <1>3
  <2>. QED  BY <1>1, <1>4, <2>1 DEF Specified
<1>6. Replayed /\ Mapped /\ AllCovered
  BY <1>3, <1>4 DEF Replayed, Mapped, AllCovered, Covered
<1>7. Chain
  <2>1. \A i \in 1..Len(clLog) : clLog[i] = NoClusters /\ \A j \in 1..Len(clLog) : ~(i < j)
    BY <1>3
  <2>. QED  BY <1>1, <2>1, BelowOrder DEF Chain
<1>8. AllFit
  BY <1>1, <1>4 DEF AllFit
<1>. QED  BY <1>5, <1>6, <1>7, <1>8 DEF GrowthInv

LEMMA GrowthStep ==
  ASSUME IndInv, GrowthInv, [Next]_vars, IndInv', Below(clusters, clusters')
  PROVE  GrowthInv'
<1>1. /\ TypeOK /\ TypeOK' /\ Specified /\ Replayed /\ Mapped /\ Chain /\ AllFit
  BY DEF IndInv, GrowthInv
<1>2. Specified' /\ Replayed' /\ Mapped'
  BY <1>1, SpecifiedStep, ReplayedStep, MappedStep
<1>3. Chain' /\ Below(clusterLister, clusterLister')
  BY <1>1, ChainStep
<1>4. AllFit'
  BY <1>1, <1>3, AllFitStep
<1>5. AllCovered'
  BY AllCoveredStep
<1>. QED  BY <1>2, <1>3, <1>4, <1>5 DEF GrowthInv

(* Once nothing is left to do, what the handlers were told of is all there *)
(* is: the binding has every cluster that fits, and no other.              *)
LEMMA SettledFit ==
  ASSUME IndInv, GrowthInv PROVE SettledBindingsFit
<1> SUFFICES ASSUME NEW s \in Sub, subs[s].phase = "live", Settled(s)
             PROVE  /\ subs[s].hash = subs[s].spec
                    /\ subs[s].binding = Feasible(clusters, subs[s].spec)
  BY DEF SettledBindingsFit
<1>1. ~InFlight(s) /\ subLog[s] = <<subs[s]>> /\ clLog = <<clusters>>
  BY DEF Settled
<1>2. \A x : Len(<<x>>) = 1 /\ <<x>>[1] = x /\ <<x>>[Len(<<x>>)] = x
  OBVIOUS
<1>3. /\ subLister(s) = subs[s] /\ Len(subLog[s]) = 1
      /\ clLog[1] = clusters /\ clusterLister = clusters
  BY <1>1, <1>2, Zenon DEF subLister, clusterLister, Newest
<1>4. Schedulable(subLister(s)) /\ ~ChangeLogged(s)
  BY <1>3 DEF Schedulable, ChangeLogged
<1>5. Handled(s)
  BY <1>4 DEF GrowthInv, AllCovered, Covered
<1>6. /\ subs[s].hash = subs[s].spec
      /\ Feasible(clusters, subs[s].spec) \subseteq subs[s].binding
  BY <1>1, <1>3, <1>5 DEF Handled, InFlight
<1>7. subs[s].binding \subseteq Feasible(clusters, subs[s].hash)
  BY <1>3 DEF GrowthInv, AllFit
<1>. QED  BY <1>6, <1>7

(* As long as clusters only join and lose their taints, a Subscription     *)
(* with which the scheduler is done is bound to exactly the clusters that  *)
(* fit its spec: no event of either informer is lost between the handlers, *)
(* the subscribersMap, the queue, cycles and goroutines, whatever users    *)
(* write, requests fail and the process restarts.                          *)
THEOREM GrowingBindings == GrowSpec => []GrowingBindingsFit
<1>1. GrowInit => Init /\ (growing => GrowthInv)
  BY GrowthInit DEF GrowInit
<1>2. GrowSpec => Spec
  <2>1. GrowInit => Init
    BY DEF GrowInit
  <2>2. [GrowNext]_<<vars, growing>> => [Next]_vars
    BY DEF GrowNext
  <2>. QED  BY <2>1, <2>2, PTL DEF GrowSpec, Spec
<1>3. ASSUME IndInv, IndInv', growing => GrowthInv, [GrowNext]_<<vars, growing>>
      PROVE  (growing => GrowthInv)'
  <2>1. [Next]_vars
    BY <1>3 DEF GrowNext
  <2>2. CASE GrowNext
    <3> SUFFICES ASSUME growing' PROVE GrowthInv'
      OBVIOUS
    <3>1. growing /\ Grows
      BY <2>2 DEF GrowNext
    <3>2. Below(clusters, clusters')
      BY <3>1 DEF Grows, Below
    <3>. QED  BY <1>3, <2>1, <3>1, <3>2, GrowthStep
  <2>3. CASE UNCHANGED <<vars, growing>>
    <3> SUFFICES ASSUME growing' PROVE GrowthInv'
      OBVIOUS
    <3>1. growing /\ clusters' = clusters
      BY <2>3 DEF vars, apiVars
    <3>2. clusters \in ClusterList
      BY <1>3 DEF IndInv, TypeOK
    <3>3. Below(clusters, clusters')
      BY <3>1, <3>2, BelowOrder
    <3>. QED  BY <1>3, <2>1, <3>1, <3>3, GrowthStep
  <2>. QED  BY <1>3, <2>2, <2>3
<1>4. IndInv /\ (growing => GrowthInv) => GrowingBindingsFit
  BY SettledFit DEF GrowingBindingsFit
<1>. QED  BY <1>1, <1>2, <1>3, <1>4, Inductive, PTL DEF GrowSpec
=============================================================================
