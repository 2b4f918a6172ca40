--------------------------- MODULE BaseSyncProofs ---------------------------
(***************************************************************************)
(* What BaseSync guarantees for every set of clusters, every scenario and  *)
(* every number of events: type correctness, and that no update of a       *)
(* Subscription is lost on its way to the Bases.                           *)
(***************************************************************************)
EXTENDS BaseSync, TLAPS

ScenarioType == [namespaces: SUBSET Cluster, adopted: BOOLEAN,
                 kinds: SUBSET EventKind, left: 0..MaxEvents]

TypeInv == TypeOK /\ scenario \in ScenarioType

-----------------------------------------------------------------------------
(* The inductive invariant of BoundClustersServed.                         *)

(* The cached version k, the versions w under way and the stored version s *)
(* of the Subscription: in order, none with a hash ahead of its feeds.     *)
SubChain(k, w, s) ==
  /\ Len(w) = 0 => /\ k.feeds = s.feeds /\ k.hash = s.hash
                   /\ k.binding = s.binding /\ k.phase = s.phase
  /\ Len(w) > 0 => w[Len(w)] = s
  /\ k.hash <= k.feeds /\ k.feeds <= s.feeds /\ s.hash <= s.feeds
  /\ s.phase = "live" => k.phase \in {"absent", "live"}
  /\ \A i \in DOMAIN w :
       /\ w[i].hash <= w[i].feeds
       /\ k.feeds <= w[i].feeds /\ w[i].feeds <= s.feeds
       /\ s.phase = "live" => w[i].phase = "live"
       /\ \A j \in DOMAIN w : i < j => w[i].feeds <= w[j].feeds

(* The same for the Base of one cluster: a version number names one        *)
(* version, feeds never go back, and a Base that is deleted is not created *)
(* again before the cache has seen it go.                                  *)
BaseChain(k, w, b) ==
  /\ Len(w) = 0 => k = b
  /\ Len(w) > 0 => w[Len(w)] = b
  /\ k.rv <= b.rv /\ (k.rv = b.rv => k = b)
  /\ \A i \in DOMAIN w : w[i].rv <= b.rv /\ (w[i].rv = b.rv => w[i] = b)
  /\ b.phase = "deleting" => Exists(k)
  /\ Exists(b) =>
       /\ Exists(k) => k.feeds <= b.feeds /\ \A i \in DOMAIN w : Exists(w[i])
       /\ \A i \in DOMAIN w : Exists(w[i]) =>
            w[i].feeds <= b.feeds /\ \A j \in DOMAIN w : i < j => Exists(w[j])
  /\ ~Exists(b) =>
       /\ ~Exists(k) => \A i \in DOMAIN w : ~Exists(w[i])
       /\ \A i, j \in DOMAIN w : i < j /\ ~Exists(w[i]) => ~Exists(w[j])

SubInv == SubChain(subCache, subWatch, sub)
BaseInv == \A c \in Cluster : BaseChain(baseCache[c], baseWatch[c], base[c])

Adopted(o) == o.fin /\ o.uidLabel

(* An adopted Subscription is never adopted again, so items come from the  *)
(* cache; otherwise nobody edits the feeds.                                *)
AdoptInv ==
  /\ Orderly(scenario)
  /\ scenario.adopted => /\ Adopted(sub) /\ Adopted(subCache)
                         /\ \A i \in DOMAIN subWatch : Adopted(subWatch[i])
                         /\ worker # None => worker.pc \notin {"inject", "label"}
  /\ ~scenario.adopted => sub.feeds = 1

(* Bases never have newer feeds than the items of the worker, nor those    *)
(* than the cache.                                                         *)
FeedInv ==
  /\ sub.feeds <= newest
  /\ \A c \in Cluster : base[c].feeds <= subCache.feeds
  /\ worker # None =>
       /\ worker.obj.hash <= worker.obj.feeds /\ worker.obj.feeds <= subCache.feeds
       /\ \A c \in Cluster : base[c].feeds <= worker.obj.feeds
       /\ sub.phase = "live" => worker.obj.phase = "live"

SameKey(o, p) == o.binding = p.binding /\ o.hash = p.hash

(* The Subscription is in the queue, or a version that will put it there   *)
(* is on its way.                                                          *)
Due == \/ queued
       \/ ~scenario.adopted /\ \E i \in DOMAIN subWatch : ~SameKey(subWatch[i], subCache)

WorkInv == worker # None => Due \/ SameKey(worker.obj, subCache)

(* The worker will still come to cluster c, or return an error. *)
Doing(c) == /\ worker # None
            /\ \/ worker.pc \in {"inject", "label", "handle"}
               \/ worker.pc = "populate" /\ (c \in worker.todo \/ worker.failed)

(* The Base goes, and its Delete event will put the Subscription in the queue. *)
Dying(c) == base[c].phase = "deleting" \/ (Exists(baseCache[c]) /\ ~Exists(base[c]))

Done(c) == \/ /\ base[c].phase = "live" /\ base[c].feeds >= subCache.hash
              /\ worker = None \/ c \notin worker.drop
           \/ Dying(c)

(* No cluster that the cached version is bound to is forgotten. *)
PendInv == sub.phase = "live" /\ subCache.phase = "live" =>
             \A c \in subCache.binding \cap Namespace : Due \/ Doing(c) \/ Done(c)

IInv == TypeInv /\ SubInv /\ BaseInv /\ AdoptInv /\ FeedInv /\ WorkInv /\ PendInv

-----------------------------------------------------------------------------
(* Type correctness.                                                       *)

(* What an environment event leaves of the scenario: one event less. *)
LEMMA EventFacts ==
  ASSUME TypeInv, NEW kind, Event(kind)
  PROVE  /\ scenario' \in ScenarioType
         /\ scenario'.namespaces = scenario.namespaces
         /\ scenario'.adopted = scenario.adopted
         /\ scenario'.kinds = scenario.kinds
         /\ kind \in scenario.kinds
BY ConfigAssumption DEF TypeInv, ScenarioType, Event

(* A write of the Subscription stores and announces a typed version. *)
LEMMA WriteSubFacts ==
  ASSUME TypeInv, NEW o \in Subscription, WriteSub(o)
  PROVE  /\ sub' \in Subscription
         /\ subWatch' \in Seq(Subscription)
         /\ subWatch' = Append(subWatch, sub')
         /\ sub'.phase = o.phase /\ sub'.feeds = o.feeds /\ sub'.hash = o.hash
         /\ sub'.binding = o.binding /\ sub'.fin = o.fin /\ sub'.uidLabel = o.uidLabel
<1>1. sub \in Subscription /\ subWatch \in Seq(Subscription)
  BY DEF TypeInv, TypeOK
<1>2. sub.rv + 1 \in Nat
  BY <1>1 DEF Subscription
<1>3. sub' = [o EXCEPT !.rv = sub.rv + 1] /\ subWatch' = Append(subWatch, sub')
  BY DEF WriteSub
<1>4. sub' \in Subscription
  BY <1>2, <1>3 DEF Subscription
<1>5. subWatch' \in Seq(Subscription)
  BY <1>1, <1>3, <1>4
<1>6. /\ sub'.phase = o.phase /\ sub'.feeds = o.feeds /\ sub'.hash = o.hash
      /\ sub'.binding = o.binding /\ sub'.fin = o.fin /\ sub'.uidLabel = o.uidLabel
  BY <1>3 DEF Subscription
<1>. QED  BY <1>3, <1>4, <1>5, <1>6

(* A write of a Base stores and announces a typed version of that one. *)
LEMMA WriteBaseFacts ==
  ASSUME TypeInv, NEW c \in Cluster, NEW o \in Base, WriteBase(c, o)
  PROVE  /\ base' \in [Cluster -> Base]
         /\ baseWatch' \in [Cluster -> Seq(Base)]
         /\ base'[c].rv = base[c].rv + 1
         /\ base'[c].phase = o.phase /\ base'[c].feeds = o.feeds
         /\ baseWatch'[c] = Append(baseWatch[c], base'[c])
         /\ \A d \in Cluster : d # c => base'[d] = base[d] /\ baseWatch'[d] = baseWatch[d]
<1>0. base \in [Cluster -> Base] /\ baseWatch \in [Cluster -> Seq(Base)]
  BY DEF TypeInv, TypeOK
<1>1. base[c].rv + 1 \in Nat /\ [o EXCEPT !.rv = base[c].rv + 1] \in Base
  <2>1. base[c] \in Base
    BY <1>0
  <2>2. base[c].rv \in Nat
    BY <2>1 DEF Base
  <2>. QED  BY <2>2 DEF Base
<1>2. base' \in [Cluster -> Base] /\ base'[c] = [o EXCEPT !.rv = base[c].rv + 1]
      /\ \A d \in Cluster : d # c => base'[d] = base[d]
  BY <1>1 DEF TypeInv, TypeOK, WriteBase
<1>3. base'[c].rv = base[c].rv + 1 /\ base'[c].phase = o.phase /\ base'[c].feeds = o.feeds
  BY <1>1, <1>2 DEF Base
<1>4. Append(baseWatch[c], base'[c]) \in Seq(Base)
  <2>1. baseWatch[c] \in Seq(Base) /\ base'[c] \in Base
    BY <1>0, <1>2
  <2>. QED  BY <2>1
<1>5. baseWatch' = [baseWatch EXCEPT ![c] = Append(baseWatch[c], base'[c])]
  BY DEF WriteBase
<1>6. baseWatch' \in [Cluster -> Seq(Base)] /\ baseWatch'[c] = Append(baseWatch[c], base'[c])
      /\ \A d \in Cluster : d # c => baseWatch'[d] = baseWatch[d]
  BY <1>4, <1>5 DEF TypeInv, TypeOK
<1>. QED  BY <1>2, <1>3, <1>6

(* The fields of a typed item. *)
LEMMA ItemFacts ==
  ASSUME TypeInv, worker # None
  PROVE  /\ worker \in Item
         /\ worker.pc \in Step /\ worker.obj \in Subscription
         /\ worker.todo \subseteq Namespace /\ worker.drop \subseteq Cluster
         /\ worker.failed \in BOOLEAN
BY DEF TypeInv, TypeOK, Item

(* Any other next item that is typed is one of the typed next state. *)
LEMMA ItemKept ==
  ASSUME TypeInv, scenario'.namespaces = scenario.namespaces
  PROVE  Item' = Item
BY DEF Item, Namespace

LEMMA TypeInit ==
  ASSUME Init
  PROVE  TypeInv
<1>1. scenario \in ScenarioType
  BY ConfigAssumption DEF Init, ScenarioType
<1>2. 1 \in Feeds /\ 0 \in Feeds \cup {0}
  BY ConfigAssumption DEF Feeds
<1>3. sub \in Subscription
  BY <1>1, <1>2 DEF Init, NewSub, Subscription, ScenarioType
<1>4. subCache \in Subscription
  BY <1>1, <1>2 DEF Init, NewSub, Subscription, ScenarioType
<1>5. NoBase \in Base
  BY <1>2 DEF NoBase, Base
<1>6. base \in [Cluster -> Base] /\ baseCache \in [Cluster -> Base]
  BY <1>5 DEF Init
<1>7. subWatch \in Seq(Subscription)
  BY <1>3 DEF Init
<1>8. baseWatch \in [Cluster -> Seq(Base)]
  BY DEF Init
<1>. QED
  BY <1>1, <1>2, <1>3, <1>4, <1>6, <1>7, <1>8 DEF Init, TypeInv, TypeOK, ScenarioType

(* A delivery of a version of the Subscription. *)
LEMMA DeliverSubType ==
  ASSUME TypeInv, NEW o \in Subscription, NEW w \in Seq(Subscription), DeliverSub(o, w)
  PROVE  /\ sub' \in Subscription /\ subCache' \in Subscription
         /\ base' \in [Cluster -> Base] /\ baseCache' \in [Cluster -> Base]
         /\ subWatch' \in Seq(Subscription) /\ baseWatch' \in [Cluster -> Seq(Base)]
         /\ queued' \in BOOLEAN /\ worker' = worker
BY DEF TypeInv, TypeOK, DeliverSub, apiVars

(* A delivery of a version of a Base. *)
LEMMA DeliverBaseType ==
  ASSUME TypeInv, NEW c \in Cluster, NEW o \in Base, NEW w \in Seq(Base), DeliverBase(c, o, w)
  PROVE  /\ sub' \in Subscription /\ subCache' \in Subscription
         /\ base' \in [Cluster -> Base] /\ baseCache' \in [Cluster -> Base]
         /\ subWatch' \in Seq(Subscription) /\ baseWatch' \in [Cluster -> Seq(Base)]
         /\ queued' \in BOOLEAN /\ worker' = worker
BY DEF TypeInv, TypeOK, DeliverBase, apiVars

LEMMA MutateCacheType ==
  ASSUME TypeInv, MutateCache
  PROVE  subCache' \in Subscription
BY DEF TypeInv, TypeOK, MutateCache, Subscription

LEMMA EnvironmentType ==
  ASSUME TypeInv, Environment
  PROVE  TypeInv'
<1>1. ASSUME NEW f \in Feeds, EditFeeds(f) PROVE TypeInv'
  <2>1. [sub EXCEPT !.feeds = f] \in Subscription
    BY DEF TypeInv, TypeOK, Subscription
  <2>2. sub' \in Subscription /\ subWatch' \in Seq(Subscription)
    BY <1>1, <2>1, WriteSubFacts DEF EditFeeds
  <2>3. newest' \in Feeds
    BY <1>1 DEF EditFeeds, TypeInv, TypeOK
  <2>4. scenario' \in ScenarioType /\ Item' = Item
    BY <1>1, EventFacts, ItemKept DEF EditFeeds
  <2>. QED  BY <1>1, <2>2, <2>3, <2>4
            DEF EditFeeds, TypeInv, TypeOK, KeepBases, cacheVars, ScenarioType
<1>2. ASSUME NEW cs \in SUBSET Cluster, BindClusters(cs) PROVE TypeInv'
  <2>1. [sub EXCEPT !.binding = cs, !.hash = sub.feeds] \in Subscription
    BY DEF TypeInv, TypeOK, Subscription
  <2>2. sub' \in Subscription /\ subWatch' \in Seq(Subscription)
    BY <1>2, <2>1, WriteSubFacts DEF BindClusters
  <2>4. scenario' \in ScenarioType /\ Item' = Item
    BY <1>2, EventFacts, ItemKept DEF BindClusters
  <2>. QED  BY <1>2, <2>2, <2>4
            DEF BindClusters, TypeInv, TypeOK, KeepBases, cacheVars, ScenarioType
<1>3. CASE DeleteSub
  <2>1. [sub EXCEPT !.phase = IF sub.fin THEN "deleting" ELSE "gone"] \in Subscription
    BY DEF TypeInv, TypeOK, Subscription
  <2>2. sub' \in Subscription /\ subWatch' \in Seq(Subscription)
    BY <1>3, <2>1, WriteSubFacts DEF DeleteSub
  <2>4. scenario' \in ScenarioType /\ Item' = Item
    BY <1>3, EventFacts, ItemKept DEF DeleteSub
  <2>. QED  BY <1>3, <2>2, <2>4
            DEF DeleteSub, TypeInv, TypeOK, KeepBases, cacheVars, ScenarioType
<1>4. CASE TouchSub
  <2>2. sub' \in Subscription /\ subWatch' \in Seq(Subscription)
    BY <1>4, WriteSubFacts DEF TouchSub, TypeInv, TypeOK
  <2>4. scenario' \in ScenarioType /\ Item' = Item
    BY <1>4, EventFacts, ItemKept DEF TouchSub
  <2>. QED  BY <1>4, <2>2, <2>4
            DEF TouchSub, TypeInv, TypeOK, KeepBases, cacheVars, ScenarioType
<1>5. ASSUME NEW c \in Cluster, TouchBase(c) PROVE TypeInv'
  <2>2. base' \in [Cluster -> Base] /\ baseWatch' \in [Cluster -> Seq(Base)]
    BY <1>5, WriteBaseFacts DEF TouchBase, TypeInv, TypeOK
  <2>4. scenario' \in ScenarioType /\ Item' = Item
    BY <1>5, EventFacts, ItemKept DEF TouchBase
  <2>. QED  BY <1>5, <2>2, <2>4
            DEF TouchBase, TypeInv, TypeOK, KeepSub, cacheVars, ScenarioType
<1>6. CASE RequestFails
  <2>1. scenario' \in ScenarioType /\ Item' = Item
    BY <1>6, EventFacts, ItemKept DEF RequestFails
  <2>2. subCache' \in Subscription
    BY <1>6, MutateCacheType DEF RequestFails, TypeInv, TypeOK
  <2>3. worker' \in Item \cup {None} /\ queued' \in BOOLEAN
    <3>1. worker \in Item /\ worker.failed \in BOOLEAN /\ queued \in BOOLEAN
      BY <1>6, ItemFacts DEF RequestFails, TypeInv, TypeOK
    <3>2. ASSUME NEW c \in worker.todo, Synced(c, FALSE) PROVE worker' \in Item
      BY <3>1, <3>2 DEF Synced, Item
    <3>3. ASSUME NEW c \in worker.drop, Dropped(c, FALSE) PROVE worker' \in Item
      BY <3>1, <3>3 DEF Dropped, Item
    <3>. QED  BY <1>6, <3>1, <3>2, <3>3 DEF RequestFails, Requeue
  <2>. QED  BY <1>6, <2>1, <2>2, <2>3
            DEF RequestFails, TypeInv, TypeOK, apiVars, watchVars, ScenarioType
<1>7. CASE Relist
  <2>1. scenario' \in ScenarioType /\ Item' = Item /\ newest' = newest
    BY <1>7, EventFacts, ItemKept DEF Relist
  <2>2. CASE DeliverSub(sub, <<>>)
    <3>1. sub \in Subscription /\ <<>> \in Seq(Subscription)
      BY DEF TypeInv, TypeOK
    <3>. QED  BY <2>1, <2>2, <3>1, DeliverSubType DEF TypeInv, TypeOK, ScenarioType
  <2>3. ASSUME NEW c \in Cluster, DeliverBase(c, base[c], <<>>) PROVE TypeInv'
    <3>1. base[c] \in Base /\ <<>> \in Seq(Base)
      BY DEF TypeInv, TypeOK
    <3>. QED  BY <2>1, <2>3, <3>1, DeliverBaseType DEF TypeInv, TypeOK, ScenarioType
  <2>. QED  BY <1>7, <2>2, <2>3 DEF Relist
<1>8. CASE Restart
  <2>1. scenario' \in ScenarioType
    BY <1>8, EventFacts DEF Restart
  <2>. QED  BY <1>8, <2>1 DEF Restart, TypeInv, TypeOK, ScenarioType, apiVars, Exists
<1>. QED  BY <1>1, <1>2, <1>3, <1>4, <1>5, <1>6, <1>7, <1>8 DEF Environment

LEMMA InformersType ==
  ASSUME TypeInv, Informers
  PROVE  TypeInv'
<1>1. CASE SyncSub
  <2>1. Head(subWatch) \in Subscription /\ Tail(subWatch) \in Seq(Subscription)
    BY <1>1 DEF SyncSub, TypeInv, TypeOK
  <2>2. Item' = Item
    BY <1>1, ItemKept DEF SyncSub, envVars
  <2>. QED  BY <1>1, <2>1, <2>2, DeliverSubType DEF SyncSub, TypeInv, TypeOK, envVars
<1>2. ASSUME NEW c \in Cluster, SyncBases(c) PROVE TypeInv'
  <2>1. Head(baseWatch[c]) \in Base /\ Tail(baseWatch[c]) \in Seq(Base)
    BY <1>2 DEF SyncBases, TypeInv, TypeOK
  <2>2. Item' = Item
    BY <1>2, ItemKept DEF SyncBases, envVars
  <2>. QED  BY <1>2, <2>1, <2>2, DeliverBaseType DEF SyncBases, TypeInv, TypeOK, envVars
<1>. QED  BY <1>1, <1>2 DEF Informers

LEMMA WorkType ==
  ASSUME TypeInv, Work
  PROVE  TypeInv'
<1>0. ASSUME UNCHANGED envVars PROVE Item' = Item
  BY <1>0, ItemKept DEF envVars
<1>1. CASE GetItem
  <2>1. FirstStep(subCache) \in Step
    BY DEF FirstStep, Step
  <2>2. worker' \in Item \cup {None}
    BY <1>1, <2>1 DEF GetItem, Item, TypeInv, TypeOK
  <2>. QED  BY <1>0, <1>1, <2>2
            DEF GetItem, TypeInv, TypeOK, apiVars, cacheVars, watchVars, envVars
<1>2. CASE InjectFinalizer
  <2>1. subCache' \in Subscription
    BY <1>2, MutateCacheType DEF InjectFinalizer
  <2>2. CASE Accepts(worker.obj)
    <3>1. [sub EXCEPT !.fin = TRUE] \in Subscription
      BY DEF TypeInv, TypeOK, Subscription
    <3>2. sub' \in Subscription /\ subWatch' \in Seq(Subscription)
      BY <1>2, <2>2, <3>1, WriteSubFacts DEF InjectFinalizer
    <3>3. FirstStep(sub') \in Step
      BY DEF FirstStep, Step
    <3>4. worker' \in Item
      BY <1>2, <2>2, <3>2, <3>3, ItemFacts DEF InjectFinalizer, GoTo, At, Item
    <3>. QED  BY <1>0, <1>2, <2>1, <2>2, <3>2, <3>4
              DEF InjectFinalizer, GoTo, KeepBases, TypeInv, TypeOK, envVars
  <2>3. CASE ~Accepts(worker.obj)
    BY <1>0, <1>2, <2>1, <2>3
    DEF InjectFinalizer, Requeue, KeepSub, KeepBases, TypeInv, TypeOK, envVars
  <2>. QED  BY <2>2, <2>3
<1>3. CASE PatchSubscriptionLabels
  <2>2. CASE Exists(sub)
    <3>1. [sub EXCEPT !.uidLabel = TRUE] \in Subscription
      BY DEF TypeInv, TypeOK, Subscription
    <3>2. sub' \in Subscription /\ subWatch' \in Seq(Subscription)
      BY <1>3, <2>2, <3>1, WriteSubFacts
      DEF PatchSubscriptionLabels, KeepSub, TypeInv, TypeOK
    <3>4. worker' \in Item
      BY <1>3, <2>2, <3>2, ItemFacts DEF PatchSubscriptionLabels, GoTo, At, Item, Step
    <3>. QED  BY <1>0, <1>3, <2>2, <3>2, <3>4
              DEF PatchSubscriptionLabels, GoTo, KeepBases, TypeInv, TypeOK, envVars, cacheVars
  <2>3. CASE ~Exists(sub)
    BY <1>0, <1>3, <2>3
    DEF PatchSubscriptionLabels, Requeue, KeepSub, KeepBases, TypeInv, TypeOK, envVars, cacheVars
  <2>. QED  BY <2>2, <2>3
<1>4. CASE HandleDeleting
  <2>1. Listed \subseteq Cluster
    BY DEF Listed
  <2>2. worker' \in Item
    BY <1>4, <2>1, ItemFacts DEF HandleDeleting, At, Item, Step
  <2>. QED  BY <1>0, <1>4, <2>2
            DEF HandleDeleting, TypeInv, TypeOK, apiVars, cacheVars, watchVars, envVars
<1>5. CASE PopulateBases
  <2>1. Listed \subseteq Cluster
    BY DEF Listed
  <2>2. worker' \in Item
    BY <1>5, <2>1, ItemFacts DEF PopulateBases, At, Item, Step
  <2>. QED  BY <1>0, <1>5, <2>2
            DEF PopulateBases, TypeInv, TypeOK, apiVars, cacheVars, watchVars, envVars
<1>6. ASSUME NEW c \in Cluster, SyncBase(c) PROVE TypeInv'
  <2>1. worker' \in Item
    BY <1>6, ItemFacts DEF SyncBase, Synced, At, Item
  <2>2. [base[c] EXCEPT !.phase = "live", !.feeds = worker.obj.feeds] \in Base
    <3>1. worker.obj.feeds \in Feeds
      BY <1>6, ItemFacts DEF SyncBase, At, Subscription
    <3>2. base[c] \in Base
      BY DEF TypeInv, TypeOK
    <3>. QED  BY <3>1, <3>2 DEF Base
  <2>3. base' \in [Cluster -> Base] /\ baseWatch' \in [Cluster -> Seq(Base)]
    BY <1>6, <2>2, WriteBaseFacts DEF SyncBase, KeepBases, TypeInv, TypeOK
  <2>. QED  BY <1>0, <1>6, <2>1, <2>3
            DEF SyncBase, KeepSub, TypeInv, TypeOK, cacheVars, envVars
<1>7. ASSUME NEW c \in Cluster, DeleteBase(c) PROVE TypeInv'
  <2>1. worker' \in Item
    BY <1>7, ItemFacts DEF DeleteBase, Dropped, At, Item
  <2>2. [base[c] EXCEPT !.phase = "deleting"] \in Base
    BY DEF TypeInv, TypeOK, Base
  <2>3. base' \in [Cluster -> Base] /\ baseWatch' \in [Cluster -> Seq(Base)]
    BY <1>7, <2>2, WriteBaseFacts DEF DeleteBase, KeepBases, TypeInv, TypeOK
  <2>. QED  BY <1>0, <1>7, <2>1, <2>3
            DEF DeleteBase, KeepSub, TypeInv, TypeOK, cacheVars, envVars
<1>8. CASE FinishItem
  <2>1. queued' \in BOOLEAN
    BY <1>8, ItemFacts DEF FinishItem, At, TypeInv, TypeOK
  <2>. QED  BY <1>0, <1>8, <2>1
            DEF FinishItem, TypeInv, TypeOK, apiVars, cacheVars, watchVars, envVars
<1>9. CASE ReleaseSub
  <2>1. [sub EXCEPT !.phase = "gone"] \in Subscription
    BY DEF TypeInv, TypeOK, Subscription
  <2>2. sub' \in Subscription /\ subWatch' \in Seq(Subscription)
    BY <1>9, <2>1, WriteSubFacts DEF ReleaseSub, KeepSub, TypeInv, TypeOK
  <2>3. worker' = None /\ queued' \in BOOLEAN
    BY <1>9 DEF ReleaseSub, Requeue, TypeInv, TypeOK
  <2>. QED  BY <1>0, <1>9, <2>2, <2>3
            DEF ReleaseSub, KeepBases, TypeInv, TypeOK, cacheVars, envVars
<1>. QED  BY <1>1, <1>2, <1>3, <1>4, <1>5, <1>6, <1>7, <1>8, <1>9 DEF Work

LEMMA FinalizedType ==
  ASSUME TypeInv, NEW c \in Cluster, BaseFinalized(c)
  PROVE  TypeInv'
<1>1. NoBase \in Base
  BY ConfigAssumption DEF NoBase, Base, Feeds
<1>2. base' \in [Cluster -> Base] /\ baseWatch' \in [Cluster -> Seq(Base)]
  BY <1>1, WriteBaseFacts DEF BaseFinalized
<1>3. Item' = Item
  BY ItemKept DEF BaseFinalized, envVars
<1>. QED  BY <1>2, <1>3 DEF BaseFinalized, KeepSub, TypeInv, TypeOK, cacheVars, envVars

(* Every step of the hub and of its environment keeps the types. *)
LEMMA TypeStep ==
  ASSUME TypeInv, [Next]_vars
  PROVE  TypeInv'
<1>1. CASE Next
  BY <1>1, EnvironmentType, InformersType, WorkType, FinalizedType DEF Next
<1>2. CASE UNCHANGED vars
  BY <1>2, ItemKept
  DEF TypeInv, TypeOK, vars, apiVars, cacheVars, watchVars, envVars
<1>. QED  BY <1>1, <1>2

(* Every reachable state of the hub's work on a Subscription is typed, for *)
(* any clusters, namespaces and events; in particular the worker only      *)
(* populates clusters whose dedicated namespace exists (populateBases).    *)
THEOREM BaseSyncTypeCorrect == Spec => []TypeOK
<1>1. Init => TypeInv
  BY TypeInit
<1>2. TypeInv /\ [Next]_vars => TypeInv'
  BY TypeStep
<1>3. TypeInv => TypeOK
  BY DEF TypeInv
<1>. QED  BY <1>1, <1>2, <1>3, PTL DEF Spec

-----------------------------------------------------------------------------
(* The versions of one object between its writer and the cache.            *)

LEMMA FeedsFacts ==
  /\ Feeds \subseteq Nat /\ 1 \in Feeds
  /\ \A f \in Feeds : f >= 1
BY ConfigAssumption DEF Feeds

LEMMA SubNumbers ==
  ASSUME NEW o \in Subscription
  PROVE  o.feeds \in Nat /\ o.hash \in Nat /\ o.feeds >= 1
<1>1. o.feeds \in Feeds /\ o.hash \in Feeds \cup {0}
  BY DEF Subscription
<1>. QED  BY <1>1, ConfigAssumption DEF Feeds

LEMMA BaseNumbers ==
  ASSUME NEW b \in Base
  PROVE  b.feeds \in Nat /\ b.rv \in Nat /\ b.feeds >= 1
BY FeedsFacts DEF Base

(* Elements of a sequence with one more, and of its tail. *)
LEMMA AppendFacts ==
  ASSUME NEW S, NEW w \in Seq(S), NEW x \in S
  PROVE  /\ Append(w, x) \in Seq(S) /\ Len(Append(w, x)) = Len(w) + 1
         /\ Len(w) \in Nat /\ DOMAIN w = 1..Len(w)
         /\ DOMAIN Append(w, x) = 1..(Len(w) + 1)
         /\ \A i \in DOMAIN w : Append(w, x)[i] = w[i] /\ w[i] \in S
         /\ Append(w, x)[Len(w) + 1] = x
OBVIOUS

LEMMA TailFacts ==
  ASSUME NEW S, NEW w \in Seq(S), w # <<>>
  PROVE  /\ Tail(w) \in Seq(S) /\ Len(w) \in Nat /\ Len(w) > 0
         /\ Len(Tail(w)) = Len(w) - 1
         /\ Head(w) = w[1] /\ 1 \in DOMAIN w /\ DOMAIN w = 1..Len(w)
         /\ DOMAIN Tail(w) = 1..(Len(w) - 1)
         /\ \A i \in DOMAIN w : w[i] \in S
         /\ \A i \in DOMAIN Tail(w) : i + 1 \in DOMAIN w /\ Tail(w)[i] = w[i + 1]
OBVIOUS

(* A write of the Subscription comes last. *)
LEMMA SubChainWrite ==
  ASSUME NEW k \in Subscription, NEW s \in Subscription, NEW t \in Subscription,
         NEW w \in Seq(Subscription), SubChain(k, w, s),
         t.hash <= t.feeds, s.feeds <= t.feeds, t.phase = "live" => s.phase = "live"
  PROVE  SubChain(k, Append(w, t), t)
<1> DEFINE v == Append(w, t)
<1>1. /\ v \in Seq(Subscription) /\ Len(v) = Len(w) + 1
      /\ Len(w) \in Nat /\ DOMAIN w = 1..Len(w) /\ DOMAIN v = 1..(Len(w) + 1)
      /\ \A i \in DOMAIN w : v[i] = w[i] /\ w[i] \in Subscription
      /\ v[Len(w) + 1] = t
  BY AppendFacts
<1> HIDE DEF v
<1>2. k.feeds \in Nat /\ s.feeds \in Nat /\ t.feeds \in Nat
      /\ \A i \in DOMAIN w : w[i].feeds \in Nat
  BY <1>1, SubNumbers
<1>3. k.feeds <= t.feeds /\ (t.phase = "live" => k.phase \in {"absent", "live"})
  BY <1>2 DEF SubChain
<1>4. ASSUME NEW i \in DOMAIN v
      PROVE  /\ v[i].hash <= v[i].feeds
             /\ k.feeds <= v[i].feeds /\ v[i].feeds <= t.feeds
             /\ t.phase = "live" => v[i].phase = "live"
             /\ \A j \in DOMAIN v : i < j => v[i].feeds <= v[j].feeds
  <2>1. CASE i = Len(w) + 1
    BY <1>1, <1>2, <1>3, <2>1
  <2>2. CASE i \in DOMAIN w
    <3>1. /\ w[i].hash <= w[i].feeds /\ k.feeds <= w[i].feeds /\ w[i].feeds <= s.feeds
          /\ s.phase = "live" => w[i].phase = "live"
          /\ \A j \in DOMAIN w : i < j => w[i].feeds <= w[j].feeds
      BY <2>2 DEF SubChain
    <3>2. v[i] = w[i] /\ w[i].feeds <= t.feeds
      BY <1>1, <1>2, <2>2, <3>1
    <3>3. ASSUME NEW j \in DOMAIN v, i < j PROVE v[i].feeds <= v[j].feeds
      <4>1. j \in DOMAIN w \/ j = Len(w) + 1
        BY <1>1
      <4>. QED  BY <1>1, <3>1, <3>2, <3>3, <4>1
    <3>. QED  BY <3>1, <3>2, <3>3
  <2>. QED  BY <1>1, <2>1, <2>2
<1>5. SubChain(k, v, t)
  BY <1>1, <1>3, <1>4 DEF SubChain
<1>. QED  BY <1>5 DEF v

(* The first version under way becomes the cached one. *)
LEMMA SubChainHead ==
  ASSUME NEW k \in Subscription, NEW s \in Subscription,
         NEW w \in Seq(Subscription), w # <<>>, SubChain(k, w, s)
  PROVE  SubChain(Head(w), Tail(w), s)
<1> DEFINE v == Tail(w)
<1>1. /\ Len(w) \in Nat /\ Len(w) > 0 /\ Len(v) = Len(w) - 1
      /\ Head(w) = w[1] /\ 1 \in DOMAIN w /\ DOMAIN w = 1..Len(w)
      /\ DOMAIN v = 1..(Len(w) - 1)
      /\ \A i \in DOMAIN v : i + 1 \in DOMAIN w /\ v[i] = w[i + 1]
  BY TailFacts
<1> HIDE DEF v
<1>2. SubChain(w[1], v, s)
  <2>1. Len(v) = 0 => w[1] = s
    BY <1>1 DEF SubChain
  <2>2. Len(v) > 0 => v[Len(v)] = s
    BY <1>1 DEF SubChain
  <2>3. ASSUME NEW i \in DOMAIN v
        PROVE  /\ v[i].hash <= v[i].feeds
               /\ w[1].feeds <= v[i].feeds /\ v[i].feeds <= s.feeds
               /\ s.phase = "live" => v[i].phase = "live"
               /\ \A j \in DOMAIN v : i < j => v[i].feeds <= v[j].feeds
    BY <1>1, <2>3 DEF SubChain
  <2>4. /\ w[1].hash <= w[1].feeds /\ w[1].feeds <= s.feeds
        /\ s.hash <= s.feeds /\ (s.phase = "live" => w[1].phase = "live")
    BY <1>1 DEF SubChain
  <2>. QED  BY <2>1, <2>2, <2>3, <2>4 DEF SubChain
<1>. QED  BY <1>1, <1>2 DEF v

(* A list replaces the cached version and everything under way. *)
LEMMA SubChainList ==
  ASSUME NEW s \in Subscription, s.hash <= s.feeds
  PROVE  SubChain(s, <<>>, s)
BY SubNumbers DEF SubChain

(* A write of the Base comes last. *)
LEMMA BaseChainWrite ==
  ASSUME NEW k \in Base, NEW b \in Base, NEW t \in Base, NEW w \in Seq(Base),
         BaseChain(k, w, b), t.rv = b.rv + 1,
         \/ Exists(b) /\ Exists(t) /\ b.feeds <= t.feeds /\ (t.phase = "deleting" => Exists(k))
         \/ ~Exists(b) /\ ~Exists(k) /\ t.phase = "live"
         \/ b.phase = "deleting" /\ ~Exists(t)
  PROVE  BaseChain(k, Append(w, t), t)
<1> DEFINE v == Append(w, t)
<1>1. /\ v \in Seq(Base) /\ Len(v) = Len(w) + 1
      /\ Len(w) \in Nat /\ DOMAIN w = 1..Len(w) /\ DOMAIN v = 1..(Len(w) + 1)
      /\ \A i \in DOMAIN w : v[i] = w[i] /\ w[i] \in Base
      /\ v[Len(w) + 1] = t
  BY AppendFacts
<1> HIDE DEF v
<1>2. /\ k.feeds \in Nat /\ b.feeds \in Nat /\ t.feeds \in Nat
      /\ k.rv \in Nat /\ b.rv \in Nat /\ t.rv \in Nat
      /\ \A i \in DOMAIN w : w[i].feeds \in Nat /\ w[i].rv \in Nat
  BY <1>1, BaseNumbers
<1>3. k.rv < t.rv /\ \A i \in DOMAIN w : w[i].rv < t.rv
  BY <1>2 DEF BaseChain
<1>4. \A i \in DOMAIN v : v[i].rv <= t.rv /\ (v[i].rv = t.rv => v[i] = t)
  BY <1>1, <1>2, <1>3
<1>5. /\ Len(v) > 0 /\ v[Len(v)] = t
      /\ k.rv <= t.rv /\ (k.rv = t.rv => k = t)
  BY <1>1, <1>2, <1>3
<1>6. CASE Exists(b) /\ Exists(t) /\ b.feeds <= t.feeds /\ (t.phase = "deleting" => Exists(k))
  <2>1. Exists(k) => k.feeds <= t.feeds /\ \A i \in DOMAIN v : Exists(v[i])
    <3>1. Exists(k) => k.feeds <= b.feeds /\ \A i \in DOMAIN w : Exists(w[i])
      BY <1>6 DEF BaseChain
    <3>2. Exists(k) => k.feeds <= t.feeds
      BY <1>2, <1>6, <3>1
    <3>3. ASSUME Exists(k), NEW i \in DOMAIN v PROVE Exists(v[i])
      <4>1. i \in DOMAIN w \/ i = Len(w) + 1
        BY <1>1
      <4>. QED  BY <1>1, <1>6, <3>1, <3>3, <4>1
    <3>. QED  BY <3>2, <3>3
  <2>2. ASSUME NEW i \in DOMAIN v, Exists(v[i])
        PROVE  v[i].feeds <= t.feeds /\ \A j \in DOMAIN v : i < j => Exists(v[j])
    <3>1. CASE i = Len(w) + 1
      BY <1>1, <1>2, <3>1
    <3>2. CASE i \in DOMAIN w
      <4>1. w[i].feeds <= b.feeds /\ \A j \in DOMAIN w : i < j => Exists(w[j])
        BY <1>1, <1>6, <2>2, <3>2 DEF BaseChain
      <4>2. v[i].feeds <= t.feeds
        BY <1>1, <1>2, <1>6, <3>2, <4>1
      <4>3. ASSUME NEW j \in DOMAIN v, i < j PROVE Exists(v[j])
        <5>1. j \in DOMAIN w \/ j = Len(w) + 1
          BY <1>1
        <5>. QED  BY <1>1, <1>6, <4>1, <4>3, <5>1
      <4>. QED  BY <4>2, <4>3
    <3>. QED  BY <1>1, <3>1, <3>2
  <2>3. BaseChain(k, v, t)
    BY <1>4, <1>5, <1>6, <2>1, <2>2 DEF BaseChain
  <2>. QED  BY <2>3 DEF v
<1>7. CASE ~Exists(b) /\ ~Exists(k) /\ t.phase = "live"
  <2>1. \A i \in DOMAIN w : ~Exists(w[i])
    BY <1>7 DEF BaseChain
  <2>2. ASSUME NEW i \in DOMAIN v, Exists(v[i])
        PROVE  v[i].feeds <= t.feeds /\ \A j \in DOMAIN v : i < j => Exists(v[j])
    <3>1. i = Len(w) + 1
      BY <1>1, <2>1, <2>2
    <3>. QED  BY <1>1, <1>2, <3>1
  <2>3. BaseChain(k, v, t)
    BY <1>4, <1>5, <1>7, <2>2 DEF BaseChain, Exists
  <2>. QED  BY <2>3 DEF v
<1>8. CASE b.phase = "deleting" /\ ~Exists(t)
  <2>1. Exists(k) /\ \A i \in DOMAIN w : Exists(w[i])
    BY <1>8 DEF BaseChain, Exists
  <2>2. ASSUME NEW i \in DOMAIN v, NEW j \in DOMAIN v, i < j, ~Exists(v[i])
        PROVE  ~Exists(v[j])
    <3>1. i = Len(w) + 1
      BY <1>1, <2>1, <2>2
    <3>. QED  BY <1>1, <2>2, <3>1
  <2>3. BaseChain(k, v, t)
    BY <1>4, <1>5, <1>8, <2>1, <2>2 DEF BaseChain, Exists
  <2>. QED  BY <2>3 DEF v
<1>. QED  BY <1>6, <1>7, <1>8

(* The first version under way becomes the cached one. *)
LEMMA BaseChainHead ==
  ASSUME NEW k \in Base, NEW b \in Base, NEW w \in Seq(Base), w # <<>>, BaseChain(k, w, b)
  PROVE  BaseChain(Head(w), Tail(w), b)
<1> DEFINE v == Tail(w)
<1>1. /\ Len(w) \in Nat /\ Len(w) > 0 /\ Len(v) = Len(w) - 1
      /\ Head(w) = w[1] /\ 1 \in DOMAIN w /\ DOMAIN w = 1..Len(w)
      /\ DOMAIN v = 1..(Len(w) - 1)
      /\ \A i \in DOMAIN v : i + 1 \in DOMAIN w /\ v[i] = w[i + 1]
  BY TailFacts
<1> HIDE DEF v
<1>2. BaseChain(w[1], v, b)
  <2>1. (Len(v) = 0 => w[1] = b) /\ (Len(v) > 0 => v[Len(v)] = b)
    BY <1>1 DEF BaseChain
  <2>2. /\ w[1].rv <= b.rv /\ (w[1].rv = b.rv => w[1] = b)
        /\ \A i \in DOMAIN v : v[i].rv <= b.rv /\ (v[i].rv = b.rv => v[i] = b)
    BY <1>1 DEF BaseChain
  <2>3. b.phase = "deleting" => Exists(w[1])
    BY <1>1 DEF BaseChain, Exists
  <2>4. ASSUME Exists(b)
        PROVE  /\ Exists(w[1]) => w[1].feeds <= b.feeds /\ \A i \in DOMAIN v : Exists(v[i])
               /\ \A i \in DOMAIN v : Exists(v[i]) =>
                    v[i].feeds <= b.feeds /\ \A j \in DOMAIN v : i < j => Exists(v[j])
    <3>1. \A i \in DOMAIN w : Exists(w[i]) =>
            w[i].feeds <= b.feeds /\ \A j \in DOMAIN w : i < j => Exists(w[j])
      BY <2>4 DEF BaseChain
    <3>. QED  BY <1>1, <3>1
  <2>5. ASSUME ~Exists(b)
        PROVE  /\ ~Exists(w[1]) => \A i \in DOMAIN v : ~Exists(v[i])
               /\ \A i, j \in DOMAIN v : i < j /\ ~Exists(v[i]) => ~Exists(v[j])
    <3>1. \A i, j \in DOMAIN w : i < j /\ ~Exists(w[i]) => ~Exists(w[j])
      BY <2>5 DEF BaseChain
    <3>. QED  BY <1>1, <3>1
  <2>. QED  BY <2>1, <2>2, <2>3, <2>4, <2>5 DEF BaseChain
<1>. QED  BY <1>1, <1>2 DEF v

(* A list replaces the cached version and everything under way. *)
LEMMA BaseChainList ==
  ASSUME NEW b \in Base
  PROVE  BaseChain(b, <<>>, b)
BY BaseNumbers DEF BaseChain, Exists

-----------------------------------------------------------------------------
(* Facts about steps, used by every action below.                          *)

(* What a step that leaves the scenario or spends an event keeps. *)
SameScenario == /\ scenario'.namespaces = scenario.namespaces
                /\ scenario'.adopted = scenario.adopted
                /\ scenario'.kinds = scenario.kinds

LEMMA ScenarioKept ==
  ASSUME TypeInv, UNCHANGED scenario \/ \E kind : Event(kind)
  PROVE  SameScenario
BY EventFacts DEF SameScenario

(* Whatever was due stays due when nothing is taken from the queue. *)
LEMMA DueKept ==
  ASSUME TypeInv, TypeInv', SameScenario, queued => queued',
         SameKey(subCache', subCache),
         subWatch' = subWatch \/ subWatch' = Append(subWatch, sub'), Due
  PROVE  Due'
<1>1. CASE queued
  BY <1>1 DEF Due
<1>2. ASSUME ~scenario.adopted, NEW i \in DOMAIN subWatch, ~SameKey(subWatch[i], subCache)
      PROVE  Due'
  <2>1. i \in DOMAIN subWatch' /\ subWatch'[i] = subWatch[i]
    BY <1>2, AppendFacts DEF TypeInv, TypeOK
  <2>. QED  BY <1>2, <2>1 DEF Due, SameKey, SameScenario
<1>. QED  BY <1>1, <1>2 DEF Due

(* To keep PendInv it is enough to look at the clusters one by one. *)
LEMMA PendKept ==
  ASSUME PendInv, SameScenario, sub'.phase = "live" => sub.phase = "live",
         SameKey(subCache', subCache), subCache'.phase = subCache.phase,
         TypeInv, Due => Due',
         \A c \in Cluster : sub'.phase = "live" /\ subCache.phase = "live" /\
                            c \in subCache.binding \cap Namespace /\ (Doing(c) \/ Done(c))
                              => Due' \/ Doing(c)' \/ Done(c)'
  PROVE  PendInv'
<1>1. SUFFICES ASSUME sub'.phase = "live", subCache'.phase = "live",
                      NEW c \in subCache'.binding \cap Namespace'
               PROVE  Due' \/ Doing(c)' \/ Done(c)'
  BY DEF PendInv
<1>2. c \in subCache.binding \cap Namespace /\ c \in Cluster
  BY <1>1 DEF SameKey, SameScenario, Namespace, TypeInv, ScenarioType
<1>3. Due \/ Doing(c) \/ Done(c)
  BY <1>1, <1>2 DEF PendInv
<1>. QED  BY <1>1, <1>2, <1>3

(* Steps that leave a component alone keep its invariant. *)
LEMMA BaseInvKept ==
  ASSUME BaseInv, UNCHANGED <<base, baseWatch, baseCache>>
  PROVE  BaseInv'
BY DEF BaseInv

LEMMA SubInvKept ==
  ASSUME SubInv, UNCHANGED <<sub, subWatch, subCache>>
  PROVE  SubInv'
BY DEF SubInv

(* Versions of the Subscription and of the Bases, from the invariant. *)
LEMMA SubFacts ==
  ASSUME TypeInv, SubInv
  PROVE  /\ sub \in Subscription /\ subCache \in Subscription
         /\ subWatch \in Seq(Subscription)
         /\ subCache.feeds <= sub.feeds /\ sub.hash <= sub.feeds
         /\ subCache.hash <= subCache.feeds
         /\ sub.phase = "live" => subCache.phase \in {"absent", "live"}
         /\ \A i \in DOMAIN subWatch : subCache.feeds <= subWatch[i].feeds
         /\ subWatch = <<>> => SameKey(subCache, sub)
         /\ subWatch # <<>> => Len(subWatch) \in DOMAIN subWatch /\ subWatch[Len(subWatch)] = sub
<1>1. sub \in Subscription /\ subCache \in Subscription /\ subWatch \in Seq(Subscription)
  BY DEF TypeInv, TypeOK
<1>2. /\ subWatch = <<>> => Len(subWatch) = 0
      /\ subWatch # <<>> => Len(subWatch) > 0 /\ Len(subWatch) \in DOMAIN subWatch
  BY <1>1
<1>. QED  BY <1>1, <1>2 DEF SubInv, SubChain, SameKey

LEMMA BaseFacts ==
  ASSUME TypeInv, BaseInv, NEW c \in Cluster
  PROVE  /\ base[c] \in Base /\ baseCache[c] \in Base /\ baseWatch[c] \in Seq(Base)
         /\ BaseChain(baseCache[c], baseWatch[c], base[c])
         /\ base[c].phase = "deleting" => Exists(baseCache[c])
         /\ baseWatch[c] = <<>> => baseCache[c] = base[c]
         /\ baseCache[c].rv = base[c].rv => baseCache[c] = base[c]
         /\ Exists(baseCache[c]) /\ Exists(base[c]) => baseCache[c].feeds <= base[c].feeds
<1>1. base[c] \in Base /\ baseCache[c] \in Base /\ baseWatch[c] \in Seq(Base)
  BY DEF TypeInv, TypeOK
<1>2. BaseChain(baseCache[c], baseWatch[c], base[c])
  BY DEF BaseInv
<1>3. baseWatch[c] = <<>> => Len(baseWatch[c]) = 0
  BY <1>1
<1>. QED  BY <1>1, <1>2, <1>3 DEF BaseChain

(* A write of one Base that its chain admits keeps all chains. *)
LEMMA BaseWritten ==
  ASSUME TypeInv, TypeInv', BaseInv, UNCHANGED baseCache, NEW c \in Cluster,
         NEW o \in Base, WriteBase(c, o),
         \/ Exists(base[c]) /\ Exists(o) /\ base[c].feeds <= o.feeds
            /\ (o.phase = "deleting" => Exists(baseCache[c]))
         \/ ~Exists(base[c]) /\ ~Exists(baseCache[c]) /\ o.phase = "live"
         \/ base[c].phase = "deleting" /\ ~Exists(o)
  PROVE  BaseInv'
<1>1. SUFFICES ASSUME NEW d \in Cluster
               PROVE  BaseChain(baseCache[d], baseWatch'[d], base'[d])
  BY DEF BaseInv
<1>2. CASE d # c
  BY <1>2, WriteBaseFacts, BaseFacts
<1>3. CASE d = c
  <2>1. base[c] \in Base /\ baseCache[c] \in Base /\ baseWatch[c] \in Seq(Base)
        /\ BaseChain(baseCache[c], baseWatch[c], base[c])
    BY BaseFacts
  <2>2. base'[c] \in Base /\ base'[c].rv = base[c].rv + 1
        /\ base'[c].phase = o.phase /\ base'[c].feeds = o.feeds
        /\ baseWatch'[c] = Append(baseWatch[c], base'[c])
    BY WriteBaseFacts
  <2>3. Exists(base'[c]) <=> Exists(o)
    BY <2>2 DEF Exists
  <2>4. BaseChain(baseCache[c], Append(baseWatch[c], base'[c]), base'[c])
    BY <2>1, <2>2, <2>3, BaseChainWrite
  <2>. QED  BY <1>3, <2>2, <2>4
<1>. QED  BY <1>2, <1>3

(* A write of the Subscription that its chain admits keeps it. *)
LEMMA SubWritten ==
  ASSUME TypeInv, SubInv, NEW o \in Subscription, WriteSub(o),
         SameKey(subCache', subCache), subCache'.feeds = subCache.feeds,
         subCache'.phase = subCache.phase, subCache' \in Subscription,
         o.hash <= o.feeds, sub.feeds <= o.feeds, o.phase = "live" => sub.phase = "live"
  PROVE  SubInv'
<1>1. SubChain(subCache', subWatch, sub)
  BY DEF SubInv, SubChain, SameKey
<1>2. sub' \in Subscription /\ subWatch' = Append(subWatch, sub')
      /\ sub'.phase = o.phase /\ sub'.feeds = o.feeds /\ sub'.hash = o.hash
  BY WriteSubFacts
<1>3. SubChain(subCache', Append(subWatch, sub'), sub')
  BY <1>1, <1>2, SubFacts, SubChainWrite
<1>. QED  BY <1>2, <1>3 DEF SubInv

-----------------------------------------------------------------------------
(* The actions, one by one.                                                *)

LEMMA InvInit ==
  ASSUME Init, \A s \in Scenario : Orderly(s)
  PROVE  IInv
<1>1. TypeInv
  BY TypeInit
<1>2. /\ sub.feeds = 1 /\ sub.hash = 0 /\ sub.phase = "live" /\ subCache.feeds = 1
      /\ subCache.hash = 0 /\ subCache.phase = "absent" /\ subWatch = <<sub>>
      /\ sub.fin = scenario.adopted /\ subCache.fin = scenario.adopted
      /\ sub.uidLabel = scenario.adopted /\ subCache.uidLabel = scenario.adopted
  BY DEF Init, NewSub
<1>3. Len(subWatch) = 1 /\ DOMAIN subWatch = {1} /\ subWatch[1] = sub
  BY <1>2
<1>4. SubInv
  BY <1>2, <1>3 DEF SubInv, SubChain
<1>5. BaseInv
  <2>1. \A c \in Cluster : base[c] \in Base /\ baseCache[c] = base[c] /\ baseWatch[c] = <<>>
    BY <1>1 DEF Init, TypeInv, TypeOK
  <2>. QED  BY <2>1, BaseChainList DEF BaseInv
<1>6. AdoptInv
  BY <1>2, <1>3 DEF Init, AdoptInv, Adopted
<1>7. FeedInv
  BY <1>2 DEF Init, FeedInv, NoBase
<1>8. WorkInv /\ PendInv
  BY <1>2 DEF Init, WorkInv, PendInv
<1>. QED  BY <1>1, <1>4, <1>5, <1>6, <1>7, <1>8 DEF IInv

(* Users and the scheduler write the Subscription. *)
LEMMA SubEvent ==
  ASSUME IInv, TypeInv', SameScenario, NEW o \in Subscription, WriteSub(o),
         UNCHANGED <<base, baseWatch, subCache, baseCache, queued, worker>>,
         o.hash <= o.feeds, sub.feeds <= o.feeds, o.feeds <= newest',
         o.phase = "live" => sub.phase = "live",
         scenario.adopted => (Adopted(sub) => Adopted(o)),
         ~scenario.adopted => o.feeds = sub.feeds
  PROVE  IInv'
<1>1. /\ sub' \in Subscription /\ subWatch' = Append(subWatch, sub')
      /\ sub'.phase = o.phase /\ sub'.feeds = o.feeds
      /\ sub'.fin = o.fin /\ sub'.uidLabel = o.uidLabel
  BY WriteSubFacts DEF IInv
<1>2. SubInv'
  BY SubWritten DEF IInv, SameKey, TypeInv, TypeOK
<1>3. BaseInv'
  BY BaseInvKept DEF IInv
<1>4. AdoptInv'
  <2>1. ASSUME scenario.adopted, NEW i \in DOMAIN subWatch' PROVE Adopted(subWatch'[i])
    <3>1. (i \in DOMAIN subWatch /\ subWatch'[i] = subWatch[i]) \/ subWatch'[i] = sub'
      <4>1. subWatch \in Seq(Subscription)
        BY DEF IInv, TypeInv, TypeOK
      <4>. QED  BY <1>1, <4>1, AppendFacts
    <3>. QED  BY <1>1, <2>1, <3>1 DEF IInv, AdoptInv, Adopted
  <2>. QED  BY <1>1, <2>1 DEF IInv, AdoptInv, Adopted, Orderly, SameScenario
<1>5. FeedInv'
  BY <1>1 DEF IInv, FeedInv
<1>6. Due => Due'
  BY <1>1, DueKept DEF IInv, SameKey
<1>7. WorkInv'
  BY <1>6 DEF IInv, WorkInv, SameKey
<1>8. PendInv'
  BY <1>1, <1>6, PendKept DEF IInv, SameKey, Doing, Done, Dying
<1>. QED  BY <1>2, <1>3, <1>4, <1>5, <1>7, <1>8 DEF IInv

(* A user edits the feeds; without "revert" they only grow. *)
LEMMA EditFeedsInv ==
  ASSUME IInv, TypeInv', NEW f \in Feeds, EditFeeds(f)
  PROVE  IInv'
<1>1. SameScenario /\ (IF f > newest THEN "edit" ELSE "revert") \in scenario.kinds
  BY EventFacts DEF EditFeeds, IInv, SameScenario
<1>2. f > newest /\ scenario.adopted
  BY <1>1 DEF IInv, AdoptInv, Orderly
<1> DEFINE o == [sub EXCEPT !.feeds = f]
<1>3. sub \in Subscription /\ sub.feeds \in Nat /\ f \in Nat /\ newest \in Nat
      /\ sub.hash \in Nat /\ sub.hash <= sub.feeds
  BY SubFacts, SubNumbers, FeedsFacts DEF IInv, TypeInv, TypeOK
<1>4. /\ o \in Subscription /\ o.feeds = f /\ o.hash = sub.hash /\ o.phase = sub.phase
      /\ o.fin = sub.fin /\ o.uidLabel = sub.uidLabel
  BY <1>3 DEF Subscription
<1>5. sub.feeds <= newest
  BY DEF IInv, FeedInv
<1>6. WriteSub(o) /\ newest' = f
      /\ UNCHANGED <<base, baseWatch, subCache, baseCache, queued, worker>>
  BY <1>2 DEF EditFeeds, KeepBases, cacheVars
<1> HIDE DEF o
<1>. QED  BY <1>1, <1>2, <1>3, <1>4, <1>5, <1>6, SubEvent DEF Adopted

(* The scheduler binds the Subscription and stores the hash of its feeds. *)
LEMMA BindClustersInv ==
  ASSUME IInv, TypeInv', NEW cs \in SUBSET Cluster, BindClusters(cs)
  PROVE  IInv'
<1>1. SameScenario
  BY EventFacts DEF BindClusters, IInv, SameScenario
<1> DEFINE o == [sub EXCEPT !.binding = cs, !.hash = sub.feeds]
<1>3. sub \in Subscription /\ sub.feeds \in Nat /\ newest \in Nat /\ sub.feeds <= newest
  BY SubFacts, SubNumbers, FeedsFacts DEF IInv, TypeInv, TypeOK, FeedInv
<1>4. /\ o \in Subscription /\ o.feeds = sub.feeds /\ o.hash = sub.feeds /\ o.phase = sub.phase
      /\ o.fin = sub.fin /\ o.uidLabel = sub.uidLabel
  BY <1>3 DEF Subscription
<1>6. WriteSub(o) /\ newest' = newest
      /\ UNCHANGED <<base, baseWatch, subCache, baseCache, queued, worker>>
  BY DEF BindClusters, KeepBases, cacheVars
<1> HIDE DEF o
<1>. QED  BY <1>1, <1>3, <1>4, <1>6, SubEvent DEF Adopted

(* A user deletes the Subscription, or changes something else about it. *)
LEMMA DeleteSubInv ==
  ASSUME IInv, TypeInv', DeleteSub
  PROVE  IInv'
<1>1. SameScenario
  BY EventFacts DEF DeleteSub, IInv, SameScenario
<1> DEFINE o == [sub EXCEPT !.phase = IF sub.fin THEN "deleting" ELSE "gone"]
<1>3. sub \in Subscription /\ sub.feeds \in Nat /\ newest \in Nat /\ sub.feeds <= newest
      /\ sub.hash <= sub.feeds
  BY SubFacts, SubNumbers, FeedsFacts DEF IInv, TypeInv, TypeOK, FeedInv
<1>4. /\ o \in Subscription /\ o.feeds = sub.feeds /\ o.hash = sub.hash /\ o.phase # "live"
      /\ o.fin = sub.fin /\ o.uidLabel = sub.uidLabel
  BY <1>3 DEF Subscription
<1>6. WriteSub(o) /\ newest' = newest
      /\ UNCHANGED <<base, baseWatch, subCache, baseCache, queued, worker>>
  BY DEF DeleteSub, KeepBases, cacheVars
<1> HIDE DEF o
<1>. QED  BY <1>1, <1>3, <1>4, <1>6, SubEvent DEF Adopted

LEMMA TouchSubInv ==
  ASSUME IInv, TypeInv', TouchSub
  PROVE  IInv'
<1>1. SameScenario
  BY EventFacts DEF TouchSub, IInv, SameScenario
<1>3. sub \in Subscription /\ sub.feeds \in Nat /\ newest \in Nat /\ sub.feeds <= newest
      /\ sub.hash <= sub.feeds
  BY SubFacts, SubNumbers, FeedsFacts DEF IInv, TypeInv, TypeOK, FeedInv
<1>6. WriteSub(sub) /\ newest' = newest
      /\ UNCHANGED <<base, baseWatch, subCache, baseCache, queued, worker>>
  BY DEF TouchSub, KeepBases, cacheVars
<1>. QED  BY <1>1, <1>3, <1>6, SubEvent DEF Adopted

(* Steps of the base controller: they change one Base, which goes on       *)
(* existing with its feeds, or has been deleting and goes.                 *)
LEMMA BaseEvent ==
  ASSUME IInv, TypeInv', SameScenario, NEW c \in Cluster, NEW o \in Base, WriteBase(c, o),
         UNCHANGED <<sub, subWatch, subCache, baseCache, queued, worker, newest>>,
         \/ Exists(base[c]) /\ o.phase = base[c].phase /\ o.feeds = base[c].feeds
         \/ base[c].phase = "deleting" /\ ~Exists(o) /\ o.feeds = 1
  PROVE  IInv'
<1>1. /\ base'[c].phase = o.phase /\ base'[c].feeds = o.feeds
      /\ \A d \in Cluster : d # c => base'[d] = base[d]
      /\ base[c] \in Base /\ base[c].feeds \in Nat /\ base[c].feeds >= 1
      /\ base[c].phase = "deleting" => Exists(baseCache[c])
  BY WriteBaseFacts, BaseFacts, BaseNumbers DEF IInv
<1>2. BaseInv'
  <2>1. base[c].feeds <= base[c].feeds /\ (Exists(o) <=> o.phase \in {"live", "deleting"})
    BY <1>1 DEF Exists
  <2>. QED  BY <1>1, <2>1, BaseWritten DEF IInv, Exists
<1>3. SubInv'
  BY SubInvKept DEF IInv
<1>4. AdoptInv'
  BY DEF IInv, AdoptInv, Orderly, SameScenario
<1>5. \A d \in Cluster : base'[d].feeds = base[d].feeds \/ base'[d].feeds = 1
  BY <1>1
<1>6. subCache.feeds >= 1 /\ (worker # None => worker.obj.feeds >= 1)
  BY SubFacts, SubNumbers, ItemFacts DEF IInv
<1>7. FeedInv'
  BY <1>5, <1>6 DEF IInv, FeedInv
<1>8. Due => Due'
  BY DueKept DEF IInv, SameKey
<1>9. WorkInv'
  BY <1>8 DEF IInv, WorkInv
<1>10. \A d \in Cluster : Done(d) => Done(d)'
  BY <1>1 DEF Done, Dying, Exists
<1>11. PendInv'
  BY <1>8, <1>10, PendKept DEF IInv, SameKey, Doing
<1>. QED  BY <1>2, <1>3, <1>4, <1>7, <1>9, <1>11 DEF IInv

LEMMA TouchBaseInv ==
  ASSUME IInv, TypeInv', NEW c \in Cluster, TouchBase(c)
  PROVE  IInv'
<1>1. SameScenario
  BY EventFacts DEF TouchBase, IInv, SameScenario
<1>2. base[c] \in Base /\ Exists(base[c])
  BY BaseFacts DEF IInv, TouchBase, Base, Exists
<1>. QED  BY <1>1, <1>2, BaseEvent DEF TouchBase, KeepSub, cacheVars

LEMMA FinalizedInv ==
  ASSUME IInv, TypeInv', NEW c \in Cluster, BaseFinalized(c)
  PROVE  IInv'
<1>1. SameScenario /\ newest' = newest
  BY ScenarioKept DEF BaseFinalized, IInv, envVars
<1>2. NoBase \in Base /\ ~Exists(NoBase) /\ NoBase.feeds = 1
  BY ConfigAssumption DEF NoBase, Base, Feeds, Exists
<1>. QED  BY <1>1, <1>2, BaseEvent DEF BaseFinalized, KeepSub, cacheVars

(* A version of the Subscription reaches the cache. *)
LEMMA DeliverSubInv ==
  ASSUME IInv, TypeInv', SameScenario, newest' = newest,
         NEW o \in Subscription, NEW w \in Seq(Subscription), DeliverSub(o, w),
         subWatch # <<>>,
         \/ o = Head(subWatch) /\ w = Tail(subWatch)
         \/ o = sub /\ w = <<>> /\ scenario.adopted
  PROVE  IInv'
<1>1. /\ subCache' = o /\ subWatch' = w
      /\ UNCHANGED <<sub, base, baseCache, baseWatch, worker>>
      /\ queued' = (queued \/ SubEventEnqueues(subCache, o))
  BY DEF DeliverSub, apiVars
<1>2. SubInv'
  <2>1. sub.hash <= sub.feeds
    BY SubFacts DEF IInv
  <2>2. SubChain(o, w, sub)
    BY <2>1, SubChainHead, SubChainList, SubFacts DEF IInv, SubInv
  <2>. QED  BY <1>1, <2>2 DEF SubInv
<1>3. BaseInv'
  BY <1>1, BaseInvKept DEF IInv
<1>4. /\ subWatch \in Seq(Subscription)
      /\ Head(subWatch) = subWatch[1] /\ 1 \in DOMAIN subWatch
      /\ \A i \in DOMAIN Tail(subWatch) :
           i + 1 \in DOMAIN subWatch /\ Tail(subWatch)[i] = subWatch[i + 1]
      /\ DOMAIN subWatch = 1..Len(subWatch)
      /\ DOMAIN Tail(subWatch) = 1..(Len(subWatch) - 1) /\ Len(subWatch) \in Nat
  BY SubFacts, TailFacts DEF IInv
<1>5. AdoptInv'
  <2>1. scenario.adopted => Adopted(o) /\ \A i \in DOMAIN w : Adopted(w[i])
    BY <1>4 DEF IInv, AdoptInv
  <2>. QED  BY <1>1, <2>1 DEF IInv, AdoptInv, Orderly, SameScenario
<1>6. subCache.feeds <= o.feeds
  BY <1>4, SubFacts DEF IInv
<1>7. FeedInv'
  <2>1. subCache.feeds \in Nat /\ o.feeds \in Nat
    BY SubFacts, SubNumbers DEF IInv
  <2>2. \A c \in Cluster : base[c].feeds \in Nat
    BY BaseFacts, BaseNumbers DEF IInv
  <2>3. worker # None => worker.obj.feeds \in Nat
    BY ItemFacts, SubNumbers DEF IInv
  <2>. QED  BY <1>1, <1>6, <2>1, <2>2, <2>3 DEF IInv, FeedInv
<1>8. ASSUME ~queued' PROVE Exists(subCache) /\ SameKey(o, subCache) /\ o.phase = "live"
  BY <1>1, <1>8 DEF SubEventEnqueues, SameKey
<1>9. Due => Due'
  <2>1. SUFFICES ASSUME ~queued', ~scenario.adopted,
                        NEW i \in DOMAIN subWatch, ~SameKey(subWatch[i], subCache)
                 PROVE  Due'
    BY <1>1 DEF Due
  <2>2. o = subWatch[1] /\ w = Tail(subWatch) /\ i # 1
    BY <1>4, <1>8, <2>1
  <2>3. i - 1 \in DOMAIN w /\ w[i - 1] = subWatch[i]
    BY <1>4, <2>2
  <2>4. ~SameKey(subWatch'[i - 1], subCache')
    BY <1>1, <1>8, <2>1, <2>3 DEF SameKey
  <2>. QED  BY <1>1, <2>1, <2>3, <2>4 DEF Due, SameScenario
<1>10. WorkInv'
  <2>1. SUFFICES ASSUME worker # None, ~Due' PROVE SameKey(worker.obj, o)
    BY <1>1 DEF WorkInv
  <2>2. ~queued' /\ ~Due
    BY <1>9, <2>1 DEF Due
  <2>. QED  BY <1>8, <2>1, <2>2 DEF IInv, WorkInv, SameKey
<1>11. PendInv'
  <2>1. SUFFICES ASSUME sub.phase = "live", o.phase = "live", ~Due'
                 PROVE  PendInv'
    BY <1>1 DEF PendInv
  <2>2. ~queued' /\ ~Due
    BY <1>9, <2>1 DEF Due
  <2>3. SameKey(o, subCache) /\ subCache.phase = "live"
    <3>1. subCache.phase \in {"absent", "live"}
      BY <2>1, SubFacts DEF IInv
    <3>. QED  BY <1>8, <2>2, <3>1 DEF Exists
  <2>4. \A c \in Cluster : (Doing(c) => Doing(c)') /\ (Done(c) => Done(c)')
    BY <1>1, <2>3 DEF Doing, Done, Dying, SameKey
  <2>. QED  BY <1>1, <1>9, <2>1, <2>3, <2>4, PendKept DEF IInv
<1>. QED  BY <1>2, <1>3, <1>5, <1>7, <1>10, <1>11 DEF IInv

(* A version of a Base reaches the cache. *)
LEMMA DeliverBaseInv ==
  ASSUME IInv, TypeInv', SameScenario, newest' = newest, NEW c \in Cluster,
         NEW o \in Base, NEW w \in Seq(Base), DeliverBase(c, o, w), baseWatch[c] # <<>>,
         \/ o = Head(baseWatch[c]) /\ w = Tail(baseWatch[c])
         \/ o = base[c] /\ w = <<>>
  PROVE  IInv'
<1>1. /\ UNCHANGED <<sub, base, subCache, subWatch, worker>>
      /\ queued' = (queued \/ BaseEventEnqueues(baseCache[c], o))
      /\ baseCache'[c] = o /\ baseWatch'[c] = w
      /\ \A d \in Cluster : d # c => baseCache'[d] = baseCache[d] /\ baseWatch'[d] = baseWatch[d]
  BY DEF DeliverBase, apiVars, IInv, TypeInv, TypeOK
<1>2. BaseInv'
  <2>1. BaseChain(o, w, base[c])
    BY BaseFacts, BaseChainHead, BaseChainList DEF IInv
  <2>2. \A d \in Cluster : BaseChain(baseCache'[d], baseWatch'[d], base'[d])
    BY <1>1, <2>1, BaseFacts DEF IInv
  <2>. QED  BY <2>2 DEF BaseInv
<1>3. SubInv'
  BY <1>1, SubInvKept DEF IInv
<1>4. AdoptInv' /\ FeedInv'
  BY <1>1 DEF IInv, AdoptInv, Orderly, SameScenario, FeedInv
<1>5. Due => Due'
  BY <1>1, DueKept DEF IInv, SameKey
<1>6. WorkInv'
  BY <1>1, <1>5 DEF IInv, WorkInv
<1>7. ASSUME NEW d \in Cluster, Done(d), subCache.phase = "live" PROVE Due' \/ Done(d)'
  <2>1. CASE base[d].phase = "live" \/ base[d].phase = "deleting"
    BY <1>1, <1>7, <2>1 DEF Done, Dying, Exists
  <2>2. CASE Exists(baseCache[d]) /\ ~Exists(base[d])
    <3>1. CASE d = c /\ ~Exists(o)
      BY <1>1, <1>7, <2>2, <3>1 DEF BaseEventEnqueues, Exists, Due
    <3>2. CASE d # c \/ Exists(o)
      BY <1>1, <2>2, <3>2 DEF Done, Dying
    <3>. QED  BY <3>1, <3>2
  <2>. QED  BY <1>7, <2>1, <2>2 DEF Done, Dying
<1>8. PendInv'
  BY <1>1, <1>5, <1>7, PendKept DEF IInv, SameKey, Doing
<1>. QED  BY <1>2, <1>3, <1>4, <1>6, <1>8 DEF IInv

LEMMA InformersInv ==
  ASSUME IInv, TypeInv', Informers
  PROVE  IInv'
<1>1. CASE SyncSub
  <2>1. SameScenario /\ newest' = newest
    BY <1>1, ScenarioKept DEF SyncSub, IInv, envVars
  <2>2. Head(subWatch) \in Subscription /\ Tail(subWatch) \in Seq(Subscription)
    BY <1>1, SubFacts DEF SyncSub, IInv
  <2>. QED  BY <1>1, <2>1, <2>2, DeliverSubInv DEF SyncSub
<1>2. ASSUME NEW c \in Cluster, SyncBases(c) PROVE IInv'
  <2>1. SameScenario /\ newest' = newest
    BY <1>2, ScenarioKept DEF SyncBases, IInv, envVars
  <2>2. Head(baseWatch[c]) \in Base /\ Tail(baseWatch[c]) \in Seq(Base)
    BY <1>2, BaseFacts DEF SyncBases, IInv
  <2>. QED  BY <1>2, <2>1, <2>2, DeliverBaseInv DEF SyncBases
<1>. QED  BY <1>1, <1>2 DEF Informers

(* A watch breaks, which the theorem admits for adopted Subscriptions. *)
LEMMA RelistInv ==
  ASSUME IInv, TypeInv', Relist
  PROVE  IInv'
<1>1. SameScenario /\ newest' = newest /\ "relist" \in scenario.kinds
  BY EventFacts DEF Relist, IInv, SameScenario
<1>2. scenario.adopted
  BY <1>1 DEF IInv, AdoptInv, Orderly
<1>3. CASE subWatch # <<>> /\ DeliverSub(sub, <<>>)
  <2>1. sub \in Subscription /\ <<>> \in Seq(Subscription)
    BY SubFacts DEF IInv
  <2>. QED  BY <1>1, <1>2, <1>3, <2>1, DeliverSubInv
<1>4. ASSUME NEW c \in Cluster, baseWatch[c] # <<>>, DeliverBase(c, base[c], <<>>) PROVE IInv'
  <2>1. base[c] \in Base /\ <<>> \in Seq(Base)
    BY BaseFacts DEF IInv
  <2>. QED  BY <1>1, <1>4, <2>1, DeliverBaseInv
<1>. QED  BY <1>3, <1>4 DEF Relist

(* Another hub takes over: everything is queued again. *)
LEMMA RestartInv ==
  ASSUME IInv, TypeInv', Restart
  PROVE  IInv'
<1>1. SameScenario
  BY EventFacts DEF Restart, IInv, SameScenario
<1>2. /\ sub' = sub /\ base' = base /\ subCache' = sub /\ baseCache' = base /\ newest' = newest
      /\ subWatch' = <<>> /\ worker' = None /\ queued' = Exists(sub)
      /\ \A c \in Cluster : baseWatch'[c] = <<>>
  BY DEF Restart, apiVars
<1>3. SubInv'
  BY <1>2, SubFacts, SubChainList DEF IInv, SubInv
<1>4. BaseInv'
  BY <1>2, BaseFacts, BaseChainList DEF IInv, BaseInv
<1>5. AdoptInv'
  BY <1>1, <1>2 DEF IInv, AdoptInv, Orderly, SameScenario
<1>6. FeedInv'
  <2>1. subCache.feeds \in Nat /\ sub.feeds \in Nat /\ subCache.feeds <= sub.feeds
    BY SubFacts, SubNumbers DEF IInv
  <2>2. \A c \in Cluster : base[c].feeds \in Nat /\ base[c].feeds <= subCache.feeds
    BY BaseFacts, BaseNumbers DEF IInv, FeedInv
  <2>. QED  BY <1>2, <2>1, <2>2 DEF IInv, FeedInv
<1>7. WorkInv' /\ PendInv'
  BY <1>2 DEF WorkInv, PendInv, Due, Exists
<1>. QED  BY <1>3, <1>4, <1>5, <1>6, <1>7 DEF IInv

(* An item is never taken for the absence of one. *)
LEMMA NotNone ==
  ASSUME TypeInv, NEW x \in Item
  PROVE  x # None
<1>1. Namespace \subseteq Cluster
  BY DEF TypeInv, ScenarioType, Namespace
<1>2. x \in [pc: Step, obj: Subscription, todo: SUBSET Cluster,
             drop: SUBSET Cluster, failed: BOOLEAN]
  BY <1>1 DEF Item
<1>. QED  BY <1>2, NoneAssumption

(* The outcome of one request of the item. *)
LEMMA SyncedFacts ==
  ASSUME TypeInv, worker # None, NEW c, NEW ok \in BOOLEAN, Synced(c, ok)
  PROVE  /\ worker' # None /\ worker'.pc = worker.pc /\ worker'.obj = worker.obj
         /\ worker'.todo = worker.todo \ {c} /\ worker'.drop = worker.drop \ {c}
         /\ worker'.failed = (worker.failed \/ ~ok)
<1>1. worker \in Item /\ worker.todo \subseteq Namespace /\ worker.drop \subseteq Cluster
  BY ItemFacts
<1>2. worker' \in Item
  BY <1>1 DEF Synced, Item
<1>. QED  BY <1>1, <1>2, NotNone DEF Synced, Item

LEMMA DroppedFacts ==
  ASSUME TypeInv, worker # None, NEW c, NEW ok \in BOOLEAN, Dropped(c, ok)
  PROVE  /\ worker' # None /\ worker'.pc = worker.pc /\ worker'.obj = worker.obj
         /\ worker'.todo = worker.todo /\ worker'.drop = worker.drop \ {c}
         /\ worker'.failed = (worker.failed \/ ~ok)
<1>1. worker \in Item /\ worker.drop \subseteq Cluster
  BY ItemFacts
<1>2. worker' \in Item
  BY <1>1 DEF Dropped, Item
<1>. QED  BY <1>1, <1>2, NotNone DEF Dropped, Item

(* injectFinalizer changes nothing of the cached object but the finalizer. *)
SameCache == /\ SameKey(subCache', subCache) /\ subCache'.feeds = subCache.feeds
             /\ subCache'.phase = subCache.phase /\ subCache'.uidLabel = subCache.uidLabel
             /\ subCache.fin => subCache'.fin

LEMMA MutateFacts ==
  ASSUME TypeInv, MutateCache \/ UNCHANGED subCache
  PROVE  SameCache
BY DEF SameCache, SameKey, MutateCache, TypeInv, TypeOK, Subscription

(* Steps of the worker that write no object. *)
LEMMA ItemStep ==
  ASSUME IInv, TypeInv', SameScenario, SameCache, queued => queued',
         UNCHANGED <<sub, subWatch, base, baseWatch, baseCache, newest>>,
         worker' # None => /\ worker # None /\ worker'.obj = worker.obj
                           /\ worker'.pc \in {"inject", "label"} => worker'.pc = worker.pc,
         \A c \in Cluster : sub.phase = "live" /\ subCache.phase = "live" /\
                            c \in subCache.binding \cap Namespace /\ (Doing(c) \/ Done(c))
                              => Due' \/ Doing(c)' \/ Done(c)'
  PROVE  IInv'
<1>1. SubInv'
  BY DEF IInv, SubInv, SubChain, SameCache, SameKey
<1>2. BaseInv'
  BY BaseInvKept DEF IInv
<1>3. AdoptInv'
  <2>1. Orderly(scenario') /\ (~scenario'.adopted => sub'.feeds = 1)
    BY DEF IInv, AdoptInv, Orderly, SameScenario
  <2>2. scenario'.adopted => /\ Adopted(sub') /\ Adopted(subCache')
                             /\ \A i \in DOMAIN subWatch' : Adopted(subWatch'[i])
    BY DEF IInv, AdoptInv, Adopted, SameScenario, SameCache
  <2>3. scenario'.adopted /\ worker' # None => worker'.pc \notin {"inject", "label"}
    BY DEF IInv, AdoptInv, SameScenario
  <2>. QED  BY <2>1, <2>2, <2>3 DEF AdoptInv
<1>4. FeedInv'
  BY DEF IInv, FeedInv, SameCache
<1>5. Due => Due'
  BY DueKept DEF IInv, SameCache
<1>6. WorkInv'
  BY <1>5 DEF IInv, WorkInv, SameCache, SameKey
<1>7. PendInv'
  BY <1>5, PendKept DEF IInv, SameCache
<1>. QED  BY <1>1, <1>2, <1>3, <1>4, <1>6, <1>7 DEF IInv

(* The key goes back to the queue. *)
LEMMA RequeueInv ==
  ASSUME IInv, TypeInv', SameScenario, MutateCache \/ UNCHANGED subCache, Requeue,
         UNCHANGED <<sub, subWatch, base, baseWatch, baseCache, newest>>
  PROVE  IInv'
<1>1. SameCache
  BY MutateFacts DEF IInv
<1>2. worker' = None /\ queued' /\ Due'
  BY DEF Requeue, Due
<1>. QED  BY <1>1, <1>2, ItemStep

(* A request fails without effect: the item will be tried again. *)
LEMMA RequestFailsInv ==
  ASSUME IInv, TypeInv', RequestFails
  PROVE  IInv'
<1>1. SameScenario
  BY EventFacts DEF RequestFails, IInv, SameScenario
<1>2. /\ MutateCache \/ UNCHANGED subCache
      /\ UNCHANGED <<sub, subWatch, base, baseWatch, baseCache, newest>>
      /\ worker # None
  BY DEF RequestFails, apiVars, watchVars
<1>3. SameCache
  BY <1>2, MutateFacts DEF IInv
<1>4. CASE Requeue
  BY <1>1, <1>2, <1>4, RequeueInv
<1>5. ASSUME worker' # None, worker'.pc = worker.pc, worker'.obj = worker.obj, worker'.failed,
             worker'.drop \subseteq worker.drop, queued' = queued
      PROVE  IInv'
  <2>1. \A c \in Cluster : (Doing(c) => Doing(c)') /\ (Done(c) => Done(c)')
    BY <1>2, <1>3, <1>5 DEF Doing, Done, Dying, SameCache, SameKey
  <2>. QED  BY <1>1, <1>2, <1>3, <1>5, <2>1, ItemStep
<1>6. ASSUME NEW c \in worker.todo, Synced(c, FALSE), UNCHANGED queued PROVE IInv'
  <2>1. /\ worker' # None /\ worker'.pc = worker.pc /\ worker'.obj = worker.obj
        /\ worker'.drop = worker.drop \ {c} /\ worker'.failed = (worker.failed \/ ~FALSE)
    BY <1>2, <1>6, SyncedFacts DEF IInv
  <2>. QED  BY <1>5, <1>6, <2>1
<1>7. ASSUME NEW c \in worker.drop, Dropped(c, FALSE), UNCHANGED queued PROVE IInv'
  <2>1. /\ worker' # None /\ worker'.pc = worker.pc /\ worker'.obj = worker.obj
        /\ worker'.drop = worker.drop \ {c} /\ worker'.failed = (worker.failed \/ ~FALSE)
    BY <1>2, <1>7, DroppedFacts DEF IInv
  <2>. QED  BY <1>5, <1>7, <2>1
<1>. QED  BY <1>4, <1>6, <1>7 DEF RequestFails

(* The worker takes the key and reads the cached version. *)
LEMMA GetItemInv ==
  ASSUME IInv, TypeInv', GetItem
  PROVE  IInv'
<1>1. SameScenario
  BY ScenarioKept DEF GetItem, IInv, envVars
<1>2. UNCHANGED <<sub, subWatch, subCache, base, baseWatch, baseCache, newest>>
  BY DEF GetItem, apiVars, cacheVars, watchVars, envVars
<1>3. SubInv' /\ BaseInv'
  BY <1>2, SubInvKept, BaseInvKept DEF IInv
<1>4. worker' = None \/ /\ worker'.pc = FirstStep(subCache) /\ worker'.obj = subCache
  BY DEF GetItem
<1>5. Exists(subCache) => worker' # None /\ worker'.pc \in {"inject", "label", "handle"}
  <2>1. FirstStep(subCache) \in Step /\ FirstStep(subCache) \in {"inject", "label", "handle"}
    BY DEF FirstStep, Step
  <2>2. subCache \in Subscription
    BY SubFacts DEF IInv
  <2>3. Exists(subCache) => worker' \in Item
    BY <2>1, <2>2 DEF GetItem, Item
  <2>. QED  BY <1>4, <2>1, <2>3, NotNone DEF IInv
<1>6. AdoptInv'
  <2>1. Adopted(subCache) => FirstStep(subCache) \notin {"inject", "label"}
    BY DEF Adopted, FirstStep
  <2>. QED  BY <1>1, <1>2, <1>4, <2>1 DEF IInv, AdoptInv, Orderly, SameScenario
<1>7. FeedInv'
  <2>1. /\ subCache.hash <= subCache.feeds /\ subCache.feeds <= subCache.feeds
        /\ sub.phase = "live" => subCache.phase \in {"absent", "live"}
    BY SubFacts, SubNumbers DEF IInv
  <2>2. worker' # None => Exists(subCache)
    BY DEF GetItem
  <2>3. worker' # None => worker'.obj.hash <= worker'.obj.feeds /\ worker'.obj.feeds <= subCache.feeds
                          /\ (sub.phase = "live" => worker'.obj.phase = "live")
    BY <1>4, <2>1, <2>2 DEF Exists
  <2>. QED  BY <1>2, <1>4, <2>3 DEF IInv, FeedInv
<1>8. WorkInv'
  BY <1>2, <1>4 DEF WorkInv, SameKey
<1>9. PendInv'
  BY <1>2, <1>5 DEF PendInv, Doing, Exists
<1>. QED  BY <1>3, <1>6, <1>7, <1>8, <1>9 DEF IInv

(* injectFinalizer and the label patch return the current object, to which *)
(* the item goes over.                                                     *)
LEMMA AdoptStep ==
  ASSUME IInv, TypeInv', SameScenario, SameCache, worker # None,
         worker.pc \in {"inject", "label"}, UNCHANGED <<base, baseWatch, baseCache, newest, queued>>,
         worker' \in Item, worker'.obj = sub',
         worker'.pc \in {"inject", "label", "handle"},
         \/ UNCHANGED <<sub, subWatch>>
         \/ \E o \in Subscription : /\ WriteSub(o) /\ o.feeds = sub.feeds /\ o.hash = sub.hash
                                    /\ o.binding = sub.binding /\ o.phase = sub.phase
  PROVE  IInv'
<1>1. ~scenario.adopted /\ sub.feeds = 1
  BY DEF IInv, AdoptInv
<1>2. /\ sub' \in Subscription /\ sub'.feeds = sub.feeds /\ sub'.hash = sub.hash
      /\ sub'.phase = sub.phase
      /\ (subWatch' = subWatch /\ sub' = sub) \/ subWatch' = Append(subWatch, sub')
  BY SubFacts, WriteSubFacts DEF IInv
<1>3. sub.hash <= sub.feeds /\ sub.feeds <= sub.feeds /\ subCache.feeds >= 1
  BY SubFacts, SubNumbers DEF IInv
<1>4. SubInv'
  <2>1. CASE UNCHANGED <<sub, subWatch>>
    BY <2>1 DEF IInv, SubInv, SubChain, SameCache, SameKey
  <2>2. ASSUME NEW o \in Subscription, WriteSub(o), o.feeds = sub.feeds, o.hash = sub.hash,
               o.phase = sub.phase
        PROVE  SubInv'
    BY <1>3, <2>2, SubWritten DEF IInv, SameCache, TypeInv, TypeOK
  <2>. QED  BY <2>1, <2>2
<1>5. BaseInv'
  BY BaseInvKept DEF IInv
<1>6. AdoptInv'
  BY <1>1, <1>2 DEF IInv, AdoptInv, Orderly, SameScenario
<1>7. worker' # None
  BY NotNone DEF IInv
<1>8. FeedInv'
  <2>1. \A c \in Cluster : base[c].feeds \in Nat /\ base[c].feeds <= subCache.feeds
    BY BaseFacts, BaseNumbers DEF IInv, FeedInv
  <2>2. subCache.feeds <= sub.feeds /\ subCache.feeds \in Nat
    BY SubFacts, SubNumbers DEF IInv
  <2>3. \A c \in Cluster : base[c].feeds <= sub.feeds
    BY <1>1, <2>1, <2>2
  <2>4. sub'.feeds <= newest'
    BY <1>2 DEF IInv, FeedInv
  <2>5. /\ worker'.obj.hash <= worker'.obj.feeds /\ worker'.obj.feeds <= subCache'.feeds
        /\ sub'.phase = "live" => worker'.obj.phase = "live"
    BY <1>1, <1>2, <1>3 DEF SameCache
  <2>. QED  BY <1>2, <2>1, <2>3, <2>4, <2>5 DEF FeedInv, SameCache
<1>9. Due => Due'
  BY <1>2, DueKept DEF IInv, SameCache
<1>10. WorkInv'
  <2>0. subWatch' \in Seq(Subscription)
    BY DEF TypeInv, TypeOK
  <2>1. CASE Len(subWatch') = 0
    BY <1>4, <2>1 DEF WorkInv, SubInv, SubChain, SameKey
  <2>2. CASE Len(subWatch') > 0
    <3>1. Len(subWatch') \in DOMAIN subWatch' /\ subWatch'[Len(subWatch')] = sub'
      BY <1>4, <2>0, <2>2 DEF SubInv, SubChain
    <3>. QED  BY <1>1, <3>1 DEF WorkInv, Due, SameKey, SameScenario
  <2>. QED  BY <2>0, <2>1, <2>2
<1>11. PendInv'
  BY <1>2, <1>7, <1>9, PendKept DEF IInv, SameCache, Doing
<1>. QED  BY <1>4, <1>5, <1>6, <1>8, <1>10, <1>11 DEF IInv

LEMMA InjectFinalizerInv ==
  ASSUME IInv, TypeInv', InjectFinalizer
  PROVE  IInv'
<1>1. SameScenario /\ newest' = newest
  BY ScenarioKept DEF InjectFinalizer, IInv, envVars
<1>2. SameCache /\ worker # None /\ worker.pc = "inject"
      /\ UNCHANGED <<base, baseWatch, baseCache>>
  BY MutateFacts DEF InjectFinalizer, IInv, At, KeepBases
<1>3. CASE Accepts(worker.obj)
  <2> DEFINE o == [sub EXCEPT !.fin = TRUE]
  <2>1. sub \in Subscription
    BY SubFacts DEF IInv
  <2>2. /\ o \in Subscription /\ o.feeds = sub.feeds /\ o.hash = sub.hash
        /\ o.binding = sub.binding /\ o.phase = sub.phase
    BY <2>1 DEF Subscription
  <2>3. WriteSub(o) /\ GoTo(FirstStep(sub'), sub')
    BY <1>3 DEF InjectFinalizer
  <2>4. FirstStep(sub') \in {"inject", "label", "handle"} /\ sub' \in Subscription
    BY DEF FirstStep, TypeInv, TypeOK
  <2>5. worker' \in Item /\ worker'.obj = sub' /\ worker'.pc = FirstStep(sub') /\ queued' = queued
    BY <1>2, <2>3, <2>4, ItemFacts DEF GoTo, Item, Step, IInv
  <2> HIDE DEF o
  <2>6. \E x \in Subscription : /\ WriteSub(x) /\ x.feeds = sub.feeds /\ x.hash = sub.hash
                                /\ x.binding = sub.binding /\ x.phase = sub.phase
    BY <2>2, <2>3
  <2>. QED  BY <1>1, <1>2, <2>4, <2>5, <2>6, AdoptStep
<1>4. CASE ~Accepts(worker.obj)
  BY <1>1, <1>2, <1>4, RequeueInv DEF InjectFinalizer, KeepSub
<1>. QED  BY <1>3, <1>4

LEMMA PatchLabelsInv ==
  ASSUME IInv, TypeInv', PatchSubscriptionLabels
  PROVE  IInv'
<1>1. SameScenario /\ newest' = newest
  BY ScenarioKept DEF PatchSubscriptionLabels, IInv, envVars
<1>2. UNCHANGED <<subCache, base, baseWatch, baseCache>> /\ worker # None /\ worker.pc = "label"
  BY DEF PatchSubscriptionLabels, At, KeepBases, cacheVars
<1>3. SameCache
  BY <1>2, MutateFacts DEF IInv
<1>4. CASE Exists(sub)
  <2> DEFINE o == [sub EXCEPT !.uidLabel = TRUE]
  <2>1. sub \in Subscription
    BY SubFacts DEF IInv
  <2>2. /\ o \in Subscription /\ o.feeds = sub.feeds /\ o.hash = sub.hash
        /\ o.binding = sub.binding /\ o.phase = sub.phase
    BY <2>1 DEF Subscription
  <2>3. (UNCHANGED <<sub, subWatch>> \/ WriteSub(o)) /\ GoTo("handle", sub')
    BY <1>4 DEF PatchSubscriptionLabels, KeepSub
  <2>4. sub' \in Subscription
    BY DEF TypeInv, TypeOK
  <2>5. worker' \in Item /\ worker'.obj = sub' /\ worker'.pc = "handle" /\ queued' = queued
    BY <1>2, <2>3, <2>4, ItemFacts DEF GoTo, Item, Step, IInv
  <2> HIDE DEF o
  <2>6. \/ UNCHANGED <<sub, subWatch>>
        \/ \E x \in Subscription : /\ WriteSub(x) /\ x.feeds = sub.feeds /\ x.hash = sub.hash
                                   /\ x.binding = sub.binding /\ x.phase = sub.phase
    BY <2>2, <2>3
  <2>. QED  BY <1>1, <1>2, <1>3, <2>4, <2>5, <2>6, AdoptStep
<1>5. CASE ~Exists(sub)
  BY <1>1, <1>2, <1>5, RequeueInv DEF PatchSubscriptionLabels, KeepSub
<1>. QED  BY <1>4, <1>5

(* handleSubscription of a Subscription that is deleting promises nothing. *)
LEMMA HandleDeletingInv ==
  ASSUME IInv, TypeInv', HandleDeleting
  PROVE  IInv'
<1>1. SameScenario /\ newest' = newest
  BY ScenarioKept DEF HandleDeleting, IInv, envVars
<1>2. /\ UNCHANGED <<sub, subWatch, subCache, base, baseWatch, baseCache, queued>>
      /\ worker # None /\ worker.pc = "handle" /\ worker.obj.phase = "deleting"
  BY DEF HandleDeleting, At, apiVars, cacheVars, watchVars
<1>3. SameCache
  BY <1>2, MutateFacts DEF IInv
<1>4. sub.phase # "live"
  BY <1>2 DEF IInv, FeedInv
<1>5. worker'.obj = worker.obj /\ worker'.pc \in {"release", "purge"}
  BY <1>2, ItemFacts DEF HandleDeleting, Item, IInv
<1>. QED  BY <1>1, <1>2, <1>3, <1>4, <1>5, ItemStep

(* populateBases has every bound cluster with a namespace before it. *)
LEMMA PopulateBasesInv ==
  ASSUME IInv, TypeInv', PopulateBases
  PROVE  IInv'
<1>1. SameScenario /\ newest' = newest
  BY ScenarioKept DEF PopulateBases, IInv, envVars
<1>2. /\ UNCHANGED <<sub, subWatch, subCache, base, baseWatch, baseCache, queued>>
      /\ worker # None /\ worker.pc = "handle"
  BY DEF PopulateBases, At, apiVars, cacheVars, watchVars
<1>3. SameCache
  BY <1>2, MutateFacts DEF IInv
<1>4. /\ worker' # None /\ worker'.obj = worker.obj /\ worker'.pc = "populate"
      /\ worker'.todo = worker.obj.binding \cap Namespace
  <2>1. Listed \subseteq Cluster
    BY DEF Listed
  <2>2. worker' \in Item
    BY <1>2, <2>1, ItemFacts DEF PopulateBases, Item, Step, IInv
  <2>. QED  BY <1>2, <2>2, NotNone, ItemFacts DEF PopulateBases, Item, IInv
<1>5. Due => Due'
  BY <1>1, <1>2, <1>3, DueKept DEF IInv, SameCache
<1>6. ASSUME NEW c \in subCache.binding \cap Namespace PROVE Due' \/ Doing(c)'
  BY <1>2, <1>4, <1>5, <1>6 DEF IInv, WorkInv, SameKey, Doing
<1>. QED  BY <1>1, <1>2, <1>3, <1>4, <1>6, ItemStep

(* An item that returned an error is queued again. *)
LEMMA FinishItemInv ==
  ASSUME IInv, TypeInv', FinishItem
  PROVE  IInv'
<1>1. SameScenario /\ newest' = newest
  BY ScenarioKept DEF FinishItem, IInv, envVars
<1>2. /\ UNCHANGED <<sub, subWatch, subCache, base, baseWatch, baseCache>>
      /\ worker # None /\ worker.pc \in {"populate", "purge"} /\ worker.todo = {}
      /\ queued' = (queued \/ worker.failed) /\ worker' = None
  BY DEF FinishItem, At, apiVars, cacheVars, watchVars
<1>3. SameCache
  BY <1>2, MutateFacts DEF IInv
<1>4. \A c \in Cluster : (Doing(c) => Due') /\ (Done(c) => Done(c)')
  BY <1>2 DEF Doing, Done, Dying, Due
<1>. QED  BY <1>1, <1>2, <1>3, <1>4, ItemStep

(* The last finalizer goes, of a Subscription that was deleting. *)
LEMMA ReleaseSubInv ==
  ASSUME IInv, TypeInv', ReleaseSub
  PROVE  IInv'
<1>1. SameScenario /\ newest' = newest
  BY ScenarioKept DEF ReleaseSub, IInv, envVars
<1>2. UNCHANGED <<subCache, base, baseWatch, baseCache>>
  BY DEF ReleaseSub, KeepBases, cacheVars
<1>3. CASE Accepts(worker.obj)
  <2> DEFINE o == [sub EXCEPT !.phase = "gone"]
  <2>1. sub \in Subscription /\ sub.feeds \in Nat /\ sub.hash <= sub.feeds
    BY SubFacts, SubNumbers DEF IInv
  <2>2. /\ o \in Subscription /\ o.feeds = sub.feeds /\ o.hash = sub.hash /\ o.phase # "live"
        /\ o.fin = sub.fin /\ o.uidLabel = sub.uidLabel
    BY <2>1 DEF Subscription
  <2>3. WriteSub(o) /\ worker' = None /\ queued' = queued
    BY <1>3 DEF ReleaseSub
  <2> HIDE DEF o
  <2>4. /\ sub' \in Subscription /\ subWatch' = Append(subWatch, sub') /\ sub'.phase # "live"
        /\ sub'.feeds = sub.feeds /\ sub'.fin = sub.fin /\ sub'.uidLabel = sub.uidLabel
    BY <2>2, <2>3, WriteSubFacts DEF IInv
  <2>5. SubInv'
    BY <1>2, <2>1, <2>2, <2>3, SubWritten DEF IInv, SameKey, TypeInv, TypeOK
  <2>6. BaseInv'
    BY <1>2, BaseInvKept DEF IInv
  <2>7. AdoptInv'
    <3>1. ASSUME scenario.adopted, NEW i \in DOMAIN subWatch' PROVE Adopted(subWatch'[i])
      <4>1. (i \in DOMAIN subWatch /\ subWatch'[i] = subWatch[i]) \/ subWatch'[i] = sub'
        <5>1. subWatch \in Seq(Subscription)
          BY DEF IInv, TypeInv, TypeOK
        <5>. QED  BY <2>4, <5>1, AppendFacts
      <4>. QED  BY <2>4, <3>1, <4>1 DEF IInv, AdoptInv, Adopted
    <3>. QED  BY <1>1, <1>2, <2>3, <2>4, <3>1 DEF IInv, AdoptInv, Adopted, Orderly, SameScenario
  <2>8. FeedInv' /\ WorkInv' /\ PendInv'
    BY <1>1, <1>2, <2>3, <2>4 DEF IInv, FeedInv, WorkInv, PendInv
  <2>. QED  BY <2>5, <2>6, <2>7, <2>8 DEF IInv
<1>4. CASE ~Accepts(worker.obj)
  BY <1>1, <1>2, <1>4, RequeueInv DEF ReleaseSub, KeepSub
<1>. QED  BY <1>3, <1>4

(* Steps of the worker that write the Base of one cluster, or leave it. *)
LEMMA BaseStep ==
  ASSUME IInv, TypeInv', SameScenario, NEW c \in Cluster, worker # None,
         UNCHANGED <<sub, subWatch, subCache, baseCache, queued, newest>>, BaseInv',
         \A d \in Cluster : d # c => base'[d] = base[d],
         base'[c].feeds = base[c].feeds \/ base'[c].feeds = worker.obj.feeds,
         worker' # None, worker'.obj = worker.obj, worker'.pc = worker.pc,
         worker'.drop \subseteq worker.drop, worker.failed => worker'.failed,
         worker.todo \ {c} \subseteq worker'.todo,
         ~Due /\ sub.phase = "live" /\ subCache.phase = "live" /\ (Doing(c) \/ Done(c))
           => Doing(c)' \/ Done(c)'
  PROVE  IInv'
<1>1. SubInv'
  BY SubInvKept DEF IInv
<1>2. AdoptInv'
  BY DEF IInv, AdoptInv, Orderly, SameScenario
<1>3. \A d \in Cluster : base'[d].feeds = base[d].feeds \/ base'[d].feeds = worker.obj.feeds
  OBVIOUS
<1>4. worker.obj.feeds \in Nat /\ worker.obj.feeds <= worker.obj.feeds
  BY ItemFacts, SubNumbers DEF IInv
<1>5. FeedInv'
  BY <1>3, <1>4 DEF IInv, FeedInv
<1>6. Due => Due'
  BY DueKept DEF IInv, SameKey
<1>7. WorkInv'
  BY <1>6 DEF IInv, WorkInv, SameKey
<1>8. \A d \in Cluster : d # c => (Doing(d) => Doing(d)') /\ (Done(d) => Done(d)')
  BY DEF Doing, Done, Dying
<1>9. PendInv'
  BY <1>6, <1>8, PendKept DEF IInv, SameKey
<1>. QED  BY <1>1, <1>2, <1>5, <1>7, <1>9 DEF IInv

(* syncBase leaves the Base as the item says, or an error. *)
LEMMA SyncBaseInv ==
  ASSUME IInv, TypeInv', NEW c \in Cluster, SyncBase(c)
  PROVE  IInv'
<1> DEFINE o == [base[c] EXCEPT !.phase = "live", !.feeds = worker.obj.feeds]
<1> DEFINE ok == CreatesBase(c) \/ UpdatesBase(c) \/ BaseUpToDate(c)
<1>1. SameScenario /\ newest' = newest
  BY ScenarioKept DEF SyncBase, IInv, envVars
<1>2. /\ UNCHANGED <<sub, subWatch, subCache, baseCache, queued>>
      /\ worker # None /\ worker.pc = "populate" /\ c \in worker.todo
      /\ Synced(c, ok)
      /\ IF CreatesBase(c) \/ UpdatesBase(c) THEN WriteBase(c, o) ELSE UNCHANGED <<base, baseWatch>>
  BY DEF SyncBase, KeepSub, KeepBases, At, cacheVars
<1>3. /\ base[c] \in Base /\ baseCache[c] \in Base
      /\ base[c].phase = "deleting" => Exists(baseCache[c])
      /\ baseCache[c].rv = base[c].rv => baseCache[c] = base[c]
      /\ Exists(baseCache[c]) /\ Exists(base[c]) => baseCache[c].feeds <= base[c].feeds
  BY BaseFacts DEF IInv
<1>4. worker.obj \in Subscription /\ worker.obj.feeds \in Feeds /\ worker.obj.feeds \in Nat
      /\ worker.obj.hash \in Nat /\ base[c].feeds \in Nat /\ baseCache[c].feeds \in Nat
  BY <1>2, <1>3, ItemFacts, SubNumbers, BaseNumbers DEF IInv, Subscription
<1>5. o \in Base /\ o.phase = "live" /\ o.feeds = worker.obj.feeds /\ Exists(o)
  BY <1>3, <1>4 DEF Base, Exists
<1>6. worker.obj.hash <= worker.obj.feeds /\ base[c].feeds <= worker.obj.feeds
  BY <1>2 DEF IInv, FeedInv
<1>7. ok \in BOOLEAN
  OBVIOUS
<1> HIDE DEF o, ok
<1>8. /\ worker' # None /\ worker'.pc = worker.pc /\ worker'.obj = worker.obj
      /\ worker'.todo = worker.todo \ {c} /\ worker'.drop = worker.drop \ {c}
      /\ worker'.failed = (worker.failed \/ ~ok)
  BY <1>2, <1>7, SyncedFacts DEF IInv
<1>9. ~Due => SameKey(worker.obj, subCache)
  BY <1>2 DEF IInv, WorkInv
<1>10. CASE CreatesBase(c) \/ UpdatesBase(c)
  <2>1. WriteBase(c, o)
    BY <1>2, <1>10
  <2>2. ASSUME CreatesBase(c) PROVE BaseInv'
    BY <1>2, <1>5, <2>1, <2>2, BaseWritten DEF IInv, CreatesBase
  <2>3. ASSUME UpdatesBase(c) PROVE BaseInv'
    <3>1. Exists(base[c]) /\ o.phase # "deleting"
      BY <1>3, <1>5, <2>3 DEF UpdatesBase, Exists
    <3>. QED  BY <1>2, <1>5, <1>6, <2>1, <3>1, BaseWritten DEF IInv
  <2>4. BaseInv'
    BY <1>10, <2>2, <2>3
  <2>5. /\ base'[c].phase = "live" /\ base'[c].feeds = worker.obj.feeds
        /\ \A d \in Cluster : d # c => base'[d] = base[d]
    BY <1>5, <2>1, WriteBaseFacts DEF IInv
  <2>6. ~Due => Done(c)'
    BY <1>2, <1>4, <1>6, <1>8, <1>9, <2>5 DEF Done, SameKey
  <2>. QED  BY <1>1, <1>2, <1>8, <2>4, <2>5, <2>6, BaseStep
<1>11. CASE ~(CreatesBase(c) \/ UpdatesBase(c))
  <2>1. UNCHANGED <<base, baseWatch>>
    BY <1>2, <1>11
  <2>2. BaseInv'
    BY <1>2, <2>1, BaseInvKept DEF IInv
  <2>3. ~Due => Doing(c)' \/ Done(c)'
    <3>1. CASE ~ok
      BY <1>2, <1>8, <3>1 DEF Doing
    <3>2. CASE ok
      <4>1. baseCache[c].phase = "live" /\ baseCache[c].feeds = worker.obj.feeds
        BY <1>11, <3>2 DEF ok, BaseUpToDate
      <4>2. CASE Exists(base[c])
        <5>1. base[c].feeds >= worker.obj.hash
          BY <1>3, <1>4, <1>6, <4>1, <4>2 DEF Exists
        <5>. QED  BY <1>2, <1>8, <1>9, <2>1, <4>2, <5>1 DEF Done, Dying, Exists, SameKey
      <4>3. CASE ~Exists(base[c])
        BY <1>2, <2>1, <4>1, <4>3 DEF Done, Dying, Exists
      <4>. QED  BY <4>2, <4>3
    <3>. QED  BY <3>1, <3>2
  <2>. QED  BY <1>1, <1>2, <1>8, <2>1, <2>2, <2>3, BaseStep
<1>. QED  BY <1>10, <1>11

(* deleteBase takes a Base away, whose Delete event will come, or leaves   *)
(* an error.                                                               *)
LEMMA DeleteBaseInv ==
  ASSUME IInv, TypeInv', NEW c \in Cluster, DeleteBase(c)
  PROVE  IInv'
<1> DEFINE o == [base[c] EXCEPT !.phase = "deleting"]
<1> DEFINE ok == Exists(baseCache[c])
<1>1. SameScenario /\ newest' = newest
  BY ScenarioKept DEF DeleteBase, IInv, envVars
<1>2. /\ UNCHANGED <<sub, subWatch, subCache, baseCache, queued>>
      /\ worker # None /\ worker.pc \in {"populate", "purge"} /\ worker.todo = {}
      /\ c \in worker.drop /\ Dropped(c, ok)
      /\ IF ok /\ base[c].phase = "live" THEN WriteBase(c, o) ELSE UNCHANGED <<base, baseWatch>>
  BY DEF DeleteBase, KeepSub, KeepBases, At, cacheVars
<1>3. base[c] \in Base /\ base[c].feeds \in Nat
  BY BaseFacts, BaseNumbers DEF IInv
<1>5. o \in Base /\ o.phase = "deleting" /\ o.feeds = base[c].feeds /\ Exists(o)
  BY <1>3 DEF Base, Exists
<1>7. ok \in BOOLEAN
  BY DEF Exists
<1> HIDE DEF o
<1>8. /\ worker' # None /\ worker'.pc = worker.pc /\ worker'.obj = worker.obj
      /\ worker'.todo = worker.todo /\ worker'.drop = worker.drop \ {c}
      /\ worker'.failed = (worker.failed \/ ~ok)
  BY <1>2, <1>7, DroppedFacts DEF IInv
<1>10. CASE ok /\ base[c].phase = "live"
  <2>1. WriteBase(c, o)
    BY <1>2, <1>10
  <2>2. Exists(base[c]) /\ base[c].feeds <= o.feeds
    BY <1>3, <1>5, <1>10 DEF Exists
  <2>4. BaseInv'
    BY <1>2, <1>5, <1>10, <2>1, <2>2, BaseWritten DEF IInv
  <2>5. /\ base'[c].phase = "deleting" /\ base'[c].feeds = base[c].feeds
        /\ \A d \in Cluster : d # c => base'[d] = base[d]
    BY <1>5, <2>1, WriteBaseFacts DEF IInv
  <2>6. Done(c)'
    BY <2>5 DEF Done, Dying
  <2>. QED  BY <1>1, <1>2, <1>8, <2>4, <2>5, <2>6, BaseStep
<1>11. CASE ~(ok /\ base[c].phase = "live")
  <2>1. UNCHANGED <<base, baseWatch>>
    BY <1>2, <1>11
  <2>2. BaseInv'
    BY <1>2, <2>1, BaseInvKept DEF IInv
  <2>3. Doing(c) \/ Done(c) => Doing(c)' \/ Done(c)'
    BY <1>2, <1>8, <1>11, <2>1 DEF Doing, Done, Dying
  <2>. QED  BY <1>1, <1>2, <1>8, <2>1, <2>2, <2>3, BaseStep
<1>. QED  BY <1>10, <1>11

-----------------------------------------------------------------------------
(* Every step keeps the invariant. *)
LEMMA InvStep ==
  ASSUME IInv, [Next]_vars
  PROVE  IInv'
<1>0. TypeInv'
  BY TypeStep DEF IInv
<1>1. CASE Environment
  BY <1>0, <1>1, EditFeedsInv, BindClustersInv, DeleteSubInv, TouchSubInv, TouchBaseInv,
     RequestFailsInv, RelistInv, RestartInv DEF Environment
<1>2. CASE Informers
  BY <1>0, <1>2, InformersInv
<1>3. CASE Work
  BY <1>0, <1>3, GetItemInv, InjectFinalizerInv, PatchLabelsInv, HandleDeletingInv,
     PopulateBasesInv, SyncBaseInv, DeleteBaseInv, FinishItemInv, ReleaseSubInv DEF Work
<1>4. CASE \E c \in Cluster : BaseFinalized(c)
  BY <1>0, <1>4, FinalizedInv
<1>5. CASE UNCHANGED vars
  BY <1>0, <1>5
  DEF IInv, SubInv, BaseInv, AdoptInv, FeedInv, WorkInv, PendInv, Due, Doing, Done, Dying,
      Namespace, vars, apiVars, cacheVars, watchVars, envVars
<1>. QED  BY <1>1, <1>2, <1>3, <1>4, <1>5 DEF Next

(* The invariant says more than the property. *)
LEMMA InvServes ==
  ASSUME IInv
  PROVE  BoundClustersServed
<1>1. SUFFICES ASSUME Idle, sub.phase = "live", sub.hash = sub.feeds,
                      NEW c \in sub.binding \cap Namespace
               PROVE  base[c].phase = "live" /\ base[c].feeds = sub.feeds
  BY DEF BoundClustersServed
<1>2. worker = None /\ ~queued /\ subWatch = <<>> /\ c \in Cluster
      /\ baseWatch[c] = <<>> /\ base[c].phase # "deleting"
  BY <1>1 DEF Idle, IInv, TypeInv, ScenarioType, Namespace
<1>3. /\ subCache.binding = sub.binding /\ subCache.hash = sub.hash
      /\ subCache.feeds = sub.feeds /\ subCache.phase = sub.phase
  BY <1>2 DEF IInv, SubInv, SubChain
<1>4. ~Due /\ ~Doing(c)
  BY <1>2 DEF Due, Doing
<1>5. Done(c)
  BY <1>1, <1>3, <1>4 DEF IInv, PendInv
<1>6. baseCache[c] = base[c]
  BY <1>2, BaseFacts DEF IInv
<1>7. base[c].phase = "live" /\ base[c].feeds >= sub.hash
  BY <1>2, <1>3, <1>5, <1>6 DEF Done, Dying
<1>8. base[c].feeds <= sub.feeds /\ base[c].feeds \in Nat /\ sub.feeds \in Nat
  BY <1>2, <1>3, BaseFacts, BaseNumbers, SubFacts, SubNumbers DEF IInv, FeedInv
<1>. QED  BY <1>1, <1>7, <1>8

(* No update of a Subscription is lost on its way to the Bases, whatever   *)
(* conflicts, failed requests, broken watches, Bases still being deleted   *)
(* and restarts make populateBases give up half-way: for any clusters and  *)
(* any number of events, as long as the scenarios are orderly.             *)
THEOREM UpdatesReachBases ==
  (\A s \in Scenario : Orderly(s)) => (Spec => []BoundClustersServed)
<1>1. (\A s \in Scenario : Orderly(s)) /\ Init => IInv
  BY InvInit
<1>2. IInv /\ [Next]_vars => IInv'
  BY InvStep
<1>3. IInv => BoundClustersServed
  BY InvServes
<1>. QED  BY <1>1, <1>2, <1>3, PTL DEF Spec
=============================================================================
