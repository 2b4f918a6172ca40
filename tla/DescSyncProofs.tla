--------------------------- MODULE DescSyncProofs ---------------------------
(***************************************************************************)
(* What DescSync guarantees for any number of feeds and events: type       *)
(* correctness, that a deleted Base leaves nothing in the child cluster,   *)
(* and that no update of a Base or of a Manifest is lost on its way there. *)
(***************************************************************************)
EXTENDS DescSync, TLAPS

ScenarioType == [feeds: (SUBSET Feed) \ {{}}, settled: BOOLEAN,
                 kinds: SUBSET EventKind, left: 0..MaxEvents]
Worker == Feed \cup {BaseKey}

(* A content counts the edits, which are bounded by the events left. *)
TypeInv ==
  /\ TypeOK /\ scenario \in ScenarioType
  /\ \A f \in Feed : manifest[f].content + scenario.left <= MaxEvents + 1

-----------------------------------------------------------------------------
(* The inductive invariants.                                               *)

(* What an informer has when nothing is under way. *)
Follows(k, w, s) == IF Len(w) = 0 THEN k = s ELSE w[Len(w)] = s

(* o is no newer than p, and a version number names one version. *)
Behind(o, p) == o.rv <= p.rv /\ (o.rv = p.rv => o = p)

DescVersions ==
  /\ Follows(descCache, descWatch, desc)
  /\ Behind(descCache, desc)
  /\ \A i \in DOMAIN descWatch :
       /\ Behind(descCache, descWatch[i]) /\ Behind(descWatch[i], desc)
       /\ \A j \in DOMAIN descWatch : i < j => Behind(descWatch[i], descWatch[j])

VersionInv ==
  /\ Follows(baseCache, baseWatch, base)
  /\ \A f \in Feed : Follows(manifestCache[f], manifestWatch[f], manifest[f])
  /\ DescVersions
  /\ deploy # None => Exists(deploy.desc) /\ Behind(deploy.desc, descCache)

(* Nothing has been told that a live Base is deleting, so its Description, *)
(* once created, is live as well.                                          *)
Alive ==
  /\ baseCache.phase \in {"absent", "live"}
  /\ \A i \in DOMAIN baseWatch : baseWatch[i].phase = "live"
  /\ \A k \in Worker : job[k] # None => job[k].base.phase = "live" /\ job[k].pc # "release"
  /\ desc.phase = "absent" => descCache.phase = "absent" /\ descWatch = <<>>
  /\ desc.phase # "deleting" /\ descCache.phase # "deleting"
  /\ \A i \in DOMAIN descWatch : descWatch[i].phase = "live"
  /\ deploy # None => deploy.desc.phase = "live"

PhaseInv ==
  /\ base.phase # "absent"
  /\ "delbase" \notin scenario.kinds => base.phase = "live"
  /\ base.phase = "live" => Alive

(* Without edits all versions of a Manifest have the same contents. *)
Unedited ==
  "edit" \notin scenario.kinds =>
    \A f \in Feed : /\ manifest[f].content = 1 /\ manifestCache[f].content = 1
                    /\ \A i \in DOMAIN manifestWatch[f] : manifestWatch[f][i].content = 1

(* Contents go forward. *)
Forward ==
  \A f \in Feed :
    /\ manifestCache[f].content <= manifest[f].content
    /\ \A i \in DOMAIN manifestWatch[f] :
         /\ manifestCache[f].content <= manifestWatch[f][i].content
         /\ manifestWatch[f][i].content <= manifest[f].content
         /\ \A j \in DOMAIN manifestWatch[f] :
              i < j => manifestWatch[f][i].content <= manifestWatch[f][j].content

(* The feeds of the Base stay as they are, or only one worker knows that   *)
(* they grow.                                                              *)
Fixed == {"grow", "shrink", "swap"} \cap scenario.kinds = {}
Kept == Fixed \/ OnlyGrows(scenario)

(* Who works for the Base has at least the feeds that the Description has. *)
FeedsInv ==
  /\ \A f \in Feed : desc.raw[f] # 0 => f \in baseCache.feeds
  /\ baseCache.feeds \subseteq base.feeds
  /\ \A i \in DOMAIN baseWatch :
       /\ baseCache.feeds \subseteq baseWatch[i].feeds
       /\ baseWatch[i].feeds \subseteq base.feeds
       /\ \A j \in DOMAIN baseWatch : i < j => baseWatch[i].feeds \subseteq baseWatch[j].feeds
  /\ \A k \in Worker : job[k] # None =>
       /\ job[k].base.feeds \subseteq baseCache.feeds
       /\ \A f \in Feed : desc.raw[f] # 0 => f \in job[k].base.feeds
       /\ job[k].pc = "sync" => \A f \in Feed : job[k].want[f] # 0 <=> f \in job[k].base.feeds
  /\ Fixed => /\ baseCache.feeds = base.feeds
              /\ \A k \in Worker : job[k] # None => job[k].base.feeds = base.feeds
  /\ OnlyGrows(scenario) =>
       /\ base.uidLabel /\ baseCache.uidLabel
       /\ \A i \in DOMAIN baseWatch : baseWatch[i].uidLabel
       /\ \A f \in Feed : f \notin queue /\ job[f] = None
       /\ job[BaseKey] # None => job[BaseKey].pc # "label"

Covered(o) == o.phase = "live" => \A f \in Feed : o.raw[f] # 0 => desc.raw[f] # 0

(* Whatever is in the child cluster is in the Description, and so is       *)
(* whatever an old version may still put there.                            *)
ChildInv ==
  /\ desc.phase = "absent" => \A f \in Feed : desc.raw[f] = 0
  /\ \A f \in Feed : child[f] # 0 => desc.raw[f] # 0
  /\ Covered(descCache)
  /\ \A i \in DOMAIN descWatch : Covered(descWatch[i])
  /\ deploy # None =>
       /\ Covered(deploy.desc)
       /\ deploy.desc.phase = "deleting" /\ ~deploy.failed /\ deploy.desc.rv = desc.rv =>
            \A f \in Feed : child[f] # 0 => f \in deploy.todo

LeftInv == Kept => FeedsInv /\ ChildInv

(* Feeds that only go: all that anybody has is enough, ... *)
Enough(raw) == \A f \in base.feeds : raw[f] = 1

ShrinkInv ==
  /\ base.feeds \subseteq baseCache.feeds
  /\ \A i \in DOMAIN baseWatch : base.feeds \subseteq baseWatch[i].feeds
  /\ \A k \in Worker : job[k] # None =>
       base.feeds \subseteq job[k].base.feeds /\ (job[k].pc = "sync" => Enough(job[k].want))
  /\ desc.phase # "absent" => Enough(desc.raw)
  /\ descCache.phase # "absent" => Enough(descCache.raw)
  /\ \A i \in DOMAIN descWatch : descWatch[i].phase # "absent" => Enough(descWatch[i].raw)
  /\ deploy # None => Enough(deploy.desc.raw)
  /\ \A fs \in SUBSET Feed : prune[fs] > 0 => fs \cap base.feeds = {}
  /\ base.phase = "live" =>
       \/ desc.phase = "live" \/ baseCache.phase = "absent"
       \/ BaseKey \in queue \/ job[BaseKey] # None

Unpruned == \A fs \in SUBSET Feed : ~(prune[fs] > 0)

(* ... one Manifest that is edited: its worker goes forward, and there is  *)
(* no other, ...                                                           *)
EditInv ==
  /\ Unpruned /\ baseWatch = <<>> /\ base.uidLabel
  /\ BaseKey \notin queue /\ job[BaseKey] = None
  /\ desc.phase = "live" /\ \E f \in Feed : base.feeds = {f}
  /\ \A f \in Feed \ base.feeds :
       /\ ~manifest[f].labelled /\ ~manifestCache[f].labelled /\ job[f] = None
       /\ \A i \in DOMAIN manifestWatch[f] : ~manifestWatch[f][i].labelled
  /\ \A f \in base.feeds :
       /\ manifest[f].labelled /\ manifestCache[f].labelled
       /\ \A i \in DOMAIN manifestWatch[f] : manifestWatch[f][i].labelled
       /\ desc.raw[f] <= manifestCache[f].content
       /\ descCache.raw[f] <= desc.raw[f]
       /\ \A i \in DOMAIN descWatch : descWatch[i].raw[f] <= desc.raw[f]
       /\ job[f] # None =>
            /\ job[f].pc \in {"gather", "sync"}
            /\ job[f].pc = "sync" => /\ desc.raw[f] <= job[f].want[f]
                                     /\ job[f].want[f] <= manifestCache[f].content
       /\ \/ f \in queue
          \/ desc.raw[f] = manifestCache[f].content
          \/ job[f] # None /\ (job[f].pc = "sync" => job[f].want[f] = manifestCache[f].content)

(* ... or a Base that gets feeds: its worker is the only one. *)
GrowInv ==
  /\ Unpruned /\ baseCache.phase = "live" /\ desc.phase = "live"
  /\ \A f \in Feed : desc.raw[f] # 0 => desc.raw[f] = 1
  /\ job[BaseKey] # None /\ job[BaseKey].pc = "sync" =>
       \A f \in Feed : job[BaseKey].want[f] # 0 => job[BaseKey].want[f] = 1
  /\ \/ BaseKey \in queue
     \/ \A f \in baseCache.feeds : desc.raw[f] # 0
     \/ job[BaseKey] # None /\ job[BaseKey].base.feeds = baseCache.feeds

(* The cached Description is deployed, or will be. *)
DeployInv ==
  descCache.phase = "live" =>
    \/ DescKey \in queue
    \/ /\ deploy # None => deploy.desc.raw = descCache.raw
       /\ \A f \in base.feeds : descCache.raw[f] # 0 =>
            \/ child[f] = descCache.raw[f]
            \/ deploy # None /\ (f \in deploy.todo \/ deploy.failed)

UpdateInv ==
  /\ OnlyShrinks(scenario) => ShrinkInv
  /\ OnlyEdits(scenario) /\ base.phase = "live" => EditInv
  /\ OnlyGrows(scenario) /\ base.phase = "live" => GrowInv
  /\ OrderlyUpdates(scenario) /\ base.phase = "live" => DeployInv

IInv == TypeInv /\ VersionInv /\ PhaseInv /\ Unedited /\ Forward /\ LeftInv /\ UpdateInv

-----------------------------------------------------------------------------
(* Types of the parts of a step.                                           *)

Pc == {"label", "handle", "unlabel", "gather", "sync", "release"}

LEMMA BaseFacts ==
  ASSUME NEW b \in Base
  PROVE  /\ b.phase \in {"absent", "live", "deleting", "gone"} /\ b.rv \in Nat
         /\ b.uidLabel \in BOOLEAN /\ b.feeds \subseteq Feed
BY DEF Base

LEMMA ManifestFacts ==
  ASSUME NEW m \in Manifest
  PROVE  /\ m.rv \in Nat /\ m.content \in Nat /\ m.content # 0
         /\ m.content <= MaxEvents + 1 /\ m.content \in Content /\ m.labelled \in BOOLEAN
BY ConfigAssumption DEF Manifest, Content

LEMMA DescFacts ==
  ASSUME NEW d \in Description
  PROVE  /\ d.phase \in {"absent", "live", "deleting"} /\ d.rv \in Nat
         /\ d.raw \in Raw /\ d.raw \in [Feed -> Content]
         /\ d.status \in {"none", "ok", "failed"}
         /\ \A f \in Feed : d.raw[f] \in Nat
BY ConfigAssumption DEF Description, Raw, Content

LEMMA JobFacts ==
  ASSUME NEW j \in Job
  PROVE  /\ j # None /\ j.pc \in Pc /\ j.base \in Base /\ j.rv \in Nat /\ j.want \in Raw
         /\ j.want \in [Feed -> Content]
         /\ \A f \in Feed : j.want[f] \in Nat
BY NoneAssumption, ConfigAssumption DEF Job, Pc, Raw, Content

LEMMA DeployFacts ==
  ASSUME NEW d \in Deploy
  PROVE  d # None /\ d.desc \in Description /\ d.todo \subseteq Feed /\ d.failed \in BOOLEAN
BY NoneAssumption DEF Deploy

(* What TypeInv says of the state. *)
LEMMA StateFacts ==
  ASSUME TypeInv
  PROVE  /\ base \in Base /\ baseCache \in Base /\ baseWatch \in Seq(Base)
         /\ manifest \in [Feed -> Manifest] /\ manifestCache \in [Feed -> Manifest]
         /\ manifestWatch \in [Feed -> Seq(Manifest)]
         /\ desc \in Description /\ descCache \in Description
         /\ descWatch \in Seq(Description)
         /\ queue \subseteq Feed \cup {BaseKey, DescKey}
         /\ job \in [Worker -> Job \cup {None}]
         /\ \A k \in Worker : job[k] # None => job[k] \in Job
         /\ deploy \in Deploy \cup {None}
         /\ prune \in [SUBSET Feed -> 0..MaxPrune]
         /\ child \in Raw /\ child \in [Feed -> Content]
         /\ scenario \in ScenarioType /\ scenario.left \in Nat
         /\ \A f \in Feed : manifest[f].content \in Nat
<1>1. TypeOK /\ scenario \in ScenarioType
  BY DEF TypeInv
<1>2. job \in [Worker -> Job \cup {None}]
  BY <1>1 DEF TypeOK, Worker
<1>3. \A k \in Worker : job[k] # None => job[k] \in Job
  BY <1>2
<1>4. \A f \in Feed : manifest[f].content \in Nat
  BY <1>1, ManifestFacts DEF TypeOK
<1>5. scenario.left \in Nat
  BY <1>1, ConfigAssumption DEF TypeOK
<1>. QED  BY <1>1, <1>2, <1>3, <1>4, <1>5 DEF TypeOK, Raw

SameScenario ==
  /\ scenario'.feeds = scenario.feeds /\ scenario'.settled = scenario.settled
  /\ scenario'.kinds = scenario.kinds

LEMMA EventFacts ==
  ASSUME TypeInv, NEW kind, Event(kind)
  PROVE  /\ SameScenario /\ scenario' \in ScenarioType
         /\ scenario.left \in Nat /\ scenario'.left \in Nat
         /\ scenario'.left = scenario.left - 1 /\ scenario'.left <= MaxEvents
         /\ kind \in scenario.kinds
<1>1. scenario \in ScenarioType /\ scenario.left \in 0..MaxEvents /\ scenario.left > 0
  BY DEF TypeInv, Event, ScenarioType
<1>2. scenario.left - 1 \in 0..MaxEvents
  BY <1>1, ConfigAssumption
<1>3. scenario' \in ScenarioType /\ scenario'.left = scenario.left - 1 /\ SameScenario
  BY <1>1, <1>2 DEF Event, ScenarioType, SameScenario
<1>. QED  BY <1>1, <1>2, <1>3, ConfigAssumption DEF Event

LEMMA QuietFacts ==
  ASSUME TypeInv, UNCHANGED scenario
  PROVE  SameScenario /\ scenario' \in ScenarioType
BY DEF SameScenario, TypeInv

LEMMA WriteBaseFacts ==
  ASSUME TypeInv, NEW o \in Base, WriteBase(o)
  PROVE  /\ base' \in Base /\ baseWatch' \in Seq(Base)
         /\ base'.phase = o.phase /\ base'.uidLabel = o.uidLabel /\ base'.feeds = o.feeds
         /\ baseWatch' = Append(baseWatch, base')
<1>1. base.rv \in Nat /\ baseWatch \in Seq(Base)
  BY StateFacts, BaseFacts
<1> DEFINE e == [o EXCEPT !.rv = base.rv + 1]
<1>2. e \in Base /\ e.phase = o.phase /\ e.uidLabel = o.uidLabel /\ e.feeds = o.feeds
  BY <1>1 DEF Base
<1>3. base' = e /\ baseWatch' = Append(baseWatch, base')
  BY DEF WriteBase
<1> HIDE DEF e
<1>. QED  BY <1>1, <1>2, <1>3

LEMMA WriteDescFacts ==
  ASSUME TypeInv, NEW o \in Description, WriteDesc(o)
  PROVE  /\ desc' \in Description /\ descWatch' \in Seq(Description)
         /\ desc'.phase = o.phase /\ desc'.raw = o.raw /\ desc'.rv = desc.rv + 1
         /\ descWatch' = Append(descWatch, desc')
<1>1. desc.rv \in Nat /\ descWatch \in Seq(Description)
  BY StateFacts, DescFacts
<1> DEFINE e == [o EXCEPT !.rv = desc.rv + 1]
<1>2. e \in Description /\ e.phase = o.phase /\ e.raw = o.raw /\ e.rv = desc.rv + 1
  BY <1>1 DEF Description
<1>3. desc' = e /\ descWatch' = Append(descWatch, desc')
  BY DEF WriteDesc
<1> HIDE DEF e
<1>. QED  BY <1>1, <1>2, <1>3

(* One Manifest after a step that may write it. *)
Written(f) == /\ manifest'[f] \in Manifest
              /\ manifestWatch'[f] = Append(manifestWatch[f], manifest'[f])
Unwritten(f) == manifest'[f] = manifest[f] /\ manifestWatch'[f] = manifestWatch[f]

LEMMA PatchFacts ==
  ASSUME TypeInv, NEW fs \in SUBSET Feed, NEW value \in BOOLEAN,
         PatchManifestLabels(fs, value)
  PROVE  /\ manifest' \in [Feed -> Manifest] /\ manifestWatch' \in [Feed -> Seq(Manifest)]
         /\ \A f \in Feed :
              /\ manifest'[f].content = manifest[f].content
              /\ Unwritten(f) \/ (Written(f) /\ f \in fs)
              /\ manifest'[f].labelled = IF f \in fs THEN value ELSE manifest[f].labelled
<1> DEFINE New(f) == IF f \in fs THEN [manifest[f] EXCEPT !.labelled = value] ELSE manifest[f]
           new == [f \in Feed |-> New(f)]
           Changed == {f \in Feed : new[f] # manifest[f]}
<1>1. manifest \in [Feed -> Manifest] /\ manifestWatch \in [Feed -> Seq(Manifest)]
  BY StateFacts
<1>2. ASSUME NEW f \in Feed
      PROVE  /\ new[f] \in Manifest /\ [new[f] EXCEPT !.rv = @ + 1] \in Manifest
             /\ new[f].content = manifest[f].content
             /\ new[f].labelled = IF f \in fs THEN value ELSE manifest[f].labelled
             /\ [new[f] EXCEPT !.rv = @ + 1].content = new[f].content
             /\ [new[f] EXCEPT !.rv = @ + 1].labelled = new[f].labelled
             /\ f \notin fs => f \notin Changed
  <2>1. manifest[f] \in Manifest
    BY <1>1
  <2>2. new[f] \in Manifest /\ new[f].content = manifest[f].content
        /\ new[f].labelled = IF f \in fs THEN value ELSE manifest[f].labelled
    BY <2>1 DEF Manifest
  <2> DEFINE n == new[f]
  <2>3. n \in Manifest
    BY <2>2
  <2>4. f \notin fs => f \notin Changed
    OBVIOUS
  <2> HIDE DEF n
  <2>5. /\ [n EXCEPT !.rv = @ + 1] \in Manifest
        /\ [n EXCEPT !.rv = @ + 1].content = n.content
        /\ [n EXCEPT !.rv = @ + 1].labelled = n.labelled
    BY <2>3 DEF Manifest
  <2>. QED  BY <2>2, <2>4, <2>5 DEF n
<1>3. /\ manifest' = [f \in Feed |-> IF f \in Changed
                         THEN [new[f] EXCEPT !.rv = @ + 1] ELSE manifest[f]]
      /\ manifestWatch' = [f \in Feed |-> IF f \in Changed
                         THEN Append(manifestWatch[f], manifest'[f]) ELSE manifestWatch[f]]
  BY DEF PatchManifestLabels, WriteManifests
<1>4. ASSUME NEW f \in Feed
      PROVE  /\ manifest'[f] \in Manifest /\ manifestWatch'[f] \in Seq(Manifest)
             /\ manifest'[f].content = manifest[f].content
             /\ Unwritten(f) \/ (Written(f) /\ f \in fs)
             /\ manifest'[f].labelled = IF f \in fs THEN value ELSE manifest[f].labelled
  <2>1. CASE f \in Changed
    <3>1. /\ manifest'[f] = [new[f] EXCEPT !.rv = @ + 1]
          /\ manifestWatch'[f] = Append(manifestWatch[f], manifest'[f])
      BY <1>3, <2>1
    <3> HIDE DEF new
    <3>. QED  BY <1>1, <1>2, <2>1, <3>1 DEF Written
  <2>2. CASE f \notin Changed
    <3>1. manifest'[f] = manifest[f] /\ manifestWatch'[f] = manifestWatch[f]
          /\ new[f] = manifest[f]
      BY <1>3, <2>2
    <3> HIDE DEF new
    <3>. QED  BY <1>1, <1>2, <3>1 DEF Unwritten
  <2>. QED  BY <2>1, <2>2
<1>5. manifest' \in [Feed -> Manifest] /\ manifestWatch' \in [Feed -> Seq(Manifest)]
  <2> HIDE DEF Changed, new
  <2>1. /\ manifest' = [f \in Feed |-> manifest'[f]]
        /\ manifestWatch' = [f \in Feed |-> manifestWatch'[f]]
    BY <1>3
  <2>. QED  BY <1>4, <2>1
<1>. QED  BY <1>4, <1>5

LEMMA EditManifestFacts ==
  ASSUME TypeInv, NEW f \in Feed, EditManifest(f)
  PROVE  /\ manifest' \in [Feed -> Manifest] /\ manifestWatch' \in [Feed -> Seq(Manifest)]
         /\ manifest'[f].content = manifest[f].content + 1
         /\ manifest'[f].labelled = manifest[f].labelled /\ Written(f)
         /\ \A g \in Feed \ {f} : Unwritten(g)
<1> DEFINE m == [manifest[f] EXCEPT !.content = @ + 1]
           n == [m EXCEPT !.rv = @ + 1]
           new == [manifest EXCEPT ![f].content = @ + 1]
<1>1. /\ manifest \in [Feed -> Manifest] /\ manifestWatch \in [Feed -> Seq(Manifest)]
      /\ manifest[f] \in Manifest /\ manifestWatch[f] \in Seq(Manifest)
  BY StateFacts
<1>2. manifest[f].content + 1 \in Content \ {0}
  <2>1. scenario.left \in Nat /\ scenario.left > 0 /\ manifest[f].content \in Nat
    BY StateFacts DEF EditManifest, Event
  <2>2. manifest[f].content + scenario.left <= MaxEvents + 1
    BY DEF TypeInv
  <2>. QED  BY <2>1, <2>2, ConfigAssumption DEF Content
<1>3. /\ m \in Manifest /\ m.content = manifest[f].content + 1
      /\ m.labelled = manifest[f].labelled /\ m # manifest[f]
  <2>1. /\ m \in Manifest /\ m.content = manifest[f].content + 1
        /\ m.labelled = manifest[f].labelled
    BY <1>1, <1>2 DEF Manifest
  <2>2. m.content # manifest[f].content
    BY <2>1, StateFacts
  <2>. QED  BY <2>1, <2>2
<1>4. n \in Manifest /\ n.content = m.content /\ n.labelled = m.labelled
  <2> HIDE DEF m
  <2>. QED  BY <1>3 DEF Manifest
<1>5. new = [g \in Feed |-> IF g = f THEN m ELSE manifest[g]]
  BY <1>1
<1>6. /\ \A g \in Feed \ {f} : new[g] = manifest[g]
      /\ new[f] = m
  BY <1>5
<1>7. WriteManifests(new)
  BY DEF EditManifest
<1> HIDE DEF new, m
<1>8. /\ manifest' = [g \in Feed |-> IF g = f THEN n ELSE manifest[g]]
      /\ manifestWatch' = [g \in Feed |-> IF g = f THEN Append(manifestWatch[f], manifest'[f])
                                          ELSE manifestWatch[g]]
  BY <1>3, <1>6, <1>7 DEF WriteManifests
<1> HIDE DEF n
<1>9. manifest'[f] = n /\ manifestWatch'[f] = Append(manifestWatch[f], n)
  BY <1>8
<1>. QED  BY <1>1, <1>3, <1>4, <1>8, <1>9 DEF Written, Unwritten

(* One job changes. *)
LEMMA JobUpdate ==
  ASSUME TypeInv, NEW k \in Worker, NEW j \in Job \cup {None}, job' = [job EXCEPT ![k] = j]
  PROVE  /\ job' \in [Worker -> Job \cup {None}] /\ job'[k] = j
         /\ \A x \in Worker \ {k} : job'[x] = job[x]
BY StateFacts

LEMMA StartFacts ==
  ASSUME TypeInv, NEW k \in Worker, NEW pc \in Pc, NEW b \in Base, NEW rv \in Nat,
         Start(k, pc, b, rv)
  PROVE  /\ job' \in [Worker -> Job \cup {None}]
         /\ \A x \in Worker \ {k} : job'[x] = job[x]
         /\ job'[k] # None /\ job'[k].pc = pc /\ job'[k].base = b /\ job'[k].rv = rv
<1> DEFINE j == [pc |-> pc, base |-> b, rv |-> rv, want |-> Nothing]
<1>1. Nothing \in Raw
  BY ConfigAssumption DEF Nothing, Raw, Content
<1>2. j \in Job /\ j.pc = pc /\ j.base = b /\ j.rv = rv
  BY <1>1 DEF Job, Pc
<1>3. job' = [job EXCEPT ![k] = j]
  BY DEF Start
<1> HIDE DEF j
<1>. QED  BY <1>2, <1>3, JobUpdate, JobFacts

LEMMA GoToFacts ==
  ASSUME TypeInv, NEW k \in Worker, job[k] # None, NEW pc \in Pc, NEW b \in Base, GoTo(k, pc, b)
  PROVE  /\ job' \in [Worker -> Job \cup {None}] /\ queue' = queue
         /\ \A x \in Worker \ {k} : job'[x] = job[x]
         /\ job'[k] # None /\ job'[k].pc = pc /\ job'[k].base = b /\ job'[k].want = job[k].want
<1> DEFINE j == [job[k] EXCEPT !.pc = pc, !.base = b]
<1>1. job[k] \in Job /\ job \in [Worker -> Job \cup {None}]
  BY StateFacts
<1>2. j \in Job /\ j.pc = pc /\ j.base = b /\ j.want = job[k].want
  BY <1>1 DEF Job, Pc
<1>3. job' = [job EXCEPT ![k] = j] /\ queue' = queue
  BY <1>1 DEF GoTo
<1> HIDE DEF j
<1>. QED  BY <1>2, <1>3, JobUpdate, JobFacts

LEMMA EndFacts ==
  ASSUME TypeInv, NEW k \in Worker, Done(k) \/ Requeue(k)
  PROVE  /\ job' \in [Worker -> Job \cup {None}]
         /\ \A x \in Worker \ {k} : job'[x] = job[x]
         /\ job'[k] = None
         /\ queue' \in {queue, queue \cup {k}} /\ queue' \subseteq Feed \cup {BaseKey, DescKey}
         /\ Requeue(k) => k \in queue'
<1>1. job' = [job EXCEPT ![k] = None] /\ queue' \in {queue, queue \cup {k}}
      /\ (Requeue(k) => k \in queue')
  BY DEF Done, Requeue
<1>2. queue \subseteq Feed \cup {BaseKey, DescKey} /\ k \in Feed \cup {BaseKey}
  BY StateFacts DEF Worker
<1>3. None \in Job \cup {None}
  OBVIOUS
<1>. QED  BY <1>1, <1>2, <1>3, JobUpdate

LEMMA GatherFacts ==
  ASSUME TypeInv, NEW k \in Worker, GatherManifests(k)
  PROVE  /\ job' \in [Worker -> Job \cup {None}]
         /\ \A x \in Worker \ {k} : job'[x] = job[x]
         /\ job[k] # None /\ job'[k] # None
         /\ job'[k].pc = "sync" /\ job'[k].base = job[k].base
         /\ \A f \in Feed : job'[k].want[f] = IF f \in job[k].base.feeds
                                              THEN manifestCache[f].content ELSE 0
<1> DEFINE w == [f \in Feed |-> IF f \in job[k].base.feeds
                                THEN manifestCache[f].content ELSE 0]
           j == [job[k] EXCEPT !.pc = "sync", !.want = w]
<1>1. job[k] # None /\ job[k] \in Job /\ job \in [Worker -> Job \cup {None}]
  BY StateFacts DEF GatherManifests, At
<1>2. \A f \in Feed : manifestCache[f].content \in Content
  BY StateFacts, ManifestFacts
<1>3. w \in Raw
  BY <1>2, ConfigAssumption DEF Raw, Content
<1>4. job' = [job EXCEPT ![k] = j]
  BY <1>1 DEF GatherManifests
<1>5. \A f \in Feed : w[f] = IF f \in job[k].base.feeds THEN manifestCache[f].content ELSE 0
  OBVIOUS
<1> HIDE DEF w
<1>6. j \in Job /\ j.pc = "sync" /\ j.base = job[k].base /\ j.want = w
  BY <1>1, <1>3 DEF Job
<1> HIDE DEF j
<1>. QED  BY <1>1, <1>4, <1>5, <1>6, JobUpdate, JobFacts

(* An invariant of types for a step that edits no Manifest. *)
LEMMA TypeKept ==
  ASSUME TypeInv,
         base' \in Base, baseCache' \in Base, baseWatch' \in Seq(Base),
         manifest' \in [Feed -> Manifest], manifestCache' \in [Feed -> Manifest],
         manifestWatch' \in [Feed -> Seq(Manifest)],
         desc' \in Description, descCache' \in Description, descWatch' \in Seq(Description),
         queue' \subseteq Feed \cup {BaseKey, DescKey}, job' \in [Worker -> Job \cup {None}],
         deploy' \in Deploy \cup {None}, prune' \in [SUBSET Feed -> 0..MaxPrune], child' \in Raw,
         scenario' \in ScenarioType, scenario'.left <= scenario.left,
         \A f \in Feed : manifest'[f].content = manifest[f].content
  PROVE  TypeInv'
<1>1. scenario'.left \in 0..MaxEvents
  BY DEF ScenarioType
<1>2. TypeOK'
  BY <1>1 DEF TypeOK, Worker
<1>3. ASSUME NEW f \in Feed PROVE manifest'[f].content + scenario'.left <= MaxEvents + 1
  <2>1. /\ manifest[f].content \in Nat /\ manifest[f].content + scenario.left <= MaxEvents + 1
        /\ scenario.left \in Nat /\ scenario'.left \in Nat
    BY <1>1, StateFacts, ConfigAssumption DEF TypeInv
  <2>2. manifest'[f].content = manifest[f].content
    OBVIOUS
  <2>. QED  BY <2>1, <2>2, ConfigAssumption
<1>. QED  BY <1>2, <1>3 DEF TypeInv

(* The Base after a step that may write it. *)
BaseWritten(phase, uidLabel, feeds) ==
  /\ base' \in Base /\ baseWatch' \in Seq(Base)
  /\ base'.phase = phase /\ base'.uidLabel = uidLabel /\ base'.feeds = feeds
  /\ baseWatch' = Append(baseWatch, base')

LEMMA EditFeedsFacts ==
  ASSUME TypeInv, NEW fs \in SUBSET Feed, EditFeeds(fs)
  PROVE  BaseWritten("live", base.uidLabel, fs) /\ base.phase = "live"
<1>1. /\ [base EXCEPT !.feeds = fs] \in Base
      /\ [base EXCEPT !.feeds = fs].phase = base.phase
      /\ [base EXCEPT !.feeds = fs].uidLabel = base.uidLabel
      /\ [base EXCEPT !.feeds = fs].feeds = fs
  BY StateFacts DEF Base
<1>2. WriteBase([base EXCEPT !.feeds = fs]) /\ base.phase = "live"
  BY DEF EditFeeds
<1>. QED  BY <1>1, <1>2, WriteBaseFacts DEF BaseWritten

LEMMA DeleteBaseFacts ==
  ASSUME TypeInv, DeleteBase
  PROVE  /\ BaseWritten("deleting", base.uidLabel, base.feeds) /\ base.phase = "live"
         /\ manifest' \in [Feed -> Manifest] /\ manifestWatch' \in [Feed -> Seq(Manifest)]
         /\ \A f \in Feed : /\ manifest'[f].content = manifest[f].content
                            /\ Unwritten(f) \/ Written(f)
<1>1. /\ [base EXCEPT !.phase = "deleting"] \in Base
      /\ [base EXCEPT !.phase = "deleting"].phase = "deleting"
      /\ [base EXCEPT !.phase = "deleting"].uidLabel = base.uidLabel
      /\ [base EXCEPT !.phase = "deleting"].feeds = base.feeds
  BY StateFacts DEF Base
<1>2. WriteBase([base EXCEPT !.phase = "deleting"]) /\ base.phase = "live"
  BY DEF DeleteBase
<1> DEFINE fs == {f \in Feed : manifestCache[f].labelled}
<1>3. fs \in SUBSET Feed /\ PatchManifestLabels(fs, FALSE)
  BY DEF DeleteBase
<1> HIDE DEF fs
<1>4. /\ manifest' \in [Feed -> Manifest] /\ manifestWatch' \in [Feed -> Seq(Manifest)]
      /\ \A f \in Feed : /\ manifest'[f].content = manifest[f].content
                         /\ Unwritten(f) \/ Written(f)
  BY <1>3, PatchFacts
<1>. QED  BY <1>1, <1>2, <1>4, WriteBaseFacts DEF BaseWritten

-----------------------------------------------------------------------------
(* Type correctness, one lemma per group of actions.                       *)

LEMMA TypeUsers ==
  ASSUME TypeInv, Environment PROVE TypeInv'
<1> USE StateFacts
<1>1. ASSUME NEW fs \in SUBSET Feed, EditFeeds(fs) PROVE TypeInv'
  <2>1. base' \in Base /\ baseWatch' \in Seq(Base)
    BY <1>1, EditFeedsFacts DEF BaseWritten
  <2>2. scenario' \in ScenarioType /\ scenario'.left <= scenario.left
    <3>1. \E kind : Event(kind)
      BY <1>1 DEF EditFeeds
    <3>. QED  BY <3>1, EventFacts
  <2>. QED  BY <1>1, <2>1, <2>2, TypeKept
            DEF EditFeeds, KeepManifests, KeepDesc, cacheVars, workVars
<1>2. ASSUME NEW f \in Feed, EditManifest(f) PROVE TypeInv'
  <2>1. /\ manifest' \in [Feed -> Manifest] /\ manifestWatch' \in [Feed -> Seq(Manifest)]
        /\ manifest'[f].content = manifest[f].content + 1
        /\ \A g \in Feed \ {f} : Unwritten(g)
    BY <1>2, EditManifestFacts
  <2>2. /\ scenario' \in ScenarioType /\ scenario'.left = scenario.left - 1
        /\ scenario.left \in Nat /\ scenario'.left \in Nat
    BY <1>2, EventFacts DEF EditManifest
  <2>3. TypeOK'
    BY <1>2, <2>1, <2>2
       DEF EditManifest, KeepBase, KeepDesc, cacheVars, workVars, TypeOK, Worker, ScenarioType
  <2>4. ASSUME NEW g \in Feed PROVE manifest'[g].content + scenario'.left <= MaxEvents + 1
    <3>1. manifest[g].content + scenario.left <= MaxEvents + 1 /\ manifest[g].content \in Nat
      BY DEF TypeInv
    <3>2. \/ manifest'[g].content = manifest[g].content
          \/ manifest'[g].content = manifest[g].content + 1
      <4>1. CASE g = f
        BY <2>1, <4>1
      <4>2. CASE g # f
        BY <2>1, <4>2 DEF Unwritten
      <4>. QED  BY <4>1, <4>2
    <3> HIDE StateFacts
    <3>3. MaxEvents \in Nat
      BY ConfigAssumption
    <3>. QED  BY <2>2, <3>1, <3>2, <3>3
  <2>. QED  BY <2>2, <2>3, <2>4 DEF TypeInv
<1>3. ASSUME DeleteBase PROVE TypeInv'
  <2>1. /\ base' \in Base /\ baseWatch' \in Seq(Base)
        /\ manifest' \in [Feed -> Manifest] /\ manifestWatch' \in [Feed -> Seq(Manifest)]
        /\ \A f \in Feed : manifest'[f].content = manifest[f].content
    BY <1>3, DeleteBaseFacts DEF BaseWritten
  <2>2. scenario' \in ScenarioType /\ scenario'.left <= scenario.left
    BY <1>3, EventFacts DEF DeleteBase
  <2>. QED  BY <1>3, <2>1, <2>2, TypeKept
            DEF DeleteBase, KeepDesc, cacheVars, workVars
<1>4. ASSUME Restart PROVE TypeInv'
  <2>1. scenario' \in ScenarioType /\ scenario'.left <= scenario.left
    BY <1>4, EventFacts DEF Restart
  <2>2. /\ prune' \in [SUBSET Feed -> 0..MaxPrune] /\ job' \in [Worker -> Job \cup {None}]
        /\ manifestWatch' \in [Feed -> Seq(Manifest)]
        /\ deploy' = None /\ baseWatch' \in Seq(Base) /\ descWatch' \in Seq(Description)
    BY <1>4, ConfigAssumption DEF Restart, Worker
  <2>3. queue' \subseteq Feed \cup {BaseKey, DescKey}
    BY <1>4 DEF Restart
  <2>4. UNCHANGED <<base, manifest, desc, child>> /\ baseCache' = base
        /\ manifestCache' = manifest /\ descCache' = desc
    BY <1>4 DEF Restart, apiVars
  <2>. QED  BY <2>1, <2>2, <2>3, <2>4, TypeKept
<1>5. ASSUME RequestFails PROVE TypeInv'
  <2>1. scenario' \in ScenarioType /\ scenario'.left <= scenario.left
    <3>1. Event("apierr")
      BY <1>5 DEF RequestFails
    <3>. QED  BY <3>1, EventFacts
  <2>2. UNCHANGED <<base, baseWatch, desc, descWatch, baseCache, manifestCache, descCache, prune>>
    BY <1>5 DEF RequestFails, KeepBase, KeepDesc, cacheVars
  <2>3. ASSUME NEW k \in DOMAIN job, job[k] # None, Requeue(k), UNCHANGED <<deploy, child>>,
               \/ \E part \in SUBSET job[k].base.feeds : PatchManifestLabels(part, TRUE)
               \/ KeepManifests
        PROVE  TypeInv'
    <3>1. k \in Worker /\ job[k].base.feeds \subseteq Feed
      BY <2>3, JobFacts, BaseFacts
    <3>2. /\ manifest' \in [Feed -> Manifest] /\ manifestWatch' \in [Feed -> Seq(Manifest)]
          /\ \A f \in Feed : manifest'[f].content = manifest[f].content
      <4>1. CASE KeepManifests
        BY <4>1 DEF KeepManifests
      <4>2. ASSUME NEW part \in SUBSET job[k].base.feeds, PatchManifestLabels(part, TRUE)
            PROVE  /\ manifest' \in [Feed -> Manifest]
                   /\ manifestWatch' \in [Feed -> Seq(Manifest)]
                   /\ \A f \in Feed : manifest'[f].content = manifest[f].content
        BY <3>1, <4>2, PatchFacts
      <4>. QED  BY <2>3, <4>1, <4>2
    <3>3. job' \in [Worker -> Job \cup {None}] /\ queue' \subseteq Feed \cup {BaseKey, DescKey}
      BY <2>3, <3>1, EndFacts
    <3>. QED  BY <2>1, <2>2, <2>3, <3>2, <3>3, TypeKept
  <2>4. ASSUME deploy # None, KeepManifests, UNCHANGED <<job, child>>,
               \/ \E f \in deploy.todo :
                    deploy' = [deploy EXCEPT !.todo = @ \ {f}, !.failed = TRUE] /\ UNCHANGED queue
               \/ RedeployLater
        PROVE  TypeInv'
    <3>1. deploy' \in Deploy \cup {None} /\ queue' \subseteq Feed \cup {BaseKey, DescKey}
      <4>1. deploy \in Deploy
        BY <2>4
      <4>2. ASSUME NEW f \in deploy.todo
            PROVE  [deploy EXCEPT !.todo = @ \ {f}, !.failed = TRUE] \in Deploy
        BY <4>1 DEF Deploy
      <4>. QED  BY <2>4, <4>2 DEF RedeployLater
    <3>. QED  BY <2>1, <2>2, <2>4, <3>1, TypeKept DEF KeepManifests
  <2>5. ASSUME NEW fs \in SUBSET Feed, NEW part \in SUBSET fs, child' = Without(part),
               KeepManifests, UNCHANGED <<queue, job, deploy>>
        PROVE  TypeInv'
    <3>1. child' \in Raw
      BY <2>5, ConfigAssumption DEF Without, Raw, Content
    <3>. QED  BY <2>1, <2>2, <2>5, <3>1, TypeKept DEF KeepManifests
  <2>. QED  BY <1>5, <2>3, <2>4, <2>5 DEF RequestFails
<1>. QED  BY <1>1, <1>2, <1>3, <1>4, <1>5 DEF Environment

LEMMA TypeInformers ==
  ASSUME TypeInv, Informers PROVE TypeInv'
<1> USE StateFacts
<1>1. ASSUME SyncBase PROVE TypeInv'
  <2>1. baseCache' \in Base /\ baseWatch' \in Seq(Base)
    BY <1>1 DEF SyncBase
  <2>2. BaseEventEnqueues(baseCache, Head(baseWatch)) \subseteq Feed \cup {BaseKey}
    BY BaseFacts DEF BaseEventEnqueues, FindObsoletedFeeds
  <2>3. queue' \subseteq Feed \cup {BaseKey, DescKey}
    BY <1>1, <2>2 DEF SyncBase
  <2>. QED  BY <1>1, <2>1, <2>3, QuietFacts, TypeKept DEF SyncBase, apiVars
<1>2. ASSUME SyncDesc PROVE TypeInv'
  <2>1. descCache' \in Description /\ descWatch' \in Seq(Description)
    BY <1>2 DEF SyncDesc
  <2>2. queue' \subseteq Feed \cup {BaseKey, DescKey}
    BY <1>2 DEF SyncDesc, DescEventEnqueues
  <2>. QED  BY <1>2, <2>1, <2>2, QuietFacts, TypeKept DEF SyncDesc, apiVars
<1>3. ASSUME NEW f \in Feed, SyncManifest(f) PROVE TypeInv'
  <2>1. manifestWatch[f] \in Seq(Manifest) /\ manifestWatch[f] # <<>>
    BY <1>3 DEF SyncManifest
  <2>2. Head(manifestWatch[f]) \in Manifest /\ Tail(manifestWatch[f]) \in Seq(Manifest)
    BY <2>1
  <2>3. /\ manifestCache' \in [Feed -> Manifest] /\ manifestWatch' \in [Feed -> Seq(Manifest)]
        /\ queue' \subseteq Feed \cup {BaseKey, DescKey}
    BY <1>3, <2>2 DEF SyncManifest, ManifestEventEnqueues
  <2>. QED  BY <1>3, <2>3, QuietFacts, TypeKept DEF SyncManifest, apiVars
<1>. QED  BY <1>1, <1>2, <1>3 DEF Informers

(* The Description that syncDescriptions writes. *)
LEMMA SyncDescriptionsFacts ==
  ASSUME TypeInv, NEW k \in Worker, SyncDescriptions(k)
  PROVE  LET want == job[k].want
             updated == UpdatesDesc(want) /\ desc.rv = descCache.rv IN
         /\ job[k] \in Job /\ job[k].pc = "sync"
         /\ desc' \in Description /\ descWatch' \in Seq(Description)
         /\ \/ /\ CreatesDesc \/ updated
               /\ desc'.raw = want /\ desc'.rv = desc.rv + 1
               /\ desc'.phase = IF CreatesDesc THEN "live" ELSE desc.phase
               /\ descWatch' = Append(descWatch, desc')
               /\ Done(k)
            \/ /\ desc' = desc /\ descWatch' = descWatch
               /\ IF DescUpToDate(want) THEN Done(k) ELSE Requeue(k)
         /\ prune' \in [SUBSET Feed -> 0..MaxPrune]
         /\ \A fs \in SUBSET Feed : prune'[fs] # prune[fs] =>
              fs = In(descCache.raw) \ In(want) /\ fs # {} /\ UpdatesDesc(want)
<1> DEFINE want == job[k].want
           updated == UpdatesDesc(want) /\ desc.rv = descCache.rv
           obsolete == In(descCache.raw) \ In(want)
<1>1. job[k] \in Job /\ job[k].pc = "sync" /\ want \in Raw
  BY StateFacts, JobFacts DEF SyncDescriptions, At
<1>2. desc \in Description /\ descWatch \in Seq(Description)
  BY StateFacts
<1>3. /\ desc' \in Description /\ descWatch' \in Seq(Description)
      /\ \/ /\ CreatesDesc \/ updated
            /\ desc'.raw = want /\ desc'.rv = desc.rv + 1
            /\ desc'.phase = IF CreatesDesc THEN "live" ELSE desc.phase
            /\ descWatch' = Append(descWatch, desc')
            /\ Done(k)
         \/ /\ desc' = desc /\ descWatch' = descWatch
            /\ IF DescUpToDate(want) THEN Done(k) ELSE Requeue(k)
  <2>1. CASE CreatesDesc
    <3> DEFINE o == [NoDesc EXCEPT !.phase = "live", !.raw = want]
    <3>1. o \in Description /\ o.phase = "live" /\ o.raw = want
      <4>1. NoDesc \in Description
        BY ConfigAssumption DEF NoDesc, Description, Nothing, Raw, Content
      <4>. QED  BY <1>1, <4>1 DEF Description
    <3>2. WriteDesc(o) /\ Done(k)
      BY <2>1 DEF SyncDescriptions
    <3> HIDE DEF o
    <3>. QED  BY <2>1, <3>1, <3>2, WriteDescFacts
  <2>2. CASE ~CreatesDesc /\ updated
    <3> DEFINE o == [desc EXCEPT !.raw = want]
    <3>1. o \in Description /\ o.phase = desc.phase /\ o.raw = want
      BY <1>1, <1>2 DEF Description
    <3>2. WriteDesc(o) /\ Done(k)
      BY <2>2 DEF SyncDescriptions
    <3> HIDE DEF o
    <3>. QED  BY <2>2, <3>1, <3>2, WriteDescFacts
  <2>3. CASE ~CreatesDesc /\ ~updated
    BY <1>2, <2>3 DEF SyncDescriptions, KeepDesc
  <2>. QED  BY <2>1, <2>2, <2>3
<1>4. /\ prune' \in [SUBSET Feed -> 0..MaxPrune]
      /\ \A fs \in SUBSET Feed : prune'[fs] # prune[fs] =>
           fs = obsolete /\ fs # {} /\ UpdatesDesc(want)
  <2>1. prune \in [SUBSET Feed -> 0..MaxPrune]
    BY StateFacts
  <2>2. CASE UpdatesDesc(want) /\ obsolete # {}
    <3>1. /\ prune[obsolete] < MaxPrune /\ prune' = [prune EXCEPT ![obsolete] = @ + 1]
          /\ obsolete \in SUBSET Feed
      BY <2>2 DEF SyncDescriptions, In
    <3> HIDE DEF obsolete
    <3>2. prune[obsolete] + 1 \in 0..MaxPrune
      BY <2>1, <3>1, ConfigAssumption
    <3>. QED  BY <2>1, <2>2, <3>1, <3>2
  <2>3. CASE ~(UpdatesDesc(want) /\ obsolete # {})
    BY <2>1, <2>3 DEF SyncDescriptions
  <2>. QED  BY <2>2, <2>3
<1>. QED  BY <1>1, <1>3, <1>4

LEMMA PatchBaseLabelsFacts ==
  ASSUME TypeInv, PatchBaseLabels
  PROVE  /\ job[BaseKey] \in Job /\ job[BaseKey].pc = "label"
         /\ job' \in [Worker -> Job \cup {None}]
         /\ queue' \subseteq Feed \cup {BaseKey, DescKey}
         /\ base' \in Base /\ baseWatch' \in Seq(Base)
         /\ \A k \in Feed : job'[k] = job[k]
         /\ \/ /\ KeepBase /\ Requeue(BaseKey)
            \/ /\ Exists(base) /\ queue' = queue
               /\ \/ KeepBase /\ base.uidLabel
                  \/ BaseWritten(base.phase, TRUE, base.feeds)
               /\ job'[BaseKey] # None /\ job'[BaseKey].pc = "handle"
               /\ job'[BaseKey].base = base'
<1>1. /\ BaseKey \in Worker /\ job[BaseKey] \in Job /\ job[BaseKey].pc = "label"
      /\ base \in Base /\ baseWatch \in Seq(Base) /\ "handle" \in Pc
      /\ \A k \in Feed : k \in Worker \ {BaseKey}
  BY StateFacts, ConfigAssumption DEF PatchBaseLabels, At, Worker, Pc
<1>2. CASE ~Exists(base)
  BY <1>1, <1>2, EndFacts DEF PatchBaseLabels, KeepBase
<1>3. CASE Exists(base)
  <2>1. base' \in Base /\ baseWatch' \in Seq(Base)
        /\ ((KeepBase /\ base.uidLabel) \/ BaseWritten(base.phase, TRUE, base.feeds))
    <3>1. CASE base.uidLabel
      BY <1>1, <1>3, <3>1 DEF PatchBaseLabels, KeepBase
    <3>2. CASE ~base.uidLabel
      <4> DEFINE o == [base EXCEPT !.uidLabel = TRUE]
      <4>1. o \in Base /\ o.phase = base.phase /\ o.feeds = base.feeds /\ o.uidLabel = TRUE
        BY <1>1 DEF Base
      <4>2. WriteBase(o)
        BY <1>3, <3>2 DEF PatchBaseLabels
      <4> HIDE DEF o
      <4>. QED  BY <4>1, <4>2, WriteBaseFacts DEF BaseWritten
    <3>. QED  BY <3>1, <3>2
  <2>2. GoTo(BaseKey, "handle", base')
    BY <1>3 DEF PatchBaseLabels
  <2>3. /\ job' \in [Worker -> Job \cup {None}] /\ queue' = queue
        /\ \A k \in Worker \ {BaseKey} : job'[k] = job[k]
        /\ job'[BaseKey] # None /\ job'[BaseKey].pc = "handle" /\ job'[BaseKey].base = base'
    BY <1>1, <2>1, <2>2, GoToFacts, JobFacts
  <2>. QED  BY <1>1, <1>3, <2>1, <2>3, StateFacts
<1>. QED  BY <1>2, <1>3

(* The Description after a step that may write it. *)
DescWritten(phase, raw) ==
  /\ desc' \in Description /\ descWatch' \in Seq(Description)
  /\ desc'.phase = phase /\ desc'.raw = raw /\ desc'.rv = desc.rv + 1
  /\ descWatch' = Append(descWatch, desc')

LEMMA DescPhase ==
  ASSUME TypeInv, NEW p \in {"live", "deleting"}, WriteDesc([desc EXCEPT !.phase = p])
  PROVE  DescWritten(p, desc.raw)
<1> DEFINE o == [desc EXCEPT !.phase = p]
<1>1. o \in Description /\ o.phase = p /\ o.raw = desc.raw
  BY StateFacts DEF Description
<1>2. WriteDesc(o)
  OBVIOUS
<1> HIDE DEF o
<1>. QED  BY <1>1, <1>2, WriteDescFacts DEF DescWritten

LEMMA DescStatus ==
  ASSUME TypeInv, NEW s \in {"ok", "failed"}, WriteDesc([desc EXCEPT !.status = s])
  PROVE  DescWritten(desc.phase, desc.raw)
<1> DEFINE o == [desc EXCEPT !.status = s]
<1>1. o \in Description /\ o.phase = desc.phase /\ o.raw = desc.raw
  BY StateFacts DEF Description
<1>2. WriteDesc(o)
  OBVIOUS
<1> HIDE DEF o
<1>. QED  BY <1>1, <1>2, WriteDescFacts DEF DescWritten

LEMMA DescGone ==
  ASSUME TypeInv, WriteDesc(NoDesc)
  PROVE  DescWritten("absent", Nothing)
<1>1. NoDesc \in Description /\ NoDesc.phase = "absent" /\ NoDesc.raw = Nothing
  BY ConfigAssumption DEF NoDesc, Description, Nothing, Raw, Content
<1>. QED  BY <1>1, WriteDescFacts DEF DescWritten

LEMMA HandleDeletingBaseFacts ==
  ASSUME TypeInv, HandleDeletingBase
  PROVE  /\ job[BaseKey] \in Job /\ job[BaseKey].base.phase = "deleting"
         /\ job' \in [Worker -> Job \cup {None}]
         /\ queue' \subseteq Feed \cup {BaseKey, DescKey}
         /\ desc' \in Description /\ descWatch' \in Seq(Description)
         /\ \A k \in Feed : job'[k] = job[k]
         /\ \/ /\ Requeue(BaseKey)
               /\ KeepDesc \/ (DescWritten("deleting", desc.raw) /\ desc.phase = "live")
            \/ /\ KeepDesc /\ queue' = queue
               /\ job'[BaseKey] # None /\ job'[BaseKey].pc = "release"
               /\ job'[BaseKey].base = job[BaseKey].base
<1>1. /\ BaseKey \in Worker /\ job[BaseKey] \in Job /\ job[BaseKey].base.phase = "deleting"
      /\ job[BaseKey].base \in Base /\ "release" \in Pc /\ job[BaseKey] # None
      /\ desc \in Description /\ descWatch \in Seq(Description)
      /\ queue \subseteq Feed \cup {BaseKey, DescKey}
      /\ \A k \in Feed : k \in Worker \ {BaseKey}
  BY StateFacts, JobFacts, ConfigAssumption DEF HandleDeletingBase, At, Worker, Pc
<1>2. CASE Exists(descCache)
  <2>1. KeepDesc \/ (WriteDesc([desc EXCEPT !.phase = "deleting"]) /\ desc.phase = "live")
    BY <1>2 DEF HandleDeletingBase
  <2>2. KeepDesc \/ (DescWritten("deleting", desc.raw) /\ desc.phase = "live")
    BY <2>1, DescPhase
  <2>3. Requeue(BaseKey)
    BY <1>2 DEF HandleDeletingBase
  <2>. QED  BY <1>1, <2>2, <2>3, EndFacts DEF KeepDesc, DescWritten
<1>3. CASE ~Exists(descCache)
  <2>1. KeepDesc /\ GoTo(BaseKey, "release", job[BaseKey].base)
    BY <1>3 DEF HandleDeletingBase
  <2>. QED  BY <1>1, <2>1, GoToFacts DEF KeepDesc
<1>. QED  BY <1>2, <1>3

LEMMA ReleaseBaseFacts ==
  ASSUME TypeInv, ReleaseBase
  PROVE  /\ job[BaseKey] \in Job /\ job[BaseKey].pc = "release"
         /\ base' \in Base /\ baseWatch' \in Seq(Base)
         /\ Done(BaseKey) \/ Requeue(BaseKey)
         /\ \/ KeepBase
            \/ BaseWritten("gone", base.uidLabel, base.feeds)
<1>1. /\ base \in Base /\ baseWatch \in Seq(Base)
      /\ job[BaseKey] \in Job /\ job[BaseKey].pc = "release"
  BY StateFacts DEF ReleaseBase, At, Worker
<1> DEFINE o == [base EXCEPT !.phase = "gone"]
<1>2. o \in Base /\ o.phase = "gone" /\ o.uidLabel = base.uidLabel /\ o.feeds = base.feeds
  BY <1>1 DEF Base
<1>3. (WriteBase(o) /\ Done(BaseKey)) \/ (KeepBase /\ Requeue(BaseKey))
  BY DEF ReleaseBase
<1> HIDE DEF o
<1>. QED  BY <1>1, <1>2, <1>3, WriteBaseFacts DEF BaseWritten, KeepBase

LEMMA ReportStatusFacts ==
  ASSUME TypeInv, ReportStatus
  PROVE  /\ deploy \in Deploy /\ deploy.todo = {} /\ deploy.desc.phase = "live"
         /\ desc' \in Description /\ descWatch' \in Seq(Description)
         /\ KeepDesc \/ (DescWritten(desc.phase, desc.raw) /\ AcceptsDesc)
         /\ deploy' = None
         /\ queue' \subseteq Feed \cup {BaseKey, DescKey}
         /\ IF AcceptsDesc /\ ~deploy.failed THEN queue' = queue
            ELSE queue' = queue \cup {DescKey}
<1> DEFINE status == IF deploy.failed THEN "failed" ELSE "ok"
<1>1. /\ deploy \in Deploy /\ desc \in Description /\ descWatch \in Seq(Description)
      /\ queue \subseteq Feed \cup {BaseKey, DescKey}
  BY StateFacts DEF ReportStatus
<1>2. (WriteDesc([desc EXCEPT !.status = status]) /\ AcceptsDesc) \/ KeepDesc
  BY DEF ReportStatus
<1>3. status \in {"ok", "failed"}
  OBVIOUS
<1>4. KeepDesc \/ (DescWritten(desc.phase, desc.raw) /\ AcceptsDesc)
  BY <1>2, <1>3, DescStatus
<1>. QED  BY <1>1, <1>4 DEF ReportStatus, Deployed, RedeployLater, KeepDesc, DescWritten

LEMMA ReleaseDescriptionFacts ==
  ASSUME TypeInv, ReleaseDescription
  PROVE  /\ deploy \in Deploy /\ deploy.todo = {} /\ deploy.desc.phase = "deleting"
         /\ desc' \in Description /\ descWatch' \in Seq(Description)
         /\ deploy' = None
         /\ queue' \in {queue, queue \cup {DescKey}}
         /\ queue' \subseteq Feed \cup {BaseKey, DescKey}
         /\ \/ KeepDesc
            \/ DescWritten("absent", Nothing) /\ AcceptsDesc /\ ~deploy.failed
<1>1. /\ deploy \in Deploy /\ desc \in Description /\ descWatch \in Seq(Description)
      /\ queue \subseteq Feed \cup {BaseKey, DescKey}
  BY StateFacts DEF ReleaseDescription
<1>2. (WriteDesc(NoDesc) /\ AcceptsDesc /\ ~deploy.failed) \/ KeepDesc
  BY DEF ReleaseDescription
<1>3. (DescWritten("absent", Nothing) /\ AcceptsDesc /\ ~deploy.failed) \/ KeepDesc
  BY <1>2, DescGone
<1>. QED  BY <1>1, <1>3 DEF ReleaseDescription, Deployed, RedeployLater, KeepDesc, DescWritten

LEMMA SyncResourceFacts ==
  ASSUME TypeInv, NEW f \in Feed, SyncResource(f)
  PROVE  /\ deploy \in Deploy /\ deploy' \in Deploy
         /\ deploy'.desc = deploy.desc /\ deploy'.failed = deploy.failed
         /\ f \in deploy.todo /\ deploy'.todo = deploy.todo \ {f}
         /\ child' \in Raw
         /\ child'[f] = IF deploy.desc.phase = "live" THEN deploy.desc.raw[f] ELSE 0
         /\ \A g \in Feed \ {f} : child'[g] = child[g]
<1>1. deploy \in Deploy /\ deploy.desc \in Description /\ child \in [Feed -> Content]
  BY StateFacts, DeployFacts DEF SyncResource
<1>2. /\ [deploy EXCEPT !.todo = @ \ {f}] \in Deploy
      /\ [deploy EXCEPT !.todo = @ \ {f}].desc = deploy.desc
      /\ [deploy EXCEPT !.todo = @ \ {f}].failed = deploy.failed
      /\ [deploy EXCEPT !.todo = @ \ {f}].todo = deploy.todo \ {f}
  BY <1>1 DEF Deploy
<1> DEFINE v == IF deploy.desc.phase = "live" THEN deploy.desc.raw[f] ELSE 0
<1>3. v \in Content
  BY <1>1, DescFacts, ConfigAssumption DEF Content
<1>4. /\ child' = [child EXCEPT ![f] = v] /\ deploy' = [deploy EXCEPT !.todo = @ \ {f}]
      /\ f \in deploy.todo
  BY DEF SyncResource
<1>5. /\ child' \in Raw /\ child'[f] = v
      /\ \A g \in Feed \ {f} : child'[g] = child[g]
  <2> HIDE DEF v
  <2>. QED  BY <1>1, <1>3, <1>4 DEF Raw
<1>. QED  BY <1>1, <1>2, <1>4, <1>5

LEMMA GetDescriptionFacts ==
  ASSUME TypeInv, GetDescription
  PROVE  /\ deploy = None /\ queue' = queue \ {DescKey}
         /\ deploy' \in Deploy \cup {None}
         /\ deploy' # None <=> Exists(descCache)
         /\ deploy' # None => /\ deploy'.desc = descCache /\ ~deploy'.failed
                              /\ deploy'.todo = In(descCache.raw)
<1> DEFINE d == [desc |-> descCache, todo |-> In(descCache.raw), failed |-> FALSE]
<1>1. d \in Deploy /\ d.desc = descCache /\ ~d.failed /\ d.todo = In(descCache.raw)
  BY StateFacts DEF Deploy, In
<1>2. deploy' = (IF Exists(descCache) THEN d ELSE None)
  BY DEF GetDescription
<1> HIDE DEF d
<1>. QED  BY <1>1, <1>2, DeployFacts DEF GetDescription

LEMMA GetBaseFacts ==
  ASSUME TypeInv, GetBase
  PROVE  /\ BaseKey \in Worker /\ job[BaseKey] = None /\ queue' = queue \ {BaseKey}
         /\ job' \in [Worker -> Job \cup {None}]
         /\ \A k \in Feed : job'[k] = job[k]
         /\ IF Exists(baseCache)
            THEN /\ job'[BaseKey] # None /\ job'[BaseKey].base = baseCache
                 /\ job'[BaseKey].pc = IF baseCache.uidLabel \/ baseCache.phase = "deleting"
                                       THEN "handle" ELSE "label"
            ELSE job'[BaseKey] = None
<1>1. BaseKey \in Worker /\ \A k \in Feed : k \in Worker \ {BaseKey}
  BY ConfigAssumption DEF Worker
<1>2. baseCache \in Base /\ baseCache.rv \in Nat
  BY StateFacts, BaseFacts
<1>3. CASE Exists(baseCache)
  <2> DEFINE pc == IF baseCache.uidLabel \/ baseCache.phase = "deleting" THEN "handle" ELSE "label"
  <2>1. Start(BaseKey, pc, baseCache, baseCache.rv) /\ pc \in Pc
    BY <1>3 DEF GetBase, Pc
  <2> HIDE DEF pc
  <2>2. /\ job' \in [Worker -> Job \cup {None}]
        /\ \A x \in Worker \ {BaseKey} : job'[x] = job[x]
        /\ job'[BaseKey] # None /\ job'[BaseKey].pc = pc /\ job'[BaseKey].base = baseCache
    BY <1>1, <1>2, <2>1, StartFacts
  <2>. QED  BY <1>1, <1>3, <2>2 DEF pc, GetBase
<1>4. CASE ~Exists(baseCache)
  BY <1>1, <1>4, StateFacts DEF GetBase
<1>. QED  BY <1>3, <1>4

LEMMA GetManifestFacts ==
  ASSUME TypeInv, NEW f \in Feed, GetManifest(f)
  PROVE  /\ f \in Worker /\ job[f] = None /\ f \in queue /\ queue' = queue \ {f}
         /\ job' \in [Worker -> Job \cup {None}]
         /\ \A k \in Worker \ {f} : job'[k] = job[k]
         /\ IF RefersToBase(f)
            THEN /\ job'[f] # None /\ job'[f].base = baseCache
                 /\ job'[f].pc = IF f \in baseCache.feeds THEN "gather" ELSE "unlabel"
            ELSE job'[f] = None
<1>1. f \in Worker
  BY DEF Worker
<1>2. baseCache \in Base /\ manifestCache[f].rv \in Nat
  BY StateFacts, ManifestFacts
<1>3. CASE RefersToBase(f)
  <2> DEFINE pc == IF f \in baseCache.feeds THEN "gather" ELSE "unlabel"
  <2>1. Start(f, pc, baseCache, manifestCache[f].rv) /\ pc \in Pc
    BY <1>3 DEF GetManifest, Pc
  <2> HIDE DEF pc
  <2>2. /\ job' \in [Worker -> Job \cup {None}]
        /\ \A x \in Worker \ {f} : job'[x] = job[x]
        /\ job'[f] # None /\ job'[f].pc = pc /\ job'[f].base = baseCache
    BY <1>1, <1>2, <2>1, StartFacts
  <2>. QED  BY <1>1, <1>3, <2>2 DEF pc, GetManifest
<1>4. CASE ~RefersToBase(f)
  BY <1>1, <1>4, StateFacts DEF GetManifest
<1>. QED  BY <1>3, <1>4

LEMMA AddLabelsFacts ==
  ASSUME TypeInv, AddLabelsToReferredFeeds
  PROVE  /\ job[BaseKey] \in Job /\ job[BaseKey].base.phase = "live"
         /\ job' \in [Worker -> Job \cup {None}] /\ queue' = queue
         /\ \A k \in Feed : job'[k] = job[k]
         /\ job'[BaseKey] # None /\ job'[BaseKey].pc = "gather"
         /\ job'[BaseKey].base = job[BaseKey].base
         /\ manifest' \in [Feed -> Manifest] /\ manifestWatch' \in [Feed -> Seq(Manifest)]
         /\ \A f \in Feed : /\ manifest'[f].content = manifest[f].content
                            /\ Unwritten(f) \/ Written(f)
<1>1. /\ BaseKey \in Worker /\ job[BaseKey] \in Job /\ job[BaseKey].base.phase = "live"
      /\ job[BaseKey].base \in Base /\ "gather" \in Pc /\ job[BaseKey] # None
      /\ \A k \in Feed : k \in Worker \ {BaseKey}
  BY StateFacts, JobFacts, ConfigAssumption DEF AddLabelsToReferredFeeds, At, Worker, Pc
<1>2. job[BaseKey].base.feeds \in SUBSET Feed
  BY <1>1, BaseFacts
<1>3. GoTo(BaseKey, "gather", job[BaseKey].base)
      /\ PatchManifestLabels(job[BaseKey].base.feeds, TRUE)
  BY DEF AddLabelsToReferredFeeds
<1>4. /\ manifest' \in [Feed -> Manifest] /\ manifestWatch' \in [Feed -> Seq(Manifest)]
      /\ \A f \in Feed : /\ manifest'[f].content = manifest[f].content
                         /\ Unwritten(f) \/ Written(f)
  BY <1>2, <1>3, PatchFacts
<1>. QED  BY <1>1, <1>3, <1>4, GoToFacts

LEMMA PruneLabelsFacts ==
  ASSUME TypeInv, NEW f \in Feed, PruneLabels(f)
  PROVE  /\ job[f] \in Job /\ job[f].pc = "unlabel" /\ f \in Worker
         /\ Done(f) \/ Requeue(f)
         /\ manifest' \in [Feed -> Manifest] /\ manifestWatch' \in [Feed -> Seq(Manifest)]
         /\ \A g \in Feed : /\ manifest'[g].content = manifest[g].content
                            /\ Unwritten(g) \/ Written(g)
<1>1. job[f] \in Job /\ job[f].pc = "unlabel" /\ f \in Worker
  BY StateFacts DEF PruneLabels, At, Worker
<1>2. CASE KeepManifests
  BY <1>1, <1>2, StateFacts DEF PruneLabels, KeepManifests, Unwritten
<1>3. CASE PatchManifestLabels({f}, FALSE)
  <2>1. /\ manifest' \in [Feed -> Manifest] /\ manifestWatch' \in [Feed -> Seq(Manifest)]
        /\ \A g \in Feed : /\ manifest'[g].content = manifest[g].content
                           /\ Unwritten(g) \/ Written(g)
    BY <1>3, PatchFacts
  <2>. QED  BY <1>1, <2>1 DEF PruneLabels
<1>. QED  BY <1>2, <1>3 DEF PruneLabels

LEMMA TypeBaseWork ==
  ASSUME TypeInv, BaseWork PROVE TypeInv'
<1> USE StateFacts, QuietFacts, TypeKept
    DEF apiVars, cacheVars, watchVars, KeepBase, KeepManifests, KeepDesc
<1>1. CASE GetBase
  <2>1. job' \in [Worker -> Job \cup {None}] /\ queue' = queue \ {BaseKey}
    BY <1>1, GetBaseFacts
  <2>. QED  BY <1>1, <2>1 DEF GetBase
<1>2. CASE PatchBaseLabels
  <2>1. /\ job' \in [Worker -> Job \cup {None}] /\ queue' \subseteq Feed \cup {BaseKey, DescKey}
        /\ base' \in Base /\ baseWatch' \in Seq(Base)
    BY <1>2, PatchBaseLabelsFacts
  <2>. QED  BY <1>2, <2>1 DEF PatchBaseLabels
<1>3. CASE HandleDeletingBase
  <2>1. /\ job' \in [Worker -> Job \cup {None}] /\ queue' \subseteq Feed \cup {BaseKey, DescKey}
        /\ desc' \in Description /\ descWatch' \in Seq(Description)
    BY <1>3, HandleDeletingBaseFacts
  <2>. QED  BY <1>3, <2>1 DEF HandleDeletingBase
<1>4. CASE ReleaseBase
  <2>1. base' \in Base /\ baseWatch' \in Seq(Base) /\ (Done(BaseKey) \/ Requeue(BaseKey))
    BY <1>4, ReleaseBaseFacts
  <2>2. job' \in [Worker -> Job \cup {None}] /\ queue' \subseteq Feed \cup {BaseKey, DescKey}
    BY <2>1, EndFacts DEF Worker
  <2>. QED  BY <1>4, <2>1, <2>2 DEF ReleaseBase
<1>5. CASE AddLabelsToReferredFeeds
  <2>1. /\ job' \in [Worker -> Job \cup {None}] /\ queue' = queue
        /\ manifest' \in [Feed -> Manifest] /\ manifestWatch' \in [Feed -> Seq(Manifest)]
        /\ \A f \in Feed : manifest'[f].content = manifest[f].content
    BY <1>5, AddLabelsFacts
  <2>. QED  BY <1>5, <2>1 DEF AddLabelsToReferredFeeds
<1>6. ASSUME NEW k \in Worker, GatherManifests(k) PROVE TypeInv'
  <2>1. job' \in [Worker -> Job \cup {None}]
    BY <1>6, GatherFacts
  <2>. QED  BY <1>6, <2>1 DEF GatherManifests
<1>7. ASSUME NEW k \in Worker, SyncDescriptions(k) PROVE TypeInv'
  <2>1. /\ desc' \in Description /\ descWatch' \in Seq(Description)
        /\ Done(k) \/ Requeue(k)
        /\ prune' \in [SUBSET Feed -> 0..MaxPrune]
    BY <1>7, SyncDescriptionsFacts
  <2>2. job' \in [Worker -> Job \cup {None}] /\ queue' \subseteq Feed \cup {BaseKey, DescKey}
    BY <2>1, EndFacts
  <2>. QED  BY <1>7, <2>1, <2>2 DEF SyncDescriptions
<1>. QED  BY <1>1, <1>2, <1>3, <1>4, <1>5, <1>6, <1>7 DEF BaseWork, Worker

LEMMA TypeManifestWork ==
  ASSUME TypeInv, NEW f \in Feed, ManifestWork(f) PROVE TypeInv'
<1> USE StateFacts, QuietFacts, TypeKept
    DEF apiVars, cacheVars, watchVars, KeepBase, KeepManifests, KeepDesc
<1>1. CASE GetManifest(f)
  <2>1. job' \in [Worker -> Job \cup {None}] /\ queue' = queue \ {f}
    BY <1>1, GetManifestFacts
  <2>. QED  BY <1>1, <2>1 DEF GetManifest
<1>2. CASE PruneLabels(f)
  <2>1. /\ manifest' \in [Feed -> Manifest] /\ manifestWatch' \in [Feed -> Seq(Manifest)]
        /\ \A g \in Feed : manifest'[g].content = manifest[g].content
        /\ f \in Worker /\ (Done(f) \/ Requeue(f))
    BY <1>2, PruneLabelsFacts
  <2>2. job' \in [Worker -> Job \cup {None}] /\ queue' \subseteq Feed \cup {BaseKey, DescKey}
    BY <2>1, EndFacts
  <2>. QED  BY <1>2, <2>1, <2>2 DEF PruneLabels
<1>3. CASE GatherManifests(f)
  <2>1. job' \in [Worker -> Job \cup {None}]
    BY <1>3, GatherFacts DEF Worker
  <2>2. UNCHANGED <<base, manifest, desc, baseCache, manifestCache, descCache, baseWatch,
                    manifestWatch, descWatch, queue, deploy, prune, child, scenario>>
    BY <1>3 DEF GatherManifests
  <2>. QED  BY <2>1, <2>2
<1>4. CASE SyncDescriptions(f)
  <2>1. /\ desc' \in Description /\ descWatch' \in Seq(Description) /\ f \in Worker
        /\ Done(f) \/ Requeue(f)
        /\ prune' \in [SUBSET Feed -> 0..MaxPrune]
    BY <1>4, SyncDescriptionsFacts DEF Worker
  <2>2. job' \in [Worker -> Job \cup {None}] /\ queue' \subseteq Feed \cup {BaseKey, DescKey}
    BY <2>1, EndFacts
  <2>. QED  BY <1>4, <2>1, <2>2 DEF SyncDescriptions
<1>. QED  BY <1>1, <1>2, <1>3, <1>4 DEF ManifestWork

PruneSome == \E fs \in SUBSET Feed : PruneFeeds(fs)

LEMMA TypeDescWork ==
  ASSUME TypeInv, DescWork \/ CollectDescription \/ PruneSome PROVE TypeInv'
<1> USE StateFacts, QuietFacts, TypeKept
    DEF apiVars, cacheVars, watchVars, workVars, KeepBase, KeepManifests, KeepDesc
<1>1. CASE GetDescription
  <2>1. deploy' \in Deploy \cup {None} /\ queue' = queue \ {DescKey}
    BY <1>1, GetDescriptionFacts
  <2>. QED  BY <1>1, <2>1 DEF GetDescription
<1>2. CASE ReportStatus
  <2>1. /\ desc' \in Description /\ descWatch' \in Seq(Description)
        /\ deploy' = None /\ queue' \subseteq Feed \cup {BaseKey, DescKey}
    BY <1>2, ReportStatusFacts
  <2>. QED  BY <1>2, <2>1 DEF ReportStatus
<1>3. CASE ReleaseDescription
  <2>1. /\ desc' \in Description /\ descWatch' \in Seq(Description)
        /\ deploy' = None /\ queue' \subseteq Feed \cup {BaseKey, DescKey}
    BY <1>3, ReleaseDescriptionFacts
  <2>. QED  BY <1>3, <2>1 DEF ReleaseDescription
<1>4. ASSUME NEW f \in Feed, SyncResource(f) PROVE TypeInv'
  <2>1. deploy' \in Deploy /\ child' \in Raw
    BY <1>4, SyncResourceFacts
  <2>. QED  BY <1>4, <2>1 DEF SyncResource
<1>5. CASE CollectDescription
  <2>1. desc' \in Description /\ descWatch' \in Seq(Description)
    BY <1>5, DescPhase DEF CollectDescription, DescWritten
  <2>. QED  BY <1>5, <2>1 DEF CollectDescription
<1>6. ASSUME NEW fs \in SUBSET Feed, PruneFeeds(fs) PROVE TypeInv'
  <2>1. child' \in Raw
    BY <1>6, ConfigAssumption DEF PruneFeeds, Without, Raw, Content
  <2>2. prune[fs] - 1 \in 0..MaxPrune
    <3>1. prune[fs] \in 0..MaxPrune /\ prune[fs] > 0
      BY <1>6 DEF PruneFeeds
    <3>. QED  BY <3>1, ConfigAssumption
  <2>3. prune' \in [SUBSET Feed -> 0..MaxPrune]
    BY <1>6, <2>2 DEF PruneFeeds
  <2>. QED  BY <1>6, <2>1, <2>3 DEF PruneFeeds
<1>. QED  BY <1>1, <1>2, <1>3, <1>4, <1>5, <1>6 DEF DescWork, PruneSome

LEMMA TypeInit == Init => TypeInv
<1> SUFFICES ASSUME Init PROVE TypeInv
  OBVIOUS
<1>1. scenario \in ScenarioType /\ scenario.left \in 0..MaxEvents /\ scenario.left \in Nat
  BY ConfigAssumption DEF Init, ScenarioType
<1>2. scenario.feeds \subseteq Feed
  BY <1>1 DEF ScenarioType
<1>3. 1 \in Content /\ 0 \in Content /\ Nothing \in Raw /\ FirstRaw \in Raw
  BY ConfigAssumption DEF Content, Nothing, FirstRaw, Raw
<1>4. NewManifest \in Manifest /\ NewManifest.content = 1
  BY <1>3 DEF NewManifest, Manifest
<1>5. NewBase \in Base
  BY <1>2 DEF NewBase, Base
<1>6. /\ [NewBase EXCEPT !.phase = "absent", !.rv = 0] \in Base
      /\ [NewBase EXCEPT !.uidLabel = TRUE] \in Base
  BY <1>5 DEF Base
<1>7. \A b \in BOOLEAN : /\ [NewManifest EXCEPT !.labelled = b] \in Manifest
                         /\ [NewManifest EXCEPT !.labelled = b].content = 1
  BY <1>4 DEF Manifest
<1>8. NoDesc \in Description
      /\ [phase |-> "live", rv |-> 1, raw |-> FirstRaw, status |-> "ok"] \in Description
  BY <1>3 DEF NoDesc, Description
<1>9. /\ base \in Base /\ baseCache \in Base /\ baseWatch \in Seq(Base)
      /\ manifest \in [Feed -> Manifest] /\ \A f \in Feed : manifest[f].content = 1
      /\ desc \in Description /\ child \in Raw
  <2>1. CASE scenario.settled
    <3>1. InitSettled
      BY <2>1 DEF Init
    <3>2. manifest \in [Feed -> Manifest] /\ \A f \in Feed : manifest[f].content = 1
      <4> DEFINE M(b) == [NewManifest EXCEPT !.labelled = b]
      <4>1. \A b \in BOOLEAN : M(b) \in Manifest /\ M(b).content = 1
        BY <1>7
      <4>2. manifest = [f \in Feed |-> M(f \in scenario.feeds)]
        BY <3>1 DEF InitSettled
      <4> HIDE DEF M
      <4>3. ASSUME NEW f \in Feed
            PROVE  M(f \in scenario.feeds) \in Manifest /\ M(f \in scenario.feeds).content = 1
        <5>1. (f \in scenario.feeds) \in BOOLEAN
          OBVIOUS
        <5>. QED  BY <4>1, <5>1
      <4>. QED  BY <4>2, <4>3
    <3>3. desc \in Description /\ child \in Raw
      BY <1>3, <1>8, <3>1 DEF InitSettled
    <3>4. base \in Base /\ baseCache \in Base /\ baseWatch \in Seq(Base)
      BY <1>6, <3>1 DEF InitSettled
    <3>. QED  BY <3>2, <3>3, <3>4
  <2>2. CASE ~scenario.settled
    <3>1. InitNew
      BY <2>2 DEF Init
    <3>2. base \in Base /\ baseCache \in Base /\ baseWatch = <<base>>
      BY <1>5, <1>6, <3>1 DEF InitNew
    <3>3. baseWatch \in Seq(Base)
      BY <3>2
    <3>4. desc \in Description /\ child \in Raw
      BY <1>3, <1>8, <3>1 DEF InitNew
    <3>5. manifest = [f \in Feed |-> NewManifest]
      BY <3>1 DEF InitNew
    <3>. QED  BY <1>4, <3>2, <3>3, <3>4, <3>5
  <2>. QED  BY <2>1, <2>2
<1>10. prune \in [SUBSET Feed -> 0..MaxPrune]
  BY ConfigAssumption DEF Init
<1>11. TypeOK
  <2>1. /\ manifestCache = manifest /\ manifestWatch = [f \in Feed |-> <<>>]
        /\ descCache = desc /\ descWatch = <<>> /\ queue = {} /\ deploy = None
        /\ job = [k \in Feed \cup {BaseKey} |-> None]
    BY DEF Init
  <2>2. /\ manifestWatch \in [Feed -> Seq(Manifest)] /\ descWatch \in Seq(Description)
        /\ job \in [Feed \cup {BaseKey} -> Job \cup {None}]
    BY <2>1
  <2>. QED  BY <1>1, <1>9, <1>10, <2>1, <2>2 DEF TypeOK
<1>12. \A f \in Feed : manifest[f].content + scenario.left <= MaxEvents + 1
  <2>1. 1 + scenario.left <= MaxEvents + 1
    BY <1>1, ConfigAssumption
  <2>. QED  BY <1>9, <2>1
<1>. QED  BY <1>1, <1>11, <1>12 DEF TypeInv

LEMMA TypeNext == TypeInv /\ [Next]_vars => TypeInv'
<1> SUFFICES ASSUME TypeInv, [Next]_vars PROVE TypeInv'
  OBVIOUS
<1>1. CASE UNCHANGED vars
  BY <1>1 DEF vars, apiVars, cacheVars, watchVars, workVars, TypeInv, TypeOK
<1>2. CASE Next
  BY <1>2, TypeUsers, TypeInformers, TypeBaseWork, TypeManifestWork, TypeDescWork
     DEF Next, PruneSome
<1>. QED  BY <1>1, <1>2

(* Every reachable state of the Base, the Manifests, the Description, the  *)
(* caches, the three controllers and the child cluster is well typed.      *)
THEOREM DescSyncTypeCorrect == Spec => []TypeOK
<1>1. TypeInv => TypeOK
  BY DEF TypeInv
<1>. QED  BY <1>1, TypeInit, TypeNext, PTL DEF Spec

-----------------------------------------------------------------------------
(* Versions.  The steps of an informer and of what it watches: nothing, a  *)
(* write, a delivery, a restart.                                           *)

BaseEffect ==
  \/ UNCHANGED <<base, baseCache, baseWatch>>
  \/ baseCache' = baseCache /\ base' \in Base /\ baseWatch' = Append(baseWatch, base')
  \/ /\ baseWatch # <<>> /\ base' = base
     /\ baseCache' = Head(baseWatch) /\ baseWatch' = Tail(baseWatch)
  \/ base' = base /\ baseCache' = base /\ baseWatch' = <<>>

ManifestEffect(f) ==
  \/ Unwritten(f) /\ manifestCache'[f] = manifestCache[f]
  \/ Written(f) /\ manifestCache'[f] = manifestCache[f]
  \/ /\ manifestWatch[f] # <<>> /\ manifest'[f] = manifest[f]
     /\ manifestCache'[f] = Head(manifestWatch[f])
     /\ manifestWatch'[f] = Tail(manifestWatch[f])
  \/ /\ manifest'[f] = manifest[f] /\ manifestCache'[f] = manifest[f]
     /\ manifestWatch'[f] = <<>>

DescEffect ==
  \/ UNCHANGED <<desc, descCache, descWatch>>
  \/ /\ descCache' = descCache /\ desc' \in Description /\ desc'.rv = desc.rv + 1
     /\ descWatch' = Append(descWatch, desc')
  \/ /\ descWatch # <<>> /\ desc' = desc
     /\ descCache' = Head(descWatch) /\ descWatch' = Tail(descWatch)
  \/ desc' = desc /\ descCache' = desc /\ descWatch' = <<>> /\ deploy' = None

DeployEffect ==
  deploy' # None => \/ deploy # None /\ deploy'.desc = deploy.desc
                    \/ Exists(descCache) /\ deploy'.desc = descCache /\ descCache' = descCache

Effect == BaseEffect /\ (\A f \in Feed : ManifestEffect(f)) /\ DescEffect /\ DeployEffect

LEMMA EffectUsers ==
  ASSUME TypeInv, Environment PROVE Effect
<1> USE DEF apiVars, cacheVars, watchVars, workVars, KeepBase, KeepManifests, KeepDesc,
            Effect, BaseEffect, DescEffect, DeployEffect
<1>1. ASSUME NEW fs \in SUBSET Feed, EditFeeds(fs) PROVE Effect
  BY <1>1, EditFeedsFacts DEF BaseWritten, EditFeeds, ManifestEffect, Unwritten
<1>2. ASSUME NEW f \in Feed, EditManifest(f) PROVE Effect
  BY <1>2, EditManifestFacts DEF EditManifest, ManifestEffect
<1>3. ASSUME DeleteBase PROVE Effect
  BY <1>3, DeleteBaseFacts DEF BaseWritten, DeleteBase, ManifestEffect
<1>4. ASSUME Restart PROVE Effect
  BY <1>4 DEF Restart, ManifestEffect
<1>5. ASSUME RequestFails PROVE Effect
  <2>1. UNCHANGED <<base, baseWatch, desc, descWatch, baseCache, manifestCache, descCache>>
    BY <1>5 DEF RequestFails
  <2>2. ASSUME NEW f \in Feed PROVE ManifestEffect(f)
    <3>1. CASE KeepManifests
      BY <2>1, <3>1 DEF ManifestEffect, Unwritten
    <3>2. ASSUME NEW k \in DOMAIN job, job[k] # None,
                 NEW part \in SUBSET job[k].base.feeds, PatchManifestLabels(part, TRUE)
          PROVE  ManifestEffect(f)
      <4>1. part \in SUBSET Feed
        BY <3>2, StateFacts, JobFacts, BaseFacts
      <4>. QED  BY <2>1, <3>2, <4>1, PatchFacts DEF ManifestEffect
    <3>. QED  BY <1>5, <3>1, <3>2 DEF RequestFails
  <2>3. DeployEffect
    <3>1. CASE UNCHANGED deploy \/ deploy' = None
      BY <3>1
    <3>2. ASSUME deploy # None, NEW f \in deploy.todo,
                 deploy' = [deploy EXCEPT !.todo = @ \ {f}, !.failed = TRUE]
          PROVE  DeployEffect
      <4>1. deploy \in Deploy
        BY <3>2, StateFacts
      <4>. QED  BY <3>2, <4>1 DEF Deploy
    <3>. QED  BY <1>5, <3>1, <3>2 DEF RequestFails, RedeployLater
  <2>. QED  BY <2>1, <2>2, <2>3
<1>. QED  BY <1>1, <1>2, <1>3, <1>4, <1>5 DEF Environment

LEMMA EffectInformers ==
  ASSUME TypeInv, Informers PROVE Effect
<1> USE DEF apiVars, Effect, BaseEffect, DescEffect, DeployEffect, ManifestEffect, Unwritten
<1>1. CASE SyncBase
  BY <1>1 DEF SyncBase
<1>2. CASE SyncDesc
  BY <1>2 DEF SyncDesc
<1>3. ASSUME NEW f \in Feed, SyncManifest(f) PROVE Effect
  <2>1. /\ manifestCache' = [manifestCache EXCEPT ![f] = Head(manifestWatch[f])]
        /\ manifestWatch' = [manifestWatch EXCEPT ![f] = Tail(@)]
        /\ manifestWatch[f] # <<>>
    BY <1>3 DEF SyncManifest
  <2>2. ASSUME NEW g \in Feed PROVE ManifestEffect(g)
    BY <1>3, <2>1, StateFacts DEF SyncManifest
  <2>. QED  BY <1>3, <2>2 DEF SyncManifest
<1>. QED  BY <1>1, <1>2, <1>3 DEF Informers

LEMMA EffectWork ==
  ASSUME TypeInv, BaseWork \/ (\E f \in Feed : ManifestWork(f)) PROVE Effect
<1> USE DEF apiVars, cacheVars, watchVars, KeepBase, KeepManifests, KeepDesc,
            Effect, BaseEffect, DescEffect, DeployEffect, ManifestEffect
<1>1. CASE GetBase
  BY <1>1 DEF GetBase, Unwritten
<1>2. CASE PatchBaseLabels
  BY <1>2, PatchBaseLabelsFacts DEF PatchBaseLabels, BaseWritten, Unwritten
<1>3. CASE HandleDeletingBase
  BY <1>3, HandleDeletingBaseFacts DEF HandleDeletingBase, DescWritten, Unwritten
<1>4. CASE ReleaseBase
  BY <1>4, ReleaseBaseFacts DEF ReleaseBase, BaseWritten, Unwritten
<1>5. CASE AddLabelsToReferredFeeds
  BY <1>5, AddLabelsFacts DEF AddLabelsToReferredFeeds
<1>6. ASSUME NEW k \in Worker, GatherManifests(k) PROVE Effect
  BY <1>6 DEF GatherManifests, Unwritten
<1>7. ASSUME NEW k \in Worker, SyncDescriptions(k) PROVE Effect
  BY <1>7, SyncDescriptionsFacts DEF SyncDescriptions, Unwritten
<1>8. ASSUME NEW f \in Feed, GetManifest(f) PROVE Effect
  BY <1>8 DEF GetManifest, Unwritten
<1>9. ASSUME NEW f \in Feed, PruneLabels(f) PROVE Effect
  BY <1>9, PruneLabelsFacts DEF PruneLabels
<1>. QED  BY <1>1, <1>2, <1>3, <1>4, <1>5, <1>6, <1>7, <1>8, <1>9
          DEF BaseWork, ManifestWork, Worker

LEMMA EffectDesc ==
  ASSUME TypeInv, DescWork \/ CollectDescription \/ PruneSome PROVE Effect
<1> USE DEF apiVars, cacheVars, watchVars, workVars, KeepBase, KeepManifests, KeepDesc,
            Effect, BaseEffect, DescEffect, DeployEffect, ManifestEffect, Unwritten
<1>1. CASE GetDescription
  BY <1>1, GetDescriptionFacts DEF GetDescription
<1>2. CASE ReportStatus
  BY <1>2, ReportStatusFacts DEF ReportStatus, DescWritten
<1>3. CASE ReleaseDescription
  BY <1>3, ReleaseDescriptionFacts DEF ReleaseDescription, DescWritten
<1>4. ASSUME NEW f \in Feed, SyncResource(f) PROVE Effect
  BY <1>4, SyncResourceFacts DEF SyncResource
<1>5. CASE CollectDescription
  BY <1>5, DescPhase DEF CollectDescription, DescWritten
<1>6. ASSUME NEW fs \in SUBSET Feed, PruneFeeds(fs) PROVE Effect
  BY <1>6 DEF PruneFeeds
<1>. QED  BY <1>1, <1>2, <1>3, <1>4, <1>5, <1>6 DEF DescWork, PruneSome

LEMMA Effects ==
  ASSUME TypeInv, Next PROVE Effect
BY EffectUsers, EffectInformers, EffectWork, EffectDesc DEF Next, PruneSome

LEMMA FollowsAppend ==
  ASSUME NEW S, NEW w \in Seq(S), NEW s \in S, NEW k
  PROVE  Follows(k, Append(w, s), s)
BY DEF Follows

LEMMA FollowsTail ==
  ASSUME NEW S, NEW w \in Seq(S), w # <<>>, NEW k, NEW s, Follows(k, w, s)
  PROVE  Follows(Head(w), Tail(w), s)
<1>1. /\ Len(w) \in Nat \ {0} /\ Len(Tail(w)) = Len(w) - 1 /\ Head(w) = w[1] /\ w[Len(w)] = s
      /\ Tail(w) \in Seq(S)
  BY DEF Follows
<1>2. CASE Len(Tail(w)) = 0
  <2> DEFINE n == Len(w)
             m == Len(Tail(w))
  <2>1. n = 1
    <3>1. n \in Nat /\ m = n - 1 /\ m = 0
      BY <1>1, <1>2
    <3> HIDE DEF n, m
    <3>. QED  BY <3>1
  <2>. QED  BY <1>1, <1>2, <2>1 DEF Follows
<1>3. CASE Len(Tail(w)) # 0
  <2>1. Len(Tail(w)) \in 1..Len(Tail(w))
    BY <1>1, <1>3
  <2>2. Tail(w)[Len(Tail(w))] = w[Len(w)]
    BY <1>1, <2>1
  <2>. QED  BY <1>1, <1>3, <2>2 DEF Follows
<1>. QED  BY <1>2, <1>3

LEMMA TailFacts ==
  ASSUME NEW S, NEW w \in Seq(S), w # <<>>
  PROVE  /\ 1 \in DOMAIN w /\ Head(w) = w[1] /\ Head(w) \in S /\ Tail(w) \in Seq(S)
         /\ \A i \in DOMAIN Tail(w) : i \in Nat /\ i + 1 \in DOMAIN w /\ Tail(w)[i] = w[i + 1]
                                      /\ 1 < i + 1
OBVIOUS

LEMMA AppendFacts ==
  ASSUME NEW S, NEW w \in Seq(S), NEW s \in S
  PROVE  /\ Len(w) + 1 \in DOMAIN Append(w, s)
         /\ \A i \in DOMAIN Append(w, s) : i \in Nat /\ i <= Len(w) + 1
         /\ \A i \in DOMAIN Append(w, s) : i # Len(w) + 1 =>
              i \in DOMAIN w /\ Append(w, s)[i] = w[i]
         /\ Append(w, s)[Len(w) + 1] = s
OBVIOUS

LEMMA VersionNext ==
  ASSUME TypeInv, VersionInv, Effect, TypeInv' PROVE VersionInv'
<1>1. Follows(baseCache, baseWatch, base)'
  <2>1. BaseEffect /\ Follows(baseCache, baseWatch, base) /\ baseWatch \in Seq(Base)
    BY StateFacts DEF Effect, VersionInv
  <2>2. CASE UNCHANGED <<base, baseCache, baseWatch>>
    BY <2>1, <2>2
  <2>3. CASE base' \in Base /\ baseWatch' = Append(baseWatch, base')
    BY <2>1, <2>3, FollowsAppend
  <2>4. CASE /\ baseWatch # <<>> /\ base' = base
             /\ baseCache' = Head(baseWatch) /\ baseWatch' = Tail(baseWatch)
    BY <2>1, <2>4, FollowsTail
  <2>5. CASE base' = base /\ baseCache' = base /\ baseWatch' = <<>>
    BY <2>5 DEF Follows
  <2>. QED  BY <2>1, <2>2, <2>3, <2>4, <2>5 DEF BaseEffect
<1>2. ASSUME NEW f \in Feed PROVE Follows(manifestCache[f], manifestWatch[f], manifest[f])'
  <2>1. ManifestEffect(f) /\ Follows(manifestCache[f], manifestWatch[f], manifest[f])
        /\ manifestWatch[f] \in Seq(Manifest)
    BY StateFacts DEF Effect, VersionInv
  <2>2. CASE Written(f)
    BY <2>1, <2>2, FollowsAppend DEF Written
  <2>3. CASE Unwritten(f) /\ manifestCache'[f] = manifestCache[f]
    BY <2>1, <2>3 DEF Unwritten
  <2>4. CASE /\ manifestWatch[f] # <<>> /\ manifest'[f] = manifest[f]
             /\ manifestCache'[f] = Head(manifestWatch[f])
             /\ manifestWatch'[f] = Tail(manifestWatch[f])
    BY <2>1, <2>4, FollowsTail
  <2>5. CASE /\ manifest'[f] = manifest[f] /\ manifestCache'[f] = manifest[f]
             /\ manifestWatch'[f] = <<>>
    BY <2>5 DEF Follows
  <2>. QED  BY <2>1, <2>2, <2>3, <2>4, <2>5 DEF ManifestEffect
<1>3. /\ desc \in Description /\ descCache \in Description /\ descWatch \in Seq(Description)
      /\ desc.rv \in Nat /\ descCache.rv \in Nat
      /\ \A i \in DOMAIN descWatch : descWatch[i].rv \in Nat
      /\ deploy # None => deploy.desc.rv \in Nat
  BY StateFacts, DescFacts, DeployFacts
<1>4. DescVersions /\ DescEffect /\ DeployEffect
  BY DEF VersionInv, Effect
<1>5. DescVersions' /\ Behind(descCache, descCache')
  <2>1. CASE UNCHANGED <<desc, descCache, descWatch>>
    <3>1. DescVersions'
      BY <1>4, <2>1 DEF DescVersions
    <3>. QED  BY <1>3, <2>1, <3>1 DEF Behind
  <2>2. CASE /\ descCache' = descCache /\ desc' \in Description /\ desc'.rv = desc.rv + 1
             /\ descWatch' = Append(descWatch, desc')
    <3>1. Follows(descCache, descWatch, desc)'
      BY <1>3, <2>2, FollowsAppend
    <3>2. Behind(descCache, desc)' /\ Behind(descCache, descCache')
          /\ Behind(desc', desc')
      BY <1>3, <1>4, <2>2 DEF DescVersions, Behind
    <3>3. \A i \in DOMAIN descWatch : /\ Behind(descCache, descWatch[i])
                                      /\ Behind(descWatch[i], desc')
      BY <1>3, <1>4, <2>2 DEF DescVersions, Behind
    <3>4. ASSUME NEW i \in DOMAIN descWatch'
          PROVE  Behind(descCache', descWatch'[i]) /\ Behind(descWatch'[i], desc')
      BY <1>3, <2>2, <3>2, <3>3, AppendFacts
    <3>5. ASSUME NEW i \in DOMAIN descWatch', NEW j \in DOMAIN descWatch', i < j
          PROVE  Behind(descWatch'[i], descWatch'[j])
      <4>1. /\ i \in Nat /\ j \in Nat /\ j <= Len(descWatch) + 1 /\ i # Len(descWatch) + 1
            /\ Len(descWatch) \in Nat
        BY <1>3, <2>2, <3>5, AppendFacts
      <4>2. i \in DOMAIN descWatch /\ descWatch'[i] = descWatch[i]
        BY <1>3, <2>2, <4>1, AppendFacts
      <4>3. CASE j = Len(descWatch) + 1
        BY <1>3, <2>2, <3>3, <4>2, <4>3, AppendFacts
      <4>4. CASE j # Len(descWatch) + 1
        <5>1. j \in DOMAIN descWatch /\ descWatch'[j] = descWatch[j]
          BY <1>3, <2>2, <4>4, AppendFacts
        <5>. QED  BY <1>4, <3>5, <4>2, <5>1 DEF DescVersions
      <4>. QED  BY <4>3, <4>4
    <3>. QED  BY <3>1, <3>2, <3>4, <3>5 DEF DescVersions
  <2>3. CASE /\ descWatch # <<>> /\ desc' = desc
             /\ descCache' = Head(descWatch) /\ descWatch' = Tail(descWatch)
    <3>1. Follows(descCache, descWatch, desc)'
      BY <1>3, <1>4, <2>3, FollowsTail DEF DescVersions
    <3>2. 1 \in DOMAIN descWatch /\ descCache' = descWatch[1]
      BY <1>3, <2>3, TailFacts
    <3>3. Behind(descCache', desc') /\ Behind(descCache, descCache')
      BY <1>4, <2>3, <3>2 DEF DescVersions
    <3>4. ASSUME NEW i \in DOMAIN descWatch'
          PROVE  /\ Behind(descCache', descWatch'[i]) /\ Behind(descWatch'[i], desc')
                 /\ \A j \in DOMAIN descWatch' : i < j => Behind(descWatch'[i], descWatch'[j])
      <4>1. i \in Nat /\ i + 1 \in DOMAIN descWatch /\ descWatch'[i] = descWatch[i + 1] /\ 1 < i + 1
        BY <1>3, <2>3, TailFacts
      <4>2. Behind(descCache', descWatch'[i]) /\ Behind(descWatch'[i], desc')
        BY <1>4, <2>3, <3>2, <4>1 DEF DescVersions
      <4>3. ASSUME NEW j \in DOMAIN descWatch', i < j
            PROVE  Behind(descWatch'[i], descWatch'[j])
        <5>1. /\ j \in Nat /\ j + 1 \in DOMAIN descWatch /\ descWatch'[j] = descWatch[j + 1]
              /\ i + 1 < j + 1
          BY <1>3, <2>3, <4>1, <4>3, TailFacts
        <5>. QED  BY <1>4, <4>1, <5>1 DEF DescVersions
      <4>. QED  BY <4>2, <4>3
    <3>. QED  BY <3>1, <3>3, <3>4 DEF DescVersions
  <2>4. CASE desc' = desc /\ descCache' = desc /\ descWatch' = <<>>
    BY <1>3, <1>4, <2>4 DEF DescVersions, Behind, Follows
  <2>. QED  BY <1>4, <2>1, <2>2, <2>3, <2>4 DEF DescEffect
<1>6. deploy' # None => Exists(deploy'.desc) /\ Behind(deploy'.desc, descCache')
  <2>1. CASE deploy' # None /\ deploy # None /\ deploy'.desc = deploy.desc
    <3>1. Exists(deploy.desc) /\ Behind(deploy.desc, descCache)
      BY <2>1 DEF VersionInv
    <3>2. descCache'.rv \in Nat
      BY StateFacts, DescFacts, <1>4, <1>3 DEF DescEffect
    <3>. QED  BY <1>3, <1>5, <2>1, <3>1, <3>2 DEF Behind
  <2>2. CASE deploy' # None /\ Exists(descCache) /\ deploy'.desc = descCache
             /\ descCache' = descCache
    BY <1>3, <2>2 DEF Behind
  <2>. QED  BY <1>4, <2>1, <2>2 DEF DeployEffect
<1>. QED  BY <1>1, <1>2, <1>5, <1>6 DEF VersionInv, Exists

LEMMA VersionInit == ASSUME Init, TypeInv PROVE VersionInv
<1>1. Follows(baseCache, baseWatch, base)
  BY DEF Init, InitNew, InitSettled, Follows
<1>2. desc.rv \in Nat
  BY StateFacts, DescFacts
<1>3. DescVersions
  BY <1>2 DEF Init, DescVersions, Follows, Behind
<1>. QED  BY <1>1, <1>3 DEF Init, VersionInv, Follows

LEMMA ScenarioKept ==
  ASSUME TypeInv, Next PROVE SameScenario
<1>1. UNCHANGED scenario \/ \E kind : Event(kind)
  <2>1. CASE Environment
    BY <2>1 DEF Environment, EditFeeds, EditManifest, DeleteBase, RequestFails, Restart
  <2>2. CASE Informers
    BY <2>2 DEF Informers, SyncBase, SyncDesc, SyncManifest
  <2>3. CASE BaseWork
    BY <2>3 DEF BaseWork, GetBase, PatchBaseLabels, HandleDeletingBase, ReleaseBase,
                AddLabelsToReferredFeeds, GatherManifests, SyncDescriptions
  <2>4. CASE \E f \in Feed : ManifestWork(f)
    BY <2>4 DEF ManifestWork, GetManifest, PruneLabels, GatherManifests, SyncDescriptions
  <2>5. CASE DescWork
    BY <2>5 DEF DescWork, GetDescription, ReportStatus, ReleaseDescription, SyncResource
  <2>6. CASE (\E fs \in SUBSET Feed : PruneFeeds(fs)) \/ CollectDescription
    BY <2>6 DEF PruneFeeds, CollectDescription
  <2>. QED  BY <2>1, <2>2, <2>3, <2>4, <2>5, <2>6 DEF Next
<1>. QED  BY <1>1, EventFacts, QuietFacts

-----------------------------------------------------------------------------
(* Phases.                                                                 *)

LiveJob(j) == j # None => j.base.phase = "live" /\ j.pc # "release"

LEMMA AliveFrame ==
  ASSUME TypeInv, Effect, Alive, base'.phase = "live",
         \A k \in Worker : LiveJob(job'[k]),
         desc' = desc \/ desc'.phase = "live"
  PROVE  Alive'
<1>1. /\ baseWatch \in Seq(Base) /\ descWatch \in Seq(Description)
      /\ desc \in Description /\ descCache \in Description
      /\ desc.phase \in {"absent", "live", "deleting"}
      /\ descCache.phase \in {"absent", "live", "deleting"}
  BY StateFacts, DescFacts
<1>2. /\ baseCache'.phase \in {"absent", "live"}
      /\ \A i \in DOMAIN baseWatch' : baseWatch'[i].phase = "live"
  <2>1. BaseEffect
    BY DEF Effect
  <2>2. CASE UNCHANGED <<base, baseCache, baseWatch>>
    BY <2>2 DEF Alive
  <2>3. CASE /\ baseCache' = baseCache /\ base' \in Base
             /\ baseWatch' = Append(baseWatch, base')
    BY <1>1, <2>3, AppendFacts DEF Alive
  <2>4. CASE /\ baseWatch # <<>> /\ base' = base
             /\ baseCache' = Head(baseWatch) /\ baseWatch' = Tail(baseWatch)
    BY <1>1, <2>4, TailFacts DEF Alive
  <2>5. CASE base' = base /\ baseCache' = base /\ baseWatch' = <<>>
    BY <2>5
  <2>. QED  BY <2>1, <2>2, <2>3, <2>4, <2>5 DEF BaseEffect
<1>3. /\ desc'.phase = "absent" => descCache'.phase = "absent" /\ descWatch' = <<>>
      /\ desc'.phase # "deleting" /\ descCache'.phase # "deleting"
      /\ \A i \in DOMAIN descWatch' : descWatch'[i].phase = "live"
  <2>1. DescEffect
    BY DEF Effect
  <2>2. CASE UNCHANGED <<desc, descCache, descWatch>>
    BY <2>2 DEF Alive
  <2>3. CASE /\ descCache' = descCache /\ desc' \in Description /\ desc'.rv = desc.rv + 1
             /\ descWatch' = Append(descWatch, desc')
    <3>1. desc'.phase = "live"
      BY <1>1, <2>3, DescFacts
    <3>. QED  BY <1>1, <2>3, <3>1, AppendFacts DEF Alive
  <2>4. CASE /\ descWatch # <<>> /\ desc' = desc
             /\ descCache' = Head(descWatch) /\ descWatch' = Tail(descWatch)
    BY <1>1, <2>4, TailFacts DEF Alive
  <2>5. CASE desc' = desc /\ descCache' = desc /\ descWatch' = <<>>
    BY <2>5 DEF Alive
  <2>. QED  BY <2>1, <2>2, <2>3, <2>4, <2>5 DEF DescEffect
<1>4. deploy' # None => deploy'.desc.phase = "live"
  BY DEF Effect, DeployEffect, Alive, Exists
<1>. QED  BY <1>2, <1>3, <1>4 DEF Alive, LiveJob

(* What a step leaves of a live Base. *)
StaysAlive ==
  /\ \A k \in Worker : LiveJob(job'[k])
  /\ desc' = desc \/ desc'.phase = "live"

LEMMA JobsEnd ==
  ASSUME TypeInv, Alive, NEW k \in Worker, Done(k) \/ Requeue(k)
  PROVE  \A x \in Worker : LiveJob(job'[x])
BY EndFacts DEF Alive, LiveJob

LEMMA AliveStep ==
  ASSUME TypeInv, Alive, base.phase = "live", base'.phase = "live", Next
  PROVE  StaysAlive
<1> USE DEF StaysAlive, apiVars, workVars, KeepDesc
<1>1. \A k \in Worker : LiveJob(job[k])
  BY DEF Alive, LiveJob
<1>2. CASE Environment
  <2>1. desc' = desc
    BY <1>2 DEF Environment, EditFeeds, EditManifest, DeleteBase, RequestFails, Restart
  <2>2. \/ job' = job \/ \E k \in Worker : Requeue(k)
        \/ job' = [k \in Worker |-> None]
    <3>1. \A k \in DOMAIN job : k \in Worker
      BY StateFacts
    <3>. QED  BY <1>2, <3>1 DEF Environment, EditFeeds, EditManifest, DeleteBase, RequestFails,
                                Restart, Worker
  <2>. QED  BY <1>1, <2>1, <2>2, JobsEnd DEF LiveJob
<1>3. CASE Informers
  BY <1>1, <1>3 DEF Informers, SyncBase, SyncDesc, SyncManifest
<1>4. CASE GetBase
  <2>1. desc' = desc
    BY <1>4 DEF GetBase
  <2>2. ASSUME NEW k \in Worker PROVE LiveJob(job'[k])
    BY <1>1, <1>4, GetBaseFacts DEF Alive, LiveJob, Exists, Worker
  <2>. QED  BY <2>1, <2>2
<1>5. CASE PatchBaseLabels
  <2>1. desc' = desc
    BY <1>5 DEF PatchBaseLabels
  <2>2. ASSUME NEW k \in Worker PROVE LiveJob(job'[k])
    BY <1>1, <1>5, PatchBaseLabelsFacts, JobsEnd DEF LiveJob, Worker
  <2>. QED  BY <2>1, <2>2
<1>6. ~HandleDeletingBase
  BY HandleDeletingBaseFacts, JobFacts DEF Alive, Worker
<1>7. ~ReleaseBase
  BY ReleaseBaseFacts, JobFacts DEF Alive, Worker
<1>8. CASE AddLabelsToReferredFeeds
  <2>1. desc' = desc
    BY <1>8 DEF AddLabelsToReferredFeeds
  <2>2. ASSUME NEW k \in Worker PROVE LiveJob(job'[k])
    BY <1>1, <1>8, AddLabelsFacts DEF LiveJob, Worker
  <2>. QED  BY <2>1, <2>2
<1>9. ASSUME NEW k \in Worker, GatherManifests(k) PROVE StaysAlive
  <2>1. desc' = desc
    BY <1>9 DEF GatherManifests
  <2>2. ASSUME NEW x \in Worker PROVE LiveJob(job'[x])
    BY <1>1, <1>9, GatherFacts DEF LiveJob
  <2>. QED  BY <2>1, <2>2
<1>10. ASSUME NEW k \in Worker, SyncDescriptions(k) PROVE StaysAlive
  <2>1. desc' = desc \/ desc'.phase = "live"
    <3>1. desc.phase \in {"absent", "live", "deleting"}
      BY StateFacts, DescFacts
    <3>. QED  BY <1>10, <3>1, SyncDescriptionsFacts DEF UpdatesDesc, Alive
  <2>2. Done(k) \/ Requeue(k)
    BY <1>10, SyncDescriptionsFacts
  <2>. QED  BY <1>10, <2>1, <2>2, JobsEnd
<1>11. ASSUME NEW f \in Feed, GetManifest(f) PROVE StaysAlive
  <2>1. desc' = desc
    BY <1>11 DEF GetManifest
  <2>2. ASSUME NEW x \in Worker PROVE LiveJob(job'[x])
    BY <1>1, <1>11, GetManifestFacts DEF Alive, LiveJob, Exists, RefersToBase
  <2>. QED  BY <2>1, <2>2
<1>12. ASSUME NEW f \in Feed, PruneLabels(f) PROVE StaysAlive
  <2>1. desc' = desc
    BY <1>12 DEF PruneLabels
  <2>. QED  BY <1>12, <2>1, PruneLabelsFacts, JobsEnd
<1>13. CASE DescWork
  <2>1. job' = job
    BY <1>13 DEF DescWork, GetDescription, ReportStatus, ReleaseDescription, SyncResource
  <2>2. ~ReleaseDescription
    BY ReleaseDescriptionFacts, DeployFacts DEF Alive
  <2>3. desc' = desc \/ desc'.phase = "live"
    <3>1. CASE ReportStatus
      <4>1. desc.phase # "deleting"
        BY DEF Alive
      <4>. QED  BY <3>1, <4>1, ReportStatusFacts DEF DescWritten, AcceptsDesc, Exists
    <3>. QED  BY <1>13, <2>2, <3>1 DEF DescWork, GetDescription, SyncResource
  <2>. QED  BY <1>1, <2>1, <2>3
<1>14. CASE PruneSome
  BY <1>1, <1>14 DEF PruneSome, PruneFeeds
<1>15. ~CollectDescription
  BY DEF CollectDescription
<1>. QED  BY <1>2, <1>3, <1>4, <1>5, <1>6, <1>7, <1>8, <1>9, <1>10, <1>11, <1>12, <1>13,
             <1>14, <1>15
          DEF Next, BaseWork, ManifestWork, Worker, PruneSome

(* The phase of a Base only goes forward, and only deletion ends "live". *)
LEMMA BasePhase ==
  ASSUME TypeInv, PhaseInv, Next
  PROVE  /\ base'.phase # "absent"
         /\ base'.phase = "live" => base.phase = "live"
         /\ base'.phase # base.phase => "delbase" \in scenario.kinds
         /\ base'.phase # "gone" => base'.feeds = base.feeds \/ base.phase = "live"
<1> USE DEF apiVars, KeepBase
<1>1. CASE Environment
  <2>1. ASSUME NEW fs \in SUBSET Feed, EditFeeds(fs)
        PROVE  base'.phase = "live" /\ base.phase = "live"
    BY <2>1, EditFeedsFacts DEF BaseWritten
  <2>2. CASE DeleteBase
    <3>1. "delbase" \in scenario.kinds
      BY <2>2, EventFacts DEF DeleteBase
    <3>. QED  BY <2>2, <3>1, DeleteBaseFacts DEF BaseWritten
  <2>3. CASE (\E f \in Feed : EditManifest(f)) \/ RequestFails \/ Restart
    <3>1. base' = base
      BY <2>3 DEF EditManifest, RequestFails, Restart
    <3>. QED  BY <3>1 DEF PhaseInv
  <2>. QED  BY <1>1, <2>1, <2>2, <2>3 DEF Environment
<1>2. CASE Informers
  BY <1>2 DEF Informers, SyncBase, SyncDesc, SyncManifest, PhaseInv
<1>3. CASE PatchBaseLabels
  BY <1>3, PatchBaseLabelsFacts DEF BaseWritten, PhaseInv
<1>4. CASE ReleaseBase
  <2>1. job[BaseKey] # None /\ job[BaseKey].pc = "release" /\ BaseKey \in Worker
    BY <1>4, ReleaseBaseFacts, JobFacts DEF Worker
  <2>2. base.phase # "live"
    BY <2>1 DEF PhaseInv, Alive
  <2>3. "delbase" \in scenario.kinds
    BY <2>2 DEF PhaseInv
  <2>. QED  BY <1>4, <2>2, <2>3, ReleaseBaseFacts DEF BaseWritten, PhaseInv
<1>5. CASE base' = base
  BY <1>5 DEF PhaseInv
<1>6. CASE BaseWork
  BY <1>3, <1>4, <1>5, <1>6 DEF BaseWork, GetBase, HandleDeletingBase,
                AddLabelsToReferredFeeds, GatherManifests, SyncDescriptions
<1>7. CASE \E f \in Feed : ManifestWork(f)
  BY <1>5, <1>7 DEF ManifestWork, GetManifest, PruneLabels, GatherManifests, SyncDescriptions
<1>8. CASE DescWork
  BY <1>5, <1>8 DEF DescWork, GetDescription, ReportStatus, ReleaseDescription, SyncResource
<1>9. CASE PruneSome \/ CollectDescription
  BY <1>5, <1>9 DEF PruneSome, PruneFeeds, CollectDescription
<1>. QED  BY <1>1, <1>2, <1>6, <1>7, <1>8, <1>9 DEF Next, PruneSome

LEMMA PhaseNext ==
  ASSUME TypeInv, PhaseInv, Effect, Next PROVE PhaseInv'
<1>1. base'.phase = "live" => Alive'
  <2> SUFFICES ASSUME base'.phase = "live" PROVE Alive'
    OBVIOUS
  <2>1. base.phase = "live" /\ Alive
    BY BasePhase DEF PhaseInv
  <2>2. StaysAlive
    BY <2>1, AliveStep
  <2>. QED  BY <2>1, <2>2, AliveFrame DEF StaysAlive
<1>2. "delbase" \notin scenario'.kinds => base'.phase = "live"
  BY BasePhase, ScenarioKept DEF PhaseInv, SameScenario
<1>. QED  BY <1>1, <1>2, BasePhase DEF PhaseInv

LEMMA PhaseInit == ASSUME Init, TypeInv PROVE PhaseInv
<1>1. /\ descCache = desc /\ descWatch = <<>> /\ deploy = None
      /\ \A k \in Worker : job[k] = None
  BY DEF Init, Worker
<1>2. CASE scenario.settled
  <2>1. InitSettled
    BY <1>2 DEF Init
  <2>2. base.phase = "live" /\ baseCache = base /\ baseWatch = <<>> /\ desc.phase = "live"
    BY <2>1 DEF InitSettled, NewBase
  <2>. QED  BY <1>1, <2>2 DEF PhaseInv, Alive
<1>3. CASE ~scenario.settled
  <2>1. InitNew
    BY <1>3 DEF Init
  <2>2. /\ base.phase = "live" /\ baseCache.phase = "absent" /\ baseWatch = <<base>>
        /\ desc.phase = "absent"
    BY <2>1 DEF InitNew, NewBase, NoDesc
  <2>3. \A i \in DOMAIN baseWatch : baseWatch[i].phase = "live"
    BY <2>2
  <2>. QED  BY <1>1, <2>2, <2>3 DEF PhaseInv, Alive
<1>. QED  BY <1>2, <1>3

-----------------------------------------------------------------------------
(* What a step does to the feeds of the Base, to the workers, to the       *)
(* queue and to the contents of the Manifests.                             *)

FeedsEffect ==
  /\ base.uidLabel => base'.uidLabel
  /\ \/ base'.feeds = base.feeds
     \/ "grow" \in scenario.kinds /\ base.feeds \subseteq base'.feeds
     \/ "shrink" \in scenario.kinds /\ base'.feeds \subseteq base.feeds
     \/ "swap" \in scenario.kinds

LEMMA FeedsStep ==
  ASSUME TypeInv, Next PROVE FeedsEffect
<1> USE DEF FeedsEffect, apiVars, KeepBase
<1>1. ASSUME NEW fs \in SUBSET Feed, EditFeeds(fs) PROVE FeedsEffect
  <2>1. BaseWritten("live", base.uidLabel, fs)
    BY <1>1, EditFeedsFacts
  <2>2. CASE base.feeds \subseteq fs
    <3>1. Event("grow")
      BY <1>1, <2>2 DEF EditFeeds
    <3>. QED  BY <2>1, <2>2, <3>1, EventFacts DEF BaseWritten
  <2>3. CASE ~(base.feeds \subseteq fs) /\ fs \subseteq base.feeds
    <3>1. Event("shrink")
      BY <1>1, <2>3 DEF EditFeeds
    <3>. QED  BY <2>1, <2>3, <3>1, EventFacts DEF BaseWritten
  <2>4. CASE ~(base.feeds \subseteq fs) /\ ~(fs \subseteq base.feeds)
    <3>1. Event("swap")
      BY <1>1, <2>4 DEF EditFeeds
    <3>. QED  BY <2>1, <3>1, EventFacts DEF BaseWritten
  <2>. QED  BY <2>2, <2>3, <2>4
<1>2. CASE DeleteBase
  BY <1>2, DeleteBaseFacts DEF BaseWritten
<1>3. CASE (\E f \in Feed : EditManifest(f)) \/ RequestFails \/ Restart
  BY <1>3 DEF EditManifest, RequestFails, Restart
<1>4. CASE Informers
  BY <1>4 DEF Informers, SyncBase, SyncDesc, SyncManifest
<1>5. CASE PatchBaseLabels
  BY <1>5, PatchBaseLabelsFacts DEF BaseWritten
<1>6. CASE ReleaseBase
  BY <1>6, ReleaseBaseFacts DEF BaseWritten
<1>7. CASE BaseWork
  BY <1>5, <1>6, <1>7 DEF BaseWork, GetBase, HandleDeletingBase,
                AddLabelsToReferredFeeds, GatherManifests, SyncDescriptions
<1>8. CASE \E f \in Feed : ManifestWork(f)
  BY <1>8 DEF ManifestWork, GetManifest, PruneLabels, GatherManifests, SyncDescriptions
<1>9. CASE DescWork
  BY <1>9 DEF DescWork, GetDescription, ReportStatus, ReleaseDescription, SyncResource
<1>10. CASE PruneSome \/ CollectDescription
  BY <1>10 DEF PruneSome, PruneFeeds, CollectDescription
<1>. QED  BY <1>1, <1>2, <1>3, <1>4, <1>7, <1>8, <1>9, <1>10 DEF Next, PruneSome, Environment

(* One worker: it goes on, ends, advances, starts, or has labelled the     *)
(* Base.                                                                   *)
Advances(k) ==
  /\ job[k] # None /\ job'[k] # None /\ job'[k].base = job[k].base
  /\ job'[k].pc # "label" /\ (k # BaseKey => job'[k].pc = "sync")
  /\ job'[k].pc = "sync" =>
       \A f \in Feed : job'[k].want[f] = IF f \in job[k].base.feeds
                                         THEN manifestCache[f].content ELSE 0
  /\ UNCHANGED <<baseCache, manifestCache, desc>>

Starts(k) ==
  /\ job[k] = None /\ k \in queue /\ job'[k] # None /\ job'[k].base = baseCache
  /\ job'[k].pc # "sync" /\ (job'[k].pc = "label" => ~baseCache.uidLabel)
  /\ k # BaseKey /\ k \in baseCache.feeds => job'[k].pc = "gather"
  /\ k # BaseKey => RefersToBase(k)
  /\ UNCHANGED <<baseCache, manifestCache, desc>>

LabelsBase(k) ==
  /\ k = BaseKey /\ job[k] # None /\ job[k].pc = "label" /\ job'[k] # None
  /\ job'[k].pc = "handle" /\ job'[k].base = base' /\ base'.feeds = base.feeds
  /\ UNCHANGED <<baseCache, manifestCache, desc>>

JobEffect(k) ==
  job'[k] = job[k] \/ job'[k] = None \/ Advances(k) \/ Starts(k) \/ LabelsBase(k)

LEMMA JobStep ==
  ASSUME TypeInv, Next PROVE \A k \in Worker : JobEffect(k)
<1> USE DEF JobEffect, Advances, Starts, LabelsBase, apiVars, cacheVars, workVars, KeepDesc
<1>1. CASE Environment
  <2>1. \/ job' = job \/ \E k \in Worker : Requeue(k)
        \/ job' = [k \in Worker |-> None]
    <3>1. \A k \in DOMAIN job : k \in Worker
      BY StateFacts
    <3>. QED  BY <1>1, <3>1 DEF Environment, EditFeeds, EditManifest, DeleteBase, RequestFails,
                                Restart, Worker
  <2>. QED  BY <2>1, EndFacts
<1>2. CASE Informers
  BY <1>2 DEF Informers, SyncBase, SyncDesc, SyncManifest
<1>3. CASE GetBase
  <2>1. UNCHANGED <<baseCache, manifestCache, desc>> /\ BaseKey \in queue
    BY <1>3 DEF GetBase
  <2>2. JobEffect(BaseKey)
    BY <1>3, <2>1, GetBaseFacts
  <2>. QED  BY <1>3, <2>2, GetBaseFacts DEF Worker
<1>4. CASE PatchBaseLabels
  <2>1. UNCHANGED <<baseCache, manifestCache, desc>>
    BY <1>4 DEF PatchBaseLabels
  <2>2. job[BaseKey] # None /\ BaseKey \in Worker
    BY <1>4, PatchBaseLabelsFacts, JobFacts DEF Worker
  <2>3. JobEffect(BaseKey)
    BY <1>4, <2>1, <2>2, PatchBaseLabelsFacts, EndFacts DEF BaseWritten, KeepBase
  <2>. QED  BY <1>4, <2>3, PatchBaseLabelsFacts DEF Worker
<1>5. CASE HandleDeletingBase
  <2>1. job[BaseKey] # None /\ BaseKey \in Worker
    BY <1>5, HandleDeletingBaseFacts, JobFacts DEF Worker
  <2>2. UNCHANGED <<baseCache, manifestCache>>
    BY <1>5 DEF HandleDeletingBase
  <2>3. JobEffect(BaseKey)
    BY <1>5, <2>1, <2>2, HandleDeletingBaseFacts, EndFacts
  <2>. QED  BY <1>5, <2>3, HandleDeletingBaseFacts DEF Worker
<1>6. CASE ReleaseBase
  BY <1>6, ReleaseBaseFacts, EndFacts DEF Worker
<1>7. CASE AddLabelsToReferredFeeds
  <2>1. UNCHANGED <<baseCache, manifestCache, desc>> /\ job[BaseKey] # None
    BY <1>7, AddLabelsFacts, JobFacts DEF AddLabelsToReferredFeeds
  <2>2. JobEffect(BaseKey)
    BY <1>7, <2>1, AddLabelsFacts
  <2>. QED  BY <1>7, <2>2, AddLabelsFacts DEF Worker
<1>8. ASSUME NEW k \in Worker, GatherManifests(k) PROVE \A x \in Worker : JobEffect(x)
  <2>1. UNCHANGED <<baseCache, manifestCache, desc>>
    BY <1>8 DEF GatherManifests
  <2>2. JobEffect(k)
    BY <1>8, <2>1, GatherFacts
  <2>. QED  BY <1>8, <2>2, GatherFacts
<1>9. ASSUME NEW k \in Worker, SyncDescriptions(k) PROVE \A x \in Worker : JobEffect(x)
  BY <1>9, SyncDescriptionsFacts, EndFacts
<1>10. ASSUME NEW f \in Feed, GetManifest(f) PROVE \A x \in Worker : JobEffect(x)
  <2>1. UNCHANGED <<baseCache, manifestCache, desc>>
    BY <1>10 DEF GetManifest
  <2>2. JobEffect(f)
    BY <1>10, <2>1, GetManifestFacts, ConfigAssumption
  <2>. QED  BY <1>10, <2>2, GetManifestFacts
<1>11. ASSUME NEW f \in Feed, PruneLabels(f) PROVE \A x \in Worker : JobEffect(x)
  BY <1>11, PruneLabelsFacts, EndFacts
<1>12. CASE DescWork \/ PruneSome \/ CollectDescription
  BY <1>12 DEF DescWork, GetDescription, ReportStatus, ReleaseDescription, SyncResource,
               PruneSome, PruneFeeds, CollectDescription
<1>. QED  BY <1>1, <1>2, <1>3, <1>4, <1>5, <1>6, <1>7, <1>8, <1>9, <1>10, <1>11, <1>12
          DEF Next, BaseWork, ManifestWork, Worker, PruneSome

(* Only edits change contents. *)
LEMMA ContentStep ==
  ASSUME TypeInv, Next
  PROVE  \/ \E f \in Feed : EditManifest(f) /\ "edit" \in scenario.kinds
         \/ \A f \in Feed : manifest'[f].content = manifest[f].content
<1> USE DEF apiVars, KeepManifests
<1>1. ASSUME NEW f \in Feed, EditManifest(f) PROVE "edit" \in scenario.kinds
  BY <1>1, EventFacts DEF EditManifest
<1>2. CASE DeleteBase
  BY <1>2, DeleteBaseFacts
<1>3. CASE RequestFails
  <2>1. \/ UNCHANGED manifest
        \/ \E k \in Worker : \E part \in SUBSET job[k].base.feeds :
             job[k] \in Job /\ PatchManifestLabels(part, TRUE)
    <3>1. \A k \in DOMAIN job : k \in Worker
      BY StateFacts
    <3>. QED  BY <1>3, <3>1, StateFacts DEF RequestFails
  <2>2. ASSUME NEW k \in Worker, job[k] \in Job PROVE job[k].base.feeds \subseteq Feed
    BY <2>2, JobFacts, BaseFacts
  <2>. QED  BY <2>1, <2>2, PatchFacts
<1>4. CASE AddLabelsToReferredFeeds
  BY <1>4, AddLabelsFacts
<1>5. ASSUME NEW f \in Feed, PruneLabels(f)
      PROVE  \A g \in Feed : manifest'[g].content = manifest[g].content
  BY <1>5, PruneLabelsFacts
<1>6. CASE Environment
  BY <1>1, <1>2, <1>3, <1>6 DEF Environment, EditFeeds, Restart
<1>7. CASE Informers
  BY <1>7 DEF Informers, SyncBase, SyncDesc, SyncManifest
<1>8. CASE BaseWork
  BY <1>4, <1>8 DEF BaseWork, GetBase, PatchBaseLabels, HandleDeletingBase, ReleaseBase,
                    GatherManifests, SyncDescriptions
<1>9. ASSUME NEW f \in Feed, ManifestWork(f)
      PROVE  \A g \in Feed : manifest'[g].content = manifest[g].content
  BY <1>5, <1>9 DEF ManifestWork, GetManifest, GatherManifests, SyncDescriptions
<1>10. CASE DescWork \/ PruneSome \/ CollectDescription
  BY <1>10 DEF DescWork, GetDescription, ReportStatus, ReleaseDescription, SyncResource,
               PruneSome, PruneFeeds, CollectDescription
<1>. QED  BY <1>6, <1>7, <1>8, <1>9, <1>10 DEF Next, PruneSome

LEMMA UneditedInit == ASSUME Init, TypeInv PROVE Unedited
<1>1. ASSUME NEW f \in Feed PROVE manifest[f].content = 1
  BY DEF Init, InitNew, InitSettled, NewManifest
<1>2. manifestCache = manifest
  BY DEF Init
<1>3. ASSUME NEW f \in Feed PROVE DOMAIN manifestWatch[f] = {}
  BY DEF Init
<1>4. ASSUME NEW f \in Feed
      PROVE  /\ manifest[f].content = 1 /\ manifestCache[f].content = 1
             /\ \A i \in DOMAIN manifestWatch[f] : manifestWatch[f][i].content = 1
  BY <1>1, <1>2, <1>3
<1>. QED  BY <1>4, Zenon DEF Unedited

LEMMA UneditedNext ==
  ASSUME TypeInv, Unedited, Effect, Next PROVE Unedited'
<1> SUFFICES ASSUME "edit" \notin scenario'.kinds, NEW f \in Feed
             PROVE  /\ manifest'[f].content = 1 /\ manifestCache'[f].content = 1
                    /\ \A i \in DOMAIN manifestWatch'[f] : manifestWatch'[f][i].content = 1
  BY DEF Unedited
<1>1. "edit" \notin scenario.kinds
  BY ScenarioKept DEF SameScenario
<1>2. /\ manifest[f].content = 1 /\ manifestCache[f].content = 1
      /\ \A i \in DOMAIN manifestWatch[f] : manifestWatch[f][i].content = 1
  BY <1>1 DEF Unedited
<1>3. manifest'[f].content = 1
  BY <1>1, <1>2, ContentStep
<1>4. manifestWatch[f] \in Seq(Manifest)
  BY StateFacts
<1>5. ManifestEffect(f)
  BY DEF Effect
<1>6. CASE Unwritten(f) /\ manifestCache'[f] = manifestCache[f]
  BY <1>2, <1>6 DEF Unwritten
<1>7. CASE Written(f) /\ manifestCache'[f] = manifestCache[f]
  BY <1>2, <1>3, <1>4, <1>7, AppendFacts DEF Written
<1>8. CASE /\ manifestWatch[f] # <<>> /\ manifest'[f] = manifest[f]
           /\ manifestCache'[f] = Head(manifestWatch[f])
           /\ manifestWatch'[f] = Tail(manifestWatch[f])
  BY <1>2, <1>4, <1>8, TailFacts
<1>9. CASE /\ manifest'[f] = manifest[f] /\ manifestCache'[f] = manifest[f]
           /\ manifestWatch'[f] = <<>>
  BY <1>2, <1>9
<1>. QED  BY <1>5, <1>6, <1>7, <1>8, <1>9 DEF ManifestEffect

(* A key is enqueued by its worker, for an event, or by a new hub. *)
LEMMA QueueStep ==
  ASSUME TypeInv, Next, NEW f \in Worker, f \in queue'
  PROVE  \/ f \in queue \/ job[f] # None
         \/ f \in Feed /\ baseWatch # <<>> /\ f \in baseCache.feeds \ Head(baseWatch).feeds
         \/ /\ f \in Feed /\ manifestWatch[f] # <<>>
            /\ manifestCache[f].content # Head(manifestWatch[f]).content
         \/ f = BaseKey /\ baseWatch # <<>>
         \/ f = BaseKey /\ descWatch # <<>> /\ ~Exists(Head(descWatch))
         \/ "restart" \in scenario.kinds
<1> USE DEF workVars
<1>0. f # DescKey /\ (f = BaseKey \/ f \in Feed) /\ BaseKey \notin Feed
  BY ConfigAssumption DEF Worker
<1>1. CASE Restart
  BY <1>1, EventFacts DEF Restart
<1>2. CASE RequestFails
  <2>1. \/ queue' = queue \/ queue' = queue \cup {DescKey}
        \/ \E k \in DOMAIN job : job[k] # None /\ queue' = queue \cup {k}
    BY <1>2 DEF RequestFails, RedeployLater, Requeue
  <2>. QED  BY <1>0, <2>1
<1>3. CASE Environment
  BY <1>1, <1>2, <1>3 DEF Environment, EditFeeds, EditManifest, DeleteBase
<1>4. CASE SyncBase
  BY <1>0, <1>4 DEF SyncBase, BaseEventEnqueues, FindObsoletedFeeds
<1>5. CASE SyncDesc
  BY <1>0, <1>5 DEF SyncDesc, DescEventEnqueues
<1>6. CASE \E g \in Feed : SyncManifest(g)
  BY <1>6 DEF SyncManifest, ManifestEventEnqueues
<1>7. ASSUME NEW k \in Worker, job[k] # None, Done(k) \/ Requeue(k)
      PROVE  f \in queue \/ job[f] # None
  BY <1>7 DEF Done, Requeue
<1>8. CASE BaseWork
  <2>1. BaseKey \in Worker
    BY DEF Worker
  <2>2. CASE GetBase
    BY <2>2 DEF GetBase
  <2>3. CASE PatchBaseLabels
    BY <1>7, <2>1, <2>3, PatchBaseLabelsFacts, JobFacts
  <2>4. CASE HandleDeletingBase
    BY <1>7, <2>1, <2>4, HandleDeletingBaseFacts, JobFacts
  <2>5. CASE ReleaseBase
    BY <1>7, <2>1, <2>5, ReleaseBaseFacts, JobFacts
  <2>6. CASE AddLabelsToReferredFeeds
    BY <2>6, AddLabelsFacts
  <2>7. CASE GatherManifests(BaseKey)
    BY <2>7 DEF GatherManifests
  <2>8. CASE SyncDescriptions(BaseKey)
    BY <1>7, <2>1, <2>8, SyncDescriptionsFacts, JobFacts
  <2>. QED  BY <1>8, <2>2, <2>3, <2>4, <2>5, <2>6, <2>7, <2>8 DEF BaseWork
<1>9. ASSUME NEW g \in Feed, ManifestWork(g) PROVE f \in queue \/ job[f] # None
  <2>1. g \in Worker
    BY DEF Worker
  <2>2. CASE GetManifest(g)
    BY <2>2 DEF GetManifest
  <2>3. CASE PruneLabels(g)
    BY <1>7, <2>3, PruneLabelsFacts, JobFacts
  <2>4. CASE GatherManifests(g)
    BY <2>4 DEF GatherManifests
  <2>5. CASE SyncDescriptions(g)
    BY <1>7, <2>1, <2>5, SyncDescriptionsFacts, JobFacts
  <2>. QED  BY <1>9, <2>2, <2>3, <2>4, <2>5 DEF ManifestWork
<1>10. CASE DescWork
  BY <1>0, <1>10 DEF DescWork, GetDescription, ReportStatus, ReleaseDescription, SyncResource,
                Deployed, RedeployLater
<1>11. CASE PruneSome \/ CollectDescription
  BY <1>11 DEF PruneSome, PruneFeeds, CollectDescription
<1>. QED  BY <1>3, <1>4, <1>5, <1>6, <1>8, <1>9, <1>10, <1>11
          DEF Next, PruneSome, Informers

(* The Description: its phase or status is written, a worker writes what   *)
(* it gathered, or its finalizer is removed.                               *)
Rewritten ==
  desc'.raw = desc.raw /\ desc'.rv = desc.rv + 1 /\ Exists(desc) /\ Exists(desc')

Syncs(k) ==
  /\ job[k] # None /\ job[k].pc = "sync" /\ job'[k] = None
  /\ \A x \in Worker \ {k} : job'[x] = job[x]
  /\ desc'.raw = job[k].want /\ desc'.rv = desc.rv + 1 /\ desc'.phase # "absent"
  /\ CreatesDesc \/ (desc = descCache /\ desc'.phase = "live" /\ UpdatesDesc(job[k].want))
  /\ descCache' = descCache /\ UNCHANGED <<base, baseCache, queue, deploy, child>>

Releases ==
  /\ desc'.phase = "absent" /\ desc'.raw = Nothing /\ desc'.rv = desc.rv + 1
  /\ deploy # None /\ deploy.desc.phase = "deleting" /\ ~deploy.failed /\ deploy.todo = {}
  /\ deploy.desc.rv = desc.rv /\ deploy' = None
  /\ UNCHANGED <<child, job, base, baseCache, descCache>>

LEMMA DescStep ==
  ASSUME TypeInv, VersionInv, Next
  PROVE  \/ desc' = desc \/ Rewritten \/ (\E k \in Worker : Syncs(k)) \/ Releases
<1> USE DEF apiVars, cacheVars, workVars, KeepDesc
<1>1. CASE Environment
  BY <1>1 DEF Environment, EditFeeds, EditManifest, DeleteBase, RequestFails, Restart
<1>2. CASE Informers
  BY <1>2 DEF Informers, SyncBase, SyncDesc, SyncManifest
<1>3. ASSUME NEW k \in Worker, SyncDescriptions(k) PROVE desc' = desc \/ Syncs(k)
  <2> DEFINE want == job[k].want
             updated == UpdatesDesc(want) /\ desc.rv = descCache.rv
  <2>1. job[k] # None /\ job[k].pc = "sync"
    BY <1>3, SyncDescriptionsFacts, JobFacts
  <2>2. descCache' = descCache /\ UNCHANGED <<base, baseCache, deploy, child>>
    BY <1>3 DEF SyncDescriptions, KeepBase
  <2>3. updated => desc = descCache /\ desc.phase = "live"
    BY DEF VersionInv, DescVersions, Behind, UpdatesDesc
  <2>4. \/ desc' = desc
        \/ /\ CreatesDesc \/ updated
           /\ desc'.raw = want /\ desc'.rv = desc.rv + 1
           /\ desc'.phase = IF CreatesDesc THEN "live" ELSE desc.phase
           /\ Done(k)
    BY <1>3, SyncDescriptionsFacts
  <2>5. CASE Done(k) /\ (CreatesDesc \/ updated)
    <3>1. job'[k] = None /\ queue' = queue /\ \A x \in Worker \ {k} : job'[x] = job[x]
      BY <2>5, EndFacts DEF Done
    <3>2. updated => ~CreatesDesc
      BY DEF CreatesDesc, UpdatesDesc, Exists
    <3> HIDE DEF want
    <3>. QED  BY <2>1, <2>2, <2>3, <2>4, <2>5, <3>1, <3>2 DEF Syncs, want
  <2>. QED  BY <2>4, <2>5
<1>4. CASE HandleDeletingBase
  BY <1>4, HandleDeletingBaseFacts DEF DescWritten, Rewritten, Exists
<1>5. CASE BaseWork
  BY <1>3, <1>4, <1>5 DEF BaseWork, GetBase, PatchBaseLabels, ReleaseBase,
                          AddLabelsToReferredFeeds, GatherManifests, Worker
<1>6. ASSUME NEW f \in Feed, ManifestWork(f) PROVE desc' = desc \/ Syncs(f)
  <2>1. f \in Worker
    BY DEF Worker
  <2>. QED  BY <1>3, <1>6, <2>1 DEF ManifestWork, GetManifest, PruneLabels, GatherManifests
<1>7. CASE ReportStatus
  BY <1>7, ReportStatusFacts DEF DescWritten, Rewritten, AcceptsDesc, Exists
<1>8. CASE ReleaseDescription
  <2>1. UNCHANGED <<child, job, base, baseCache, descCache>>
    BY <1>8 DEF ReleaseDescription, KeepBase
  <2>2. deploy # None
    BY <1>8, ReleaseDescriptionFacts, DeployFacts
  <2>. QED  BY <1>8, <2>1, <2>2, ReleaseDescriptionFacts DEF DescWritten, AcceptsDesc, Releases
<1>9. CASE DescWork
  BY <1>7, <1>8, <1>9 DEF DescWork, GetDescription, SyncResource
<1>10. CASE PruneSome
  BY <1>10 DEF PruneSome, PruneFeeds
<1>11. CASE CollectDescription
  BY <1>11, DescPhase DEF CollectDescription, DescWritten, Rewritten, Exists
<1>. QED  BY <1>1, <1>2, <1>5, <1>6, <1>9, <1>10, <1>11 DEF Next, PruneSome, Worker

LEMMA KeptStep ==
  ASSUME TypeInv, Next, Kept
  PROVE  /\ base.feeds \subseteq base'.feeds
         /\ Fixed => base'.feeds = base.feeds
         /\ OnlyGrows(scenario) => {"edit", "restart"} \cap scenario.kinds = {}
BY FeedsStep DEF FeedsEffect, Kept, Fixed, OnlyGrows

LEMMA KeptSame ==
  ASSUME TypeInv, Next PROVE Fixed' = Fixed /\ Kept' = Kept /\ OnlyGrows(scenario)' = OnlyGrows(scenario)
BY ScenarioKept DEF SameScenario, Fixed, Kept, OnlyGrows

(* The versions of the Base that the informer has and gets. *)
LEMMA BaseFeedsNext ==
  ASSUME TypeInv, Kept, FeedsInv, Effect, Next
  PROVE  /\ baseCache.feeds \subseteq baseCache'.feeds
         /\ baseCache'.feeds \subseteq base'.feeds
         /\ \A i \in DOMAIN baseWatch' :
              /\ baseCache'.feeds \subseteq baseWatch'[i].feeds
              /\ baseWatch'[i].feeds \subseteq base'.feeds
              /\ \A j \in DOMAIN baseWatch' :
                   i < j => baseWatch'[i].feeds \subseteq baseWatch'[j].feeds
         /\ Fixed => baseCache'.feeds = base'.feeds
         /\ OnlyGrows(scenario) => /\ base'.uidLabel /\ baseCache'.uidLabel
                                  /\ \A i \in DOMAIN baseWatch' : baseWatch'[i].uidLabel
<1>1. /\ base.feeds \subseteq base'.feeds /\ (Fixed => base'.feeds = base.feeds)
      /\ base.uidLabel => base'.uidLabel
  BY KeptStep, FeedsStep DEF FeedsEffect
<1>2. baseWatch \in Seq(Base)
  BY StateFacts
<1>3. BaseEffect
  BY DEF Effect
<1>4. CASE UNCHANGED <<base, baseCache, baseWatch>>
  BY <1>4 DEF FeedsInv
<1>5. CASE baseCache' = baseCache /\ base' \in Base /\ baseWatch' = Append(baseWatch, base')
  BY <1>1, <1>2, <1>5, AppendFacts DEF FeedsInv
<1>6. CASE /\ baseWatch # <<>> /\ base' = base
           /\ baseCache' = Head(baseWatch) /\ baseWatch' = Tail(baseWatch)
  <2>1. /\ 1 \in DOMAIN baseWatch /\ baseCache' = baseWatch[1]
        /\ \A i \in DOMAIN baseWatch' :
             i \in Nat /\ i + 1 \in DOMAIN baseWatch /\ baseWatch'[i] = baseWatch[i + 1] /\ 1 < i + 1
    BY <1>2, <1>6, TailFacts
  <2>2. ASSUME NEW i \in DOMAIN baseWatch', NEW j \in DOMAIN baseWatch', i < j
        PROVE  baseWatch'[i].feeds \subseteq baseWatch'[j].feeds
    <3>1. i + 1 < j + 1
      BY <2>1, <2>2
    <3>. QED  BY <2>1, <3>1 DEF FeedsInv
  <2>3. /\ baseCache.feeds \subseteq baseCache'.feeds /\ baseCache'.feeds \subseteq base'.feeds
        /\ Fixed => baseCache'.feeds = base'.feeds
    <3>1. baseCache.feeds \subseteq baseWatch[1].feeds /\ baseWatch[1].feeds \subseteq base.feeds
      BY <2>1 DEF FeedsInv
    <3>2. Fixed => baseCache.feeds = base.feeds
      BY DEF FeedsInv
    <3>3. baseCache' = baseWatch[1] /\ base' = base
      BY <1>6, <2>1
    <3>. QED  BY <3>1, <3>2, <3>3
  <2>4. ASSUME NEW i \in DOMAIN baseWatch'
        PROVE  /\ baseCache'.feeds \subseteq baseWatch'[i].feeds
               /\ baseWatch'[i].feeds \subseteq base'.feeds
    BY <1>6, <2>1 DEF FeedsInv
  <2>5. OnlyGrows(scenario) => /\ base'.uidLabel /\ baseCache'.uidLabel
                               /\ \A i \in DOMAIN baseWatch' : baseWatch'[i].uidLabel
    BY <1>6, <2>1 DEF FeedsInv
  <2>. QED  BY <2>2, <2>3, <2>4, <2>5
<1>7. CASE base' = base /\ baseCache' = base /\ baseWatch' = <<>>
  BY <1>7 DEF FeedsInv
<1>. QED  BY <1>3, <1>4, <1>5, <1>6, <1>7 DEF BaseEffect

LEMMA FeedsNext ==
  ASSUME TypeInv, VersionInv, Unedited, Kept, FeedsInv, Effect, Next PROVE FeedsInv'
<1>1. /\ baseCache.feeds \subseteq baseCache'.feeds
      /\ baseCache'.feeds \subseteq base'.feeds
      /\ Fixed => baseCache'.feeds = base'.feeds /\ base'.feeds = base.feeds
  BY BaseFeedsNext, KeptStep
<1>2. ASSUME OnlyGrows(scenario), NEW f \in Feed PROVE f \notin queue' /\ job'[f] = None
  <2>1. f \notin queue /\ job[f] = None /\ f \in Worker
    BY <1>2 DEF FeedsInv, Worker
  <2>2. job'[f] = None
    BY <2>1, JobStep DEF JobEffect, Advances, Starts, LabelsBase
  <2>3. baseWatch # <<>> => baseCache.feeds \subseteq Head(baseWatch).feeds
    BY StateFacts, TailFacts DEF FeedsInv
  <2>4. manifestWatch[f] # <<>> => manifestCache[f].content = Head(manifestWatch[f]).content
    BY <1>2, KeptStep, StateFacts, TailFacts DEF Unedited
  <2>5. f # BaseKey /\ "restart" \notin scenario.kinds
    BY <1>2, KeptStep, ConfigAssumption
  <2>. QED  BY <2>1, <2>2, <2>3, <2>4, <2>5, QueueStep
<1>3. ASSUME NEW k \in Worker, job'[k] # None, OnlyGrows(scenario), k = BaseKey
      PROVE  job'[k].pc # "label"
  BY <1>3, JobStep DEF JobEffect, Advances, Starts, LabelsBase, FeedsInv
<1>4. ASSUME NEW f \in Feed, desc'.raw[f] # 0
      PROVE  /\ f \in baseCache'.feeds
             /\ \A k \in Worker : job'[k] # None /\ desc' # desc => f \in job'[k].base.feeds
  <2>1. CASE desc' = desc
    BY <1>1, <1>4, <2>1 DEF FeedsInv
  <2>2. ASSUME Rewritten, NEW k \in Worker, job'[k] # None, desc' # desc
        PROVE  f \in job'[k].base.feeds
    BY <1>4, <2>2, JobStep DEF Rewritten, JobEffect, Advances, Starts, LabelsBase, FeedsInv
  <2>3. CASE Rewritten
    BY <1>1, <1>4, <2>2, <2>3 DEF Rewritten, FeedsInv
  <2>4. ASSUME NEW k \in Worker, Syncs(k)
        PROVE  /\ f \in baseCache'.feeds
               /\ \A x \in Worker : job'[x] # None => f \in job'[x].base.feeds
    <3>1. f \in job[k].base.feeds
      BY <1>4, <2>4 DEF Syncs, FeedsInv
    <3>2. ASSUME NEW x \in Worker, job'[x] # None PROVE f \in job'[x].base.feeds
      <4>1. x # k /\ job'[x] = job[x]
        BY <2>4, <3>2 DEF Syncs
      <4>2. Fixed
        BY <2>4, <3>2, <4>1 DEF Syncs, FeedsInv, Worker, Kept
      <4>. QED  BY <2>4, <3>1, <3>2, <4>1, <4>2 DEF Syncs, FeedsInv
    <3>. QED  BY <1>1, <2>4, <3>1, <3>2 DEF Syncs, FeedsInv
  <2>5. ~Releases
    BY <1>4 DEF Releases, Nothing
  <2>. QED  BY <2>1, <2>3, <2>4, <2>5, DescStep
<1>5. ASSUME NEW k \in Worker, job'[k] # None
      PROVE  /\ job'[k].base.feeds \subseteq baseCache'.feeds
             /\ \A f \in Feed : desc'.raw[f] # 0 => f \in job'[k].base.feeds
             /\ job'[k].pc = "sync" =>
                  \A f \in Feed : job'[k].want[f] # 0 <=> f \in job'[k].base.feeds
             /\ Fixed => job'[k].base.feeds = base'.feeds
  <2>1. JobEffect(k)
    BY JobStep
  <2>2. CASE job'[k] = job[k]
    BY <1>1, <1>4, <1>5, <2>2 DEF FeedsInv
  <2>3. CASE Advances(k)
    <3>1. manifestCache \in [Feed -> Manifest]
      BY StateFacts
    <3>2. \A f \in Feed : manifestCache[f].content # 0
      BY <3>1, ManifestFacts
    <3>. QED  BY <1>1, <2>3, <3>2 DEF Advances, FeedsInv
  <2>4. CASE Starts(k)
    BY <1>1, <2>4 DEF Starts, FeedsInv
  <2>5. CASE LabelsBase(k)
    BY <1>1, <2>5 DEF LabelsBase, FeedsInv, Kept
  <2>. QED  BY <1>5, <2>1, <2>2, <2>3, <2>4, <2>5 DEF JobEffect
<1>6. BaseKey \in Worker /\ Fixed' = Fixed /\ OnlyGrows(scenario)' = OnlyGrows(scenario)
  BY KeptSame DEF Worker
<1>7. \A f \in Feed : desc'.raw[f] # 0 => f \in baseCache'.feeds
  BY <1>4
<1>. QED  BY <1>1, <1>2, <1>3, <1>5, <1>6, <1>7, BaseFeedsNext DEF FeedsInv

(* What a step does to the child cluster and to the worker of the          *)
(* Description.                                                            *)
ChildEffect ==
  \/ /\ \A f \in Feed : child'[f] # 0 => child[f] # 0
     /\ \/ deploy' = deploy \/ deploy' = None
        \/ deploy # None /\ deploy' # None /\ deploy'.desc = deploy.desc /\ deploy'.failed
  \/ /\ child' = child /\ desc' = desc /\ deploy' # None /\ deploy'.desc = descCache
     /\ deploy'.todo = In(descCache.raw)
  \/ /\ desc' = desc /\ deploy # None /\ deploy' # None
     /\ deploy'.desc = deploy.desc /\ deploy'.failed = deploy.failed
     /\ \E f \in deploy.todo :
          /\ deploy'.todo = deploy.todo \ {f}
          /\ child'[f] = IF deploy.desc.phase = "live" THEN deploy.desc.raw[f] ELSE 0
          /\ \A g \in Feed \ {f} : child'[g] = child[g]

LEMMA ChildStep ==
  ASSUME TypeInv, Next PROVE ChildEffect
<1> USE DEF apiVars, workVars
<1>1. CASE UNCHANGED <<child, deploy>>
  BY <1>1 DEF ChildEffect
<1>2. CASE RequestFails
  <2>1. CASE \E fs \in SUBSET Feed : \E part \in SUBSET fs :
               child' = Without(part) /\ UNCHANGED deploy
    BY <2>1 DEF Without, ChildEffect
  <2>2. CASE UNCHANGED child /\ deploy' = None
    BY <2>2 DEF ChildEffect
  <2>3. CASE /\ deploy # None /\ UNCHANGED child
             /\ \E f \in deploy.todo :
                  deploy' = [deploy EXCEPT !.todo = @ \ {f}, !.failed = TRUE]
    <3>1. deploy \in Deploy
      BY <2>3, StateFacts
    <3>2. deploy' \in Deploy /\ deploy'.desc = deploy.desc /\ deploy'.failed
      BY <2>3, <3>1 DEF Deploy
    <3>. QED  BY <2>3, <3>2, DeployFacts DEF ChildEffect
  <2>. QED  BY <1>1, <1>2, <2>1, <2>2, <2>3 DEF RequestFails, RedeployLater
<1>3. CASE Restart
  BY <1>3 DEF Restart, ChildEffect
<1>4. CASE Environment
  BY <1>1, <1>2, <1>3, <1>4 DEF Environment, EditFeeds, EditManifest, DeleteBase
<1>5. CASE Informers
  BY <1>1, <1>5 DEF Informers, SyncBase, SyncDesc, SyncManifest
<1>6. CASE BaseWork
  BY <1>1, <1>6 DEF BaseWork, GetBase, PatchBaseLabels, HandleDeletingBase, ReleaseBase,
                    AddLabelsToReferredFeeds, GatherManifests, SyncDescriptions
<1>7. CASE \E f \in Feed : ManifestWork(f)
  BY <1>1, <1>7 DEF ManifestWork, GetManifest, PruneLabels, GatherManifests, SyncDescriptions
<1>8. CASE GetDescription
  <2>1. child' = child /\ desc' = desc
    BY <1>8 DEF GetDescription
  <2>. QED  BY <1>8, <2>1, GetDescriptionFacts DEF ChildEffect
<1>9. ASSUME NEW f \in Feed, SyncResource(f) PROVE ChildEffect
  <2>1. desc' = desc /\ deploy # None /\ deploy' # None
    BY <1>9, SyncResourceFacts, DeployFacts DEF SyncResource
  <2>. QED  BY <1>9, <2>1, SyncResourceFacts DEF ChildEffect
<1>10. CASE ReportStatus
  <2>1. child' = child
    BY <1>10 DEF ReportStatus
  <2>. QED  BY <1>10, <2>1, ReportStatusFacts DEF ChildEffect
<1>11. CASE ReleaseDescription
  <2>1. child' = child
    BY <1>11 DEF ReleaseDescription
  <2>. QED  BY <1>11, <2>1, ReleaseDescriptionFacts DEF ChildEffect
<1>12. CASE DescWork
  BY <1>8, <1>9, <1>10, <1>11, <1>12 DEF DescWork
<1>13. CASE PruneSome
  BY <1>13 DEF PruneSome, PruneFeeds, Without, ChildEffect
<1>14. CASE CollectDescription
  BY <1>1, <1>14 DEF CollectDescription
<1>. QED  BY <1>4, <1>5, <1>6, <1>7, <1>12, <1>13, <1>14 DEF Next, PruneSome

(* What was covered stays so, unless the Description has been released. *)
DescGrows == \A f \in Feed : desc.raw[f] # 0 => desc'.raw[f] # 0

LEMMA DescGrowth ==
  ASSUME TypeInv, VersionInv, FeedsInv, ChildInv, Next
  PROVE  \/ Releases
         \/ /\ DescGrows /\ (desc' = desc \/ desc'.rv = desc.rv + 1)
            /\ desc'.phase = "absent" => desc' = desc
<1>1. CASE Rewritten
  BY <1>1 DEF Rewritten, DescGrows, Exists
<1>2. ASSUME NEW k \in Worker, Syncs(k) PROVE DescGrows
  BY <1>2 DEF Syncs, FeedsInv, DescGrows
<1>. QED  BY <1>1, <1>2, DescStep DEF Syncs, DescGrows

(* A Description that is released is the one that everybody knows. *)
LEMMA Released ==
  ASSUME TypeInv, VersionInv, ChildInv, Releases
  PROVE  /\ descCache.phase = "deleting"
         /\ \A i \in DOMAIN descWatch : descWatch[i].phase = "deleting"
         /\ \A f \in Feed : child'[f] = 0
<1>1. /\ deploy # None /\ deploy.desc.phase = "deleting" /\ ~deploy.failed
      /\ deploy.todo = {} /\ deploy.desc.rv = desc.rv /\ child' = child
  BY DEF Releases
<1>2. deploy \in Deploy /\ desc \in Description /\ descCache \in Description
  BY <1>1, StateFacts
<1>3. deploy.desc.rv \in Nat /\ desc.rv \in Nat /\ descCache.rv \in Nat
  BY <1>2, DeployFacts, DescFacts
<1>4. Behind(deploy.desc, descCache) /\ Behind(descCache, desc)
  BY <1>1 DEF VersionInv, DescVersions
<1>5. descCache = deploy.desc /\ descCache = desc
  BY <1>1, <1>3, <1>4 DEF Behind
<1>6. ASSUME NEW i \in DOMAIN descWatch PROVE descWatch[i] = desc
  <2>1. descWatch[i] \in Description
    BY StateFacts
  <2>2. descWatch[i].rv \in Nat
    BY <2>1, DescFacts
  <2>3. Behind(descCache, descWatch[i]) /\ Behind(descWatch[i], desc)
    BY DEF VersionInv, DescVersions
  <2>. QED  BY <1>3, <1>5, <2>2, <2>3 DEF Behind
<1>7. \A f \in Feed : child[f] = 0
  BY <1>1 DEF ChildInv
<1>. QED  BY <1>1, <1>5, <1>6, <1>7

LEMMA CoveredNext ==
  ASSUME TypeInv, VersionInv, FeedsInv, ChildInv, Effect, Next
  PROVE  /\ Covered(descCache)' /\ \A i \in DOMAIN descWatch' : Covered(descWatch[i])'
         /\ deploy' # None => Covered(deploy.desc)'
<1> DEFINE Cov(o) == o.phase = "live" => \A f \in Feed : o.raw[f] # 0 => desc'.raw[f] # 0
<1> HIDE DEF Cov
<1>1. Cov(descCache) /\ (\A i \in DOMAIN descWatch : Cov(descWatch[i]))
      /\ (deploy' # None /\ deploy # None => Cov(deploy.desc))
  <2>1. CASE Releases
    BY <2>1, Released DEF Releases, Cov
  <2>2. CASE DescGrows
    BY <2>2 DEF DescGrows, ChildInv, Covered, Cov
  <2>. QED  BY <2>1, <2>2, DescGrowth
<1>2. Cov(desc')
  BY DEF Cov
<1>3. descWatch \in Seq(Description)
  BY StateFacts
<1>4. Cov(descCache') /\ \A i \in DOMAIN descWatch' : Cov(descWatch'[i])
  <2>1. DescEffect
    BY DEF Effect
  <2>2. CASE UNCHANGED <<desc, descCache, descWatch>>
    BY <1>1, <2>2
  <2>3. CASE /\ descCache' = descCache /\ desc' \in Description /\ desc'.rv = desc.rv + 1
             /\ descWatch' = Append(descWatch, desc')
    BY <1>1, <1>2, <1>3, <2>3, AppendFacts
  <2>4. CASE /\ descWatch # <<>> /\ desc' = desc
             /\ descCache' = Head(descWatch) /\ descWatch' = Tail(descWatch)
    BY <1>1, <1>3, <2>4, TailFacts
  <2>5. CASE desc' = desc /\ descCache' = desc /\ descWatch' = <<>>
    BY <1>2, <2>5
  <2>. QED  BY <2>1, <2>2, <2>3, <2>4, <2>5 DEF DescEffect
<1>5. deploy' # None => Cov(deploy'.desc)
  BY <1>1 DEF Effect, DeployEffect
<1>. QED  BY <1>4, <1>5 DEF Cov, Covered

LEMMA ChildNext ==
  ASSUME TypeInv, VersionInv, FeedsInv, ChildInv, Effect, Next PROVE ChildInv'
<1>1. desc'.phase = "absent" => \A f \in Feed : desc'.raw[f] = 0
  BY DescGrowth DEF Releases, Nothing, ChildInv
<1>2. \A f \in Feed : child'[f] # 0 => desc'.raw[f] # 0
  <2>1. CASE Releases
    BY <2>1, Released
  <2>2. CASE DescGrows
    <3>1. ASSUME NEW g \in Feed, child'[g] # 0 PROVE child[g] # 0 \/ desc.raw[g] # 0
      BY <3>1, ChildStep DEF ChildEffect, ChildInv, Covered
    <3>. QED  BY <2>2, <3>1 DEF DescGrows, ChildInv
  <2>. QED  BY <2>1, <2>2, DescGrowth
<1>3. ASSUME deploy' # None, deploy'.desc.phase = "deleting", ~deploy'.failed,
             deploy'.desc.rv = desc'.rv, NEW f \in Feed, child'[f] # 0
      PROVE  f \in deploy'.todo
  <2>1. ~Releases
    BY <1>3 DEF Releases
  <2>2. desc' = desc
    <3>1. desc.rv \in Nat /\ descCache.rv \in Nat
      BY StateFacts, DescFacts
    <3>2. deploy # None => deploy.desc.rv \in Nat /\ deploy.desc.rv <= desc.rv
      <4>1. deploy # None => deploy \in Deploy
        BY StateFacts
      <4>2. deploy # None => deploy.desc.rv \in Nat
        BY <4>1, DeployFacts, DescFacts
      <4>. QED  BY <3>1, <4>2 DEF VersionInv, DescVersions, Behind
    <3>3. descCache.rv <= desc.rv
      BY DEF VersionInv, DescVersions, Behind
    <3>. QED  BY <1>3, <2>1, <3>1, <3>2, <3>3, DescGrowth DEF Effect, DeployEffect
  <2>3. CASE /\ \A g \in Feed : child'[g] # 0 => child[g] # 0
             /\ \/ deploy' = deploy \/ deploy' = None
                \/ deploy # None /\ deploy' # None /\ deploy'.desc = deploy.desc /\ deploy'.failed
    BY <1>3, <2>2, <2>3 DEF ChildInv
  <2>4. CASE /\ child' = child /\ desc' = desc /\ deploy' # None /\ deploy'.desc = descCache
             /\ deploy'.todo = In(descCache.raw)
    <3>1. descCache = desc
      BY <1>3, <2>4 DEF VersionInv, DescVersions, Behind
    <3>. QED  BY <1>3, <2>4, <3>1 DEF ChildInv, In
  <2>5. CASE /\ desc' = desc /\ deploy # None /\ deploy' # None
             /\ deploy'.desc = deploy.desc /\ deploy'.failed = deploy.failed
             /\ \E g \in deploy.todo :
                  /\ deploy'.todo = deploy.todo \ {g}
                  /\ child'[g] = IF deploy.desc.phase = "live" THEN deploy.desc.raw[g] ELSE 0
                  /\ \A h \in Feed \ {g} : child'[h] = child[h]
    BY <1>3, <2>5 DEF ChildInv
  <2>. QED  BY <2>3, <2>4, <2>5, ChildStep DEF ChildEffect
<1>. QED  BY <1>1, <1>2, <1>3, CoveredNext DEF ChildInv

LEMMA LeftNext ==
  ASSUME TypeInv, VersionInv, Unedited, LeftInv, Effect, Next PROVE LeftInv'
BY FeedsNext, ChildNext, KeptSame DEF LeftInv

LEMMA LeftInit == ASSUME Init, TypeInv PROVE LeftInv
<1> SUFFICES ASSUME Kept PROVE FeedsInv /\ ChildInv
  BY DEF LeftInv
<1>1. /\ descCache = desc /\ descWatch = <<>> /\ deploy = None /\ queue = {}
      /\ \A k \in Worker : job[k] = None
  BY DEF Init, Worker
<1>2. \A f \in Feed : FirstRaw[f] # 0 => f \in scenario.feeds
  BY DEF FirstRaw
<1>3. CASE scenario.settled
  <2>1. InitSettled
    BY <1>3 DEF Init
  <2>2. /\ baseCache = base /\ baseWatch = <<>> /\ base.feeds = scenario.feeds /\ base.uidLabel
        /\ desc.phase = "live" /\ desc.raw = FirstRaw /\ child = FirstRaw
    BY <2>1 DEF InitSettled, NewBase
  <2>3. FeedsInv
    BY <1>1, <1>2, <2>2 DEF FeedsInv, Worker
  <2>. QED  BY <1>1, <2>2, <2>3 DEF ChildInv, Covered
<1>4. CASE ~scenario.settled
  <2>1. InitNew /\ Fixed
    BY <1>4 DEF Init, Kept, OnlyGrows
  <2>2. /\ baseCache.feeds = base.feeds /\ baseWatch = <<base>>
        /\ desc.phase = "absent" /\ \A f \in Feed : desc.raw[f] = 0 /\ child[f] = 0
    BY <2>1 DEF InitNew, NewBase, NoDesc, Nothing
  <2>3. \A i \in DOMAIN baseWatch : baseWatch[i] = base
    BY <2>2
  <2>4. FeedsInv
    BY <1>1, <1>4, <2>1, <2>2, <2>3 DEF FeedsInv, OnlyGrows
  <2>. QED  BY <1>1, <2>2, <2>4 DEF ChildInv, Covered
<1>. QED  BY <1>3, <1>4

(* What the deletion of a Base rests on. *)
GoneInv == TypeInv /\ VersionInv /\ PhaseInv /\ Unedited /\ LeftInv

LEMMA GoneStep == GoneInv /\ [Next]_vars => GoneInv'
<1> SUFFICES ASSUME GoneInv, [Next]_vars PROVE GoneInv'
  OBVIOUS
<1>1. TypeInv'
  BY TypeNext DEF GoneInv
<1>2. CASE Next
  <2>1. Effect
    BY <1>2, Effects DEF GoneInv
  <2>2. VersionInv' /\ PhaseInv' /\ Unedited' /\ LeftInv'
    BY <1>1, <1>2, <2>1, VersionNext, PhaseNext, UneditedNext, LeftNext DEF GoneInv
  <2>. QED  BY <1>1, <2>2 DEF GoneInv
<1>3. CASE UNCHANGED vars
  <2>1. VersionInv'
    BY <1>3 DEF GoneInv, VersionInv, DescVersions, vars, apiVars, cacheVars, watchVars, workVars
  <2>2. PhaseInv'
    BY <1>3 DEF GoneInv, PhaseInv, Alive, vars, apiVars, cacheVars, watchVars, workVars
  <2>3. Unedited'
    BY <1>3 DEF GoneInv, Unedited, vars, apiVars, cacheVars, watchVars, workVars
  <2>4. LeftInv'
    BY <1>3 DEF GoneInv, LeftInv, Kept, Fixed, FeedsInv, ChildInv, Covered, vars, apiVars,
                cacheVars, watchVars, workVars
  <2>. QED  BY <1>1, <2>1, <2>2, <2>3, <2>4 DEF GoneInv
<1>. QED  BY <1>2, <1>3

LEMMA GoneInit == Init => GoneInv
BY TypeInit, VersionInit, PhaseInit, UneditedInit, LeftInit DEF GoneInv

LEMMA DeletableStep ==
  ASSUME TypeInv, [Next]_vars, OrderlyDeletion(scenario) PROVE OrderlyDeletion(scenario')
<1>1. SameScenario
  BY ScenarioKept DEF vars, SameScenario
<1>. QED  BY <1>1 DEF OrderlyDeletion, SameScenario

LEMMA NothingLeft ==
  ASSUME GoneInv, OrderlyDeletion(scenario) PROVE NothingLeftBehind
<1> SUFFICES ASSUME Idle, base.phase = "gone" PROVE child = Nothing
  BY DEF NothingLeftBehind
<1>1. "delbase" \in scenario.kinds
  BY DEF GoneInv, PhaseInv
<1>2. Kept
  <2>1. scenario.kinds \subseteq EventKind
    BY DEF GoneInv, TypeInv, ScenarioType
  <2>. QED  BY <1>1, <2>1 DEF OrderlyDeletion, Kept, Fixed, OnlyGrows, EventKind
<1>3. ChildInv
  BY <1>2 DEF GoneInv, LeftInv
<1>4. desc.phase = "absent"
  <2>1. desc.phase \in {"absent", "live", "deleting"}
    BY StateFacts, DescFacts DEF GoneInv
  <2>. QED  BY <2>1 DEF Idle
<1>5. child \in [Feed -> Content] /\ \A f \in Feed : child[f] = 0
  BY <1>3, <1>4, StateFacts DEF GoneInv, ChildInv
<1>. QED  BY <1>5 DEF Nothing

(* A Base that is gone leaves nothing in the child cluster: whatever the   *)
(* workers of the Base and of its Manifests write while it is being        *)
(* deleted, the Description is only released by a worker that has offloaded *)
(* its last version, and that one names every resource of the child        *)
(* cluster.                                                                *)
THEOREM DeletionLeavesNothing ==
  ASSUME \A s \in Scenario : OrderlyDeletion(s)
  PROVE  Spec => []NothingLeftBehind
<1>1. Init => GoneInv /\ OrderlyDeletion(scenario)
  BY GoneInit DEF Init
<1>2. GoneInv /\ OrderlyDeletion(scenario) /\ [Next]_vars
        => GoneInv' /\ OrderlyDeletion(scenario)'
  BY GoneStep, DeletableStep DEF GoneInv, OrderlyDeletion
<1>3. GoneInv /\ OrderlyDeletion(scenario) => NothingLeftBehind
  BY NothingLeft
<1>. QED  BY <1>1, <1>2, <1>3, PTL DEF Spec

-----------------------------------------------------------------------------
(* A worker takes no key but its own from the queue. *)
LEMMA WorkerQueue ==
  ASSUME TypeInv, NEW x \in queue
  PROVE  /\ BaseWork => x \in queue' \/ (x = BaseKey /\ GetBase)
         /\ \A f \in Feed : ManifestWork(f) => x \in queue' \/ (x = f /\ GetManifest(f))
<1>1. ASSUME NEW k \in Worker, Done(k) \/ Requeue(k) PROVE x \in queue'
  BY <1>1 DEF Done, Requeue
<1>2. ASSUME BaseWork PROVE x \in queue' \/ (x = BaseKey /\ GetBase)
  <2>1. BaseKey \in Worker
    BY DEF Worker
  <2>2. CASE GetBase
    BY <2>2 DEF GetBase
  <2>3. CASE PatchBaseLabels
    BY <1>1, <2>1, <2>3, PatchBaseLabelsFacts
  <2>4. CASE HandleDeletingBase
    BY <1>1, <2>1, <2>4, HandleDeletingBaseFacts
  <2>5. CASE ReleaseBase
    BY <1>1, <2>1, <2>5, ReleaseBaseFacts
  <2>6. CASE AddLabelsToReferredFeeds
    BY <2>6, AddLabelsFacts
  <2>7. CASE GatherManifests(BaseKey)
    BY <2>7 DEF GatherManifests
  <2>8. CASE SyncDescriptions(BaseKey)
    BY <1>1, <2>1, <2>8, SyncDescriptionsFacts
  <2>. QED  BY <1>2, <2>2, <2>3, <2>4, <2>5, <2>6, <2>7, <2>8 DEF BaseWork
<1>3. ASSUME NEW f \in Feed, ManifestWork(f) PROVE x \in queue' \/ (x = f /\ GetManifest(f))
  <2>1. f \in Worker
    BY DEF Worker
  <2>2. CASE GetManifest(f)
    BY <2>2 DEF GetManifest
  <2>3. CASE PruneLabels(f)
    BY <1>1, <2>3, PruneLabelsFacts
  <2>4. CASE GatherManifests(f)
    BY <2>4 DEF GatherManifests
  <2>5. CASE SyncDescriptions(f)
    BY <1>1, <2>1, <2>5, SyncDescriptionsFacts
  <2>. QED  BY <1>3, <2>2, <2>3, <2>4, <2>5 DEF ManifestWork
<1>. QED  BY <1>2, <1>3

(* A key stays in its queue until a worker takes it. *)
LEMMA KeyStep ==
  ASSUME TypeInv, Next, NEW x \in queue
  PROVE  \/ x \in queue' \/ Restart
         \/ x = BaseKey /\ GetBase
         \/ x = DescKey /\ GetDescription
         \/ x \in Feed /\ GetManifest(x)
<1> USE DEF workVars
<1>1. CASE RequestFails
  BY <1>1 DEF RequestFails, Requeue, RedeployLater
<1>2. CASE Environment
  BY <1>1, <1>2 DEF Environment, EditFeeds, EditManifest, DeleteBase
<1>3. CASE Informers
  BY <1>3 DEF Informers, SyncBase, SyncDesc, SyncManifest
<1>4. CASE BaseWork \/ \E f \in Feed : ManifestWork(f)
  BY <1>4, WorkerQueue
<1>5. CASE DescWork
  BY <1>5 DEF DescWork, GetDescription, ReportStatus, ReleaseDescription, SyncResource,
              Deployed, RedeployLater
<1>6. CASE PruneSome \/ CollectDescription
  BY <1>6 DEF PruneSome, PruneFeeds, CollectDescription
<1>. QED  BY <1>2, <1>3, <1>4, <1>5, <1>6 DEF Next, PruneSome

(* A worker that ends without being enqueued again has done its work. *)
LEMMA EndStep ==
  ASSUME TypeInv, Next, NEW k \in Worker, job[k] # None, job'[k] = None
  PROVE  \/ k \in queue' \/ Restart
         \/ SyncDescriptions(k)
         \/ k = BaseKey /\ ReleaseBase
         \/ k \in Feed /\ PruneLabels(k)
<1> USE DEF workVars
<1>0. \A x \in DOMAIN job : x \in Worker
  BY StateFacts
<1>1. ASSUME NEW x \in Worker, Requeue(x) PROVE k \in queue'
  <2>1. x = k
    BY <1>1, EndFacts
  <2>. QED  BY <1>1, <2>1 DEF Requeue
<1>2. ASSUME NEW x \in Worker, Done(x) \/ Requeue(x) PROVE x = k
  BY <1>2, EndFacts
<1>3. CASE RequestFails
  BY <1>0, <1>1, <1>3 DEF RequestFails
<1>4. CASE Environment
  BY <1>3, <1>4 DEF Environment, EditFeeds, EditManifest, DeleteBase
<1>5. CASE Informers
  BY <1>5 DEF Informers, SyncBase, SyncDesc, SyncManifest
<1>6. CASE BaseWork
  <2>1. BaseKey \in Worker
    BY DEF Worker
  <2>2. ~GetBase
    BY GetBaseFacts DEF Worker
  <2>3. CASE PatchBaseLabels
    BY <1>1, <2>1, <2>3, PatchBaseLabelsFacts DEF Worker
  <2>4. CASE HandleDeletingBase
    BY <1>1, <2>1, <2>4, HandleDeletingBaseFacts DEF Worker
  <2>5. CASE ReleaseBase
    BY <1>2, <2>1, <2>5, ReleaseBaseFacts
  <2>6. ~AddLabelsToReferredFeeds
    BY AddLabelsFacts DEF Worker
  <2>7. ~GatherManifests(BaseKey)
    BY <2>1, GatherFacts
  <2>8. CASE SyncDescriptions(BaseKey)
    BY <1>2, <2>1, <2>8, SyncDescriptionsFacts
  <2>. QED  BY <1>6, <2>2, <2>3, <2>4, <2>5, <2>6, <2>7, <2>8 DEF BaseWork
<1>7. ASSUME NEW f \in Feed, ManifestWork(f) PROVE f = k /\ (SyncDescriptions(f) \/ PruneLabels(f))
  <2>1. f \in Worker
    BY DEF Worker
  <2>2. ~GetManifest(f)
    BY GetManifestFacts
  <2>3. CASE PruneLabels(f)
    BY <1>2, <2>3, PruneLabelsFacts
  <2>4. ~GatherManifests(f)
    BY <2>1, GatherFacts
  <2>5. CASE SyncDescriptions(f)
    BY <1>2, <2>1, <2>5, SyncDescriptionsFacts
  <2>. QED  BY <1>7, <2>2, <2>3, <2>4, <2>5 DEF ManifestWork
<1>8. CASE DescWork \/ PruneSome \/ CollectDescription
  BY <1>8 DEF DescWork, GetDescription, ReportStatus, ReleaseDescription, SyncResource,
              PruneSome, PruneFeeds, CollectDescription
<1>. QED  BY <1>4, <1>5, <1>6, <1>7, <1>8 DEF Next, PruneSome

(* A goroutine that prunes is started by a worker that updates. *)
LEMMA PruneStep ==
  ASSUME TypeInv, Next, NEW fs \in SUBSET Feed, prune'[fs] > 0
  PROVE  \/ prune[fs] > 0
         \/ \E k \in Worker : /\ job[k] # None /\ job[k].pc = "sync"
                              /\ descCache.phase = "live"
                              /\ fs # {} /\ fs = In(descCache.raw) \ In(job[k].want)
                              /\ base' = base
<1> USE DEF workVars
<1>1. prune \in [SUBSET Feed -> 0..MaxPrune]
  BY StateFacts
<1>2. CASE prune' = prune
  BY <1>2
<1>3. CASE Restart
  <2>1. prune' = [s \in SUBSET Feed |-> 0]
    BY <1>3 DEF Restart
  <2>. QED  BY <2>1
<1>4. CASE Environment
  BY <1>2, <1>3, <1>4 DEF Environment, EditFeeds, EditManifest, DeleteBase, RequestFails
<1>5. CASE Informers
  BY <1>2, <1>5 DEF Informers, SyncBase, SyncDesc, SyncManifest
<1>6. ASSUME NEW k \in Worker, SyncDescriptions(k), prune'[fs] # prune[fs]
      PROVE  /\ job[k] # None /\ job[k].pc = "sync" /\ descCache.phase = "live"
             /\ fs # {} /\ fs = In(descCache.raw) \ In(job[k].want) /\ base' = base
  <2>1. base' = base
    BY <1>6 DEF SyncDescriptions, KeepBase
  <2>. QED  BY <1>6, <2>1, SyncDescriptionsFacts, JobFacts DEF UpdatesDesc
<1>7. CASE BaseWork
  BY <1>2, <1>6, <1>7 DEF BaseWork, GetBase, PatchBaseLabels, HandleDeletingBase, ReleaseBase,
                    AddLabelsToReferredFeeds, GatherManifests, Worker
<1>8. CASE \E f \in Feed : ManifestWork(f)
  BY <1>2, <1>6, <1>8 DEF ManifestWork, GetManifest, PruneLabels, GatherManifests, Worker
<1>9. CASE DescWork \/ CollectDescription
  BY <1>2, <1>9 DEF DescWork, GetDescription, ReportStatus, ReleaseDescription, SyncResource,
                    CollectDescription
<1>10. ASSUME NEW s \in SUBSET Feed, PruneFeeds(s) PROVE prune[fs] > 0
  BY <1>1, <1>10 DEF PruneFeeds
<1>. QED  BY <1>4, <1>5, <1>7, <1>8, <1>9, <1>10 DEF Next

-----------------------------------------------------------------------------
(* The cached Description of a live Base is deployed, when no goroutine    *)
(* prunes a feed and new feeds are not in it yet.                          *)
PrunesOthers == \A fs \in SUBSET Feed : prune[fs] > 0 => fs \cap base.feeds = {}
NewFeedsAbsent ==
  descCache.phase = "live" => \A f \in base'.feeds : f \in base.feeds \/ descCache.raw[f] = 0

LEMMA DeployFrame ==
  ASSUME DeployInv, NewFeedsAbsent, descCache' = descCache, deploy' = deploy,
         DescKey \in queue => DescKey \in queue',
         \A f \in base.feeds : child'[f] = child[f]
  PROVE  DeployInv'
BY DEF DeployInv, NewFeedsAbsent

(* A request of the worker, or of a goroutine that prunes, fails. *)
LEMMA DeployFails ==
  ASSUME TypeInv, DeployInv, PrunesOthers, NewFeedsAbsent, RequestFails
  PROVE  DeployInv'
<1>1. descCache' = descCache /\ base' = base
  BY DEF RequestFails, cacheVars, KeepBase
<1>2. CASE UNCHANGED <<deploy, child>> /\ queue \subseteq queue'
  BY <1>1, <1>2, DeployFrame
<1>3. CASE DescKey \in queue'
  BY <1>3 DEF DeployInv
<1>4. CASE /\ deploy # None /\ UNCHANGED <<child, queue>>
           /\ \E f \in deploy.todo :
                deploy' = [deploy EXCEPT !.todo = @ \ {f}, !.failed = TRUE]
  <2>1. deploy \in Deploy
    BY <1>4, StateFacts
  <2>2. deploy' \in Deploy /\ deploy'.desc = deploy.desc /\ deploy'.failed
    BY <1>4, <2>1 DEF Deploy
  <2>3. deploy' # None
    BY <2>2, DeployFacts
  <2>. QED  BY <1>1, <1>4, <2>2, <2>3 DEF DeployInv
<1>5. CASE /\ UNCHANGED <<queue, deploy>>
           /\ \E fs \in SUBSET Feed : \E part \in SUBSET fs : prune[fs] > 0 /\ child' = Without(part)
  <2>1. PICK fs \in SUBSET Feed : \E part \in SUBSET fs : prune[fs] > 0 /\ child' = Without(part)
    BY <1>5
  <2>2. base \in Base
    BY StateFacts
  <2>3. \A f \in base.feeds : f \in Feed /\ f \notin fs
    BY <2>1, <2>2, BaseFacts DEF PrunesOthers
  <2>4. \A f \in base.feeds : child'[f] = child[f]
    BY <2>1, <2>3 DEF Without
  <2>. QED  BY <1>1, <1>5, <2>4, DeployFrame
<1>6. \/ UNCHANGED <<deploy, child>> /\ queue \subseteq queue'
      \/ DescKey \in queue'
      \/ /\ deploy # None /\ UNCHANGED <<child, queue>>
         /\ \E f \in deploy.todo :
              deploy' = [deploy EXCEPT !.todo = @ \ {f}, !.failed = TRUE]
      \/ /\ UNCHANGED <<queue, deploy>>
         /\ \E fs \in SUBSET Feed : \E part \in SUBSET fs : prune[fs] > 0 /\ child' = Without(part)
  BY DEF RequestFails, Requeue, RedeployLater
<1>. QED  BY <1>2, <1>3, <1>4, <1>5, <1>6

LEMMA DeployNext ==
  ASSUME TypeInv, VersionInv, Alive, DeployInv, PrunesOthers, NewFeedsAbsent, Next
  PROVE  DeployInv'
<1> USE DEF apiVars, cacheVars, workVars
<1>1. CASE Restart
  <2>1. descCache' = desc /\ (Exists(desc) => DescKey \in queue')
    BY <1>1 DEF Restart
  <2>. QED  BY <2>1 DEF DeployInv, Exists
<1>2. CASE RequestFails
  BY <1>2, DeployFails
<1>3. CASE \/ \E fs \in SUBSET Feed : EditFeeds(fs)
           \/ DeleteBase \/ \E f \in Feed : EditManifest(f)
  <2>1. UNCHANGED <<descCache, deploy, child, queue>>
    BY <1>3 DEF EditFeeds, DeleteBase, EditManifest
  <2>. QED  BY <2>1, DeployFrame
<1>4. CASE SyncBase \/ \E f \in Feed : SyncManifest(f)
  <2>1. UNCHANGED <<descCache, deploy, child>> /\ queue \subseteq queue'
    BY <1>4 DEF SyncBase, SyncManifest
  <2>. QED  BY <2>1, DeployFrame
<1>5. CASE SyncDesc
  <2>1. /\ UNCHANGED <<base, deploy, child>> /\ descCache' = Head(descWatch) /\ descWatch # <<>>
        /\ queue' = queue \cup DescEventEnqueues(descCache, descCache')
    BY <1>5 DEF SyncDesc
  <2>2. descCache'.phase = "live" /\ descCache.phase \in {"absent", "live"}
    <3>1. descCache.phase \in {"absent", "live", "deleting"}
      BY StateFacts, DescFacts
    <3>. QED  BY <2>1, <3>1, StateFacts, TailFacts DEF Alive
  <2>3. DescKey \in queue' \/ (descCache.phase = "live" /\ descCache.raw = descCache'.raw)
    BY <2>1, <2>2 DEF DescEventEnqueues, Exists
  <2>4. DescKey \in queue => DescKey \in queue'
    BY <2>1
  <2>. QED  BY <2>1, <2>3, <2>4 DEF DeployInv
<1>6. CASE BaseWork \/ \E f \in Feed : ManifestWork(f)
  <2>1. UNCHANGED <<descCache, deploy, child>>
    BY <1>6 DEF BaseWork, GetBase, PatchBaseLabels, HandleDeletingBase, ReleaseBase,
                AddLabelsToReferredFeeds, GatherManifests, SyncDescriptions,
                ManifestWork, GetManifest, PruneLabels
  <2>2. DescKey \in queue => DescKey \in queue'
    BY <1>6, WorkerQueue, ConfigAssumption
  <2>. QED  BY <2>1, <2>2, DeployFrame
<1>7. CASE GetDescription
  <2>1. UNCHANGED <<base, descCache, child>>
    BY <1>7 DEF GetDescription
  <2>2. base.feeds \subseteq Feed
    BY StateFacts, BaseFacts
  <2>. QED  BY <1>7, <2>1, <2>2, GetDescriptionFacts DEF DeployInv, Exists, In
<1>8. ASSUME NEW f \in Feed, SyncResource(f) PROVE DeployInv'
  <2>1. UNCHANGED <<base, descCache, queue>>
    BY <1>8 DEF SyncResource
  <2>2. deploy # None /\ deploy' # None
    BY <1>8, SyncResourceFacts, DeployFacts
  <2>3. base.feeds \subseteq Feed /\ deploy.desc.phase = "live"
    BY <2>2, StateFacts, BaseFacts DEF Alive
  <2>. QED  BY <1>8, <2>1, <2>2, <2>3, SyncResourceFacts DEF DeployInv
<1>9. CASE ReportStatus
  <2>1. UNCHANGED <<base, descCache, child>>
    BY <1>9 DEF ReportStatus, KeepBase
  <2>2. deploy # None
    BY <1>9, ReportStatusFacts, DeployFacts
  <2>. QED  BY <1>9, <2>1, <2>2, ReportStatusFacts DEF DeployInv
<1>10. ~ReleaseDescription
  BY ReleaseDescriptionFacts, DeployFacts DEF Alive
<1>11. ASSUME NEW fs \in SUBSET Feed, PruneFeeds(fs) PROVE DeployInv'
  <2>1. UNCHANGED <<base, descCache, queue, deploy>> /\ child' = Without(fs) /\ prune[fs] > 0
    BY <1>11 DEF PruneFeeds
  <2>2. \A f \in base.feeds : f \in Feed /\ f \notin fs
    BY <2>1, StateFacts, BaseFacts DEF PrunesOthers
  <2>3. \A f \in base.feeds : child'[f] = child[f]
    BY <2>1, <2>2 DEF Without
  <2>. QED  BY <2>1, <2>3, DeployFrame
<1>12. CASE CollectDescription
  <2>1. UNCHANGED <<descCache, deploy, child, queue>>
    BY <1>12 DEF CollectDescription
  <2>. QED  BY <2>1, DeployFrame
<1>. QED  BY <1>1, <1>2, <1>3, <1>4, <1>5, <1>6, <1>7, <1>8, <1>9, <1>10, <1>11, <1>12
          DEF Next, Environment, Informers, DescWork

-----------------------------------------------------------------------------
(* Feeds that only go. *)

LEMMA BaseCacheStep ==
  ASSUME TypeInv, Next PROVE baseCache' = baseCache \/ SyncBase \/ Restart
<1> USE DEF cacheVars
<1>1. CASE Environment
  BY <1>1 DEF Environment, EditFeeds, EditManifest, DeleteBase, RequestFails
<1>2. CASE Informers
  BY <1>2 DEF Informers, SyncDesc, SyncManifest
<1>3. CASE BaseWork
  BY <1>3 DEF BaseWork, GetBase, PatchBaseLabels, HandleDeletingBase, ReleaseBase,
              AddLabelsToReferredFeeds, GatherManifests, SyncDescriptions
<1>4. CASE \E f \in Feed : ManifestWork(f)
  BY <1>4 DEF ManifestWork, GetManifest, PruneLabels, GatherManifests, SyncDescriptions
<1>5. CASE DescWork \/ PruneSome \/ CollectDescription
  BY <1>5 DEF DescWork, GetDescription, ReportStatus, ReleaseDescription, SyncResource,
              PruneSome, PruneFeeds, CollectDescription
<1>. QED  BY <1>1, <1>2, <1>3, <1>4, <1>5 DEF Next, PruneSome

(* A live Base has a Description, or its worker will see to it. *)
Served ==
  \/ desc.phase = "live" \/ baseCache.phase = "absent"
  \/ BaseKey \in queue \/ job[BaseKey] # None

LEMMA ServedNext ==
  ASSUME TypeInv, VersionInv, Alive, Served, Next, base.phase = "live", base'.phase = "live"
  PROVE  Served'
<1>0. BaseKey \in Worker /\ BaseKey \notin Feed
  BY ConfigAssumption DEF Worker
<1>1. CASE Restart
  BY <1>1 DEF Restart, Exists, Served
<1>2. CASE desc.phase = "live"
  BY <1>2, AliveStep DEF StaysAlive, Served
<1>3. CASE baseCache.phase = "absent"
  <2>1. CASE SyncBase
    BY <1>3, <2>1 DEF SyncBase, BaseEventEnqueues, Exists, Served
  <2>. QED  BY <1>1, <1>3, <2>1, BaseCacheStep DEF Served
<1>4. CASE BaseKey \in queue
  <2>1. CASE GetBase
    <3>1. CASE Exists(baseCache)
      BY <2>1, <3>1, GetBaseFacts DEF Served
    <3>2. CASE ~Exists(baseCache)
      <4>1. baseCache.phase = "absent"
        BY <3>2 DEF Alive, Exists
      <4>. QED  BY <1>3, <4>1
    <3>. QED  BY <3>1, <3>2
  <2>. QED  BY <1>0, <1>1, <1>4, <2>1, KeyStep, ConfigAssumption DEF Served
<1>5. CASE job[BaseKey] # None /\ job'[BaseKey] = None
  <2>1. CASE SyncDescriptions(BaseKey)
    <3>1. \/ CreatesDesc /\ desc'.phase = "live"
          \/ descCache.phase = "live"
          \/ BaseKey \in queue'
      BY <1>0, <2>1, SyncDescriptionsFacts DEF UpdatesDesc, DescUpToDate, Requeue
    <3>2. CASE descCache.phase = "live"
      <4>1. desc.phase \in {"absent", "live", "deleting"}
        BY StateFacts, DescFacts
      <4>. QED  BY <1>2, <3>2, <4>1 DEF Alive
    <3>. QED  BY <3>1, <3>2 DEF Served
  <2>2. ~ReleaseBase
    BY <1>0, ReleaseBaseFacts, JobFacts DEF Alive
  <2>. QED  BY <1>0, <1>1, <1>5, <2>1, <2>2, EndStep DEF Served
<1>. QED  BY <1>2, <1>3, <1>4, <1>5 DEF Served

LEMMA ShrinkNext ==
  ASSUME TypeInv, VersionInv, PhaseInv, Unedited, OnlyShrinks(scenario), ShrinkInv, Effect, Next
  PROVE  ShrinkInv'
<1> DEFINE Has(fs) == base'.feeds \subseteq fs
           Ok(raw) == \A f \in base'.feeds : raw[f] = 1
<1>1. base'.feeds \subseteq base.feeds /\ base.feeds \subseteq Feed
  BY FeedsStep, StateFacts, BaseFacts DEF FeedsEffect, OnlyShrinks
<1>2. \A raw : Enough(raw) => Ok(raw)
  BY <1>1 DEF Enough
<1>3. Has(baseCache'.feeds) /\ \A i \in DOMAIN baseWatch' : Has(baseWatch'[i].feeds)
  <2>1. Has(baseCache.feeds) /\ \A i \in DOMAIN baseWatch : Has(baseWatch[i].feeds)
    BY <1>1 DEF ShrinkInv
  <2>2. Has(base'.feeds) /\ baseWatch \in Seq(Base) /\ BaseEffect
    BY StateFacts DEF Effect
  <2> HIDE DEF Has
  <2>3. CASE UNCHANGED <<base, baseCache, baseWatch>>
    BY <2>1, <2>3
  <2>4. CASE baseCache' = baseCache /\ base' \in Base /\ baseWatch' = Append(baseWatch, base')
    BY <2>1, <2>2, <2>4, AppendFacts
  <2>5. CASE /\ baseWatch # <<>> /\ base' = base
             /\ baseCache' = Head(baseWatch) /\ baseWatch' = Tail(baseWatch)
    BY <2>1, <2>2, <2>5, TailFacts
  <2>6. CASE base' = base /\ baseCache' = base /\ baseWatch' = <<>>
    BY <2>2, <2>6
  <2>. QED  BY <2>2, <2>3, <2>4, <2>5, <2>6 DEF BaseEffect
<1>4. ASSUME NEW k \in Worker, job'[k] # None
      PROVE  Has(job'[k].base.feeds) /\ (job'[k].pc = "sync" => Ok(job'[k].want))
  <2>1. CASE job'[k] = job[k]
    BY <1>1, <1>2, <1>4, <2>1 DEF ShrinkInv
  <2>2. CASE Advances(k)
    <3>1. \A f \in Feed : manifestCache[f].content = 1
      BY DEF Unedited, OnlyShrinks
    <3>2. Has(job[k].base.feeds)
      BY <1>1, <2>2 DEF Advances, ShrinkInv
    <3>. QED  BY <1>1, <2>2, <3>1, <3>2 DEF Advances
  <2>3. CASE Starts(k)
    BY <1>1, <2>3 DEF Starts, ShrinkInv
  <2>4. CASE LabelsBase(k)
    BY <2>4 DEF LabelsBase
  <2>. QED  BY <1>4, <2>1, <2>2, <2>3, <2>4, JobStep DEF JobEffect
<1>5. desc'.phase # "absent" => Ok(desc'.raw)
  <2>1. CASE desc' = desc \/ Rewritten
    BY <1>2, <2>1 DEF ShrinkInv, Rewritten, Exists
  <2>2. ASSUME NEW k \in Worker, Syncs(k) PROVE Ok(desc'.raw)
    BY <1>2, <2>2 DEF ShrinkInv, Syncs
  <2>. QED  BY <2>1, <2>2, DescStep DEF Releases
<1>6. /\ descCache'.phase # "absent" => Ok(descCache'.raw)
      /\ \A i \in DOMAIN descWatch' : descWatch'[i].phase # "absent" => Ok(descWatch'[i].raw)
  <2> DEFINE P(o) == o.phase # "absent" => Ok(o.raw)
  <2>1. P(descCache) /\ \A i \in DOMAIN descWatch : P(descWatch[i])
    BY <1>2 DEF ShrinkInv
  <2>2. P(desc') /\ descWatch \in Seq(Description) /\ DescEffect
    BY <1>5, StateFacts DEF Effect
  <2> HIDE DEF P, Ok
  <2>3. P(descCache') /\ \A i \in DOMAIN descWatch' : P(descWatch'[i])
    <3>1. CASE UNCHANGED <<desc, descCache, descWatch>>
      BY <2>1, <3>1
    <3>2. CASE /\ descCache' = descCache /\ desc' \in Description /\ desc'.rv = desc.rv + 1
               /\ descWatch' = Append(descWatch, desc')
      BY <2>1, <2>2, <3>2, AppendFacts
    <3>3. CASE /\ descWatch # <<>> /\ desc' = desc
               /\ descCache' = Head(descWatch) /\ descWatch' = Tail(descWatch)
      BY <2>1, <2>2, <3>3, TailFacts
    <3>4. CASE desc' = desc /\ descCache' = desc /\ descWatch' = <<>>
      BY <2>2, <3>4
    <3>. QED  BY <2>2, <3>1, <3>2, <3>3, <3>4 DEF DescEffect
  <2>. QED  BY <2>3 DEF P
<1>7. deploy' # None => Ok(deploy'.desc.raw)
  BY <1>2 DEF ShrinkInv, Effect, DeployEffect, Exists
<1>8. ASSUME NEW fs \in SUBSET Feed, prune'[fs] > 0 PROVE fs \cap base'.feeds = {}
  <2>1. CASE prune[fs] > 0
    BY <1>1, <2>1 DEF ShrinkInv
  <2>2. ASSUME NEW k \in Worker, job[k] # None, job[k].pc = "sync",
               fs = In(descCache.raw) \ In(job[k].want)
        PROVE  fs \cap base'.feeds = {}
    <3>1. Ok(job[k].want)
      BY <1>2, <2>2 DEF ShrinkInv
    <3>. QED  BY <2>2, <3>1 DEF In
  <2>. QED  BY <1>8, <2>1, <2>2, PruneStep
<1>9. base'.phase = "live" => Served'
  BY BasePhase, ServedNext DEF PhaseInv, ShrinkInv, Served
<1>. QED  BY <1>3, <1>4, <1>5, <1>6, <1>7, <1>8, <1>9 DEF ShrinkInv, Enough, Served

-----------------------------------------------------------------------------
(* A Base that gets feeds. *)

(* Nothing is pruned where workers have all feeds of the Description. *)
LEMMA UnprunedNext ==
  ASSUME TypeInv, FeedsInv, ChildInv, Unpruned, Next PROVE Unpruned'
<1> SUFFICES ASSUME NEW fs \in SUBSET Feed, prune'[fs] > 0 PROVE FALSE
  BY DEF Unpruned
<1>1. PICK k \in Worker : /\ job[k] # None /\ job[k].pc = "sync" /\ descCache.phase = "live"
                          /\ fs # {} /\ fs = In(descCache.raw) \ In(job[k].want)
  BY PruneStep DEF Unpruned
<1>2. \A f \in Feed : descCache.raw[f] # 0 => job[k].want[f] # 0
  BY <1>1 DEF FeedsInv, ChildInv, Covered
<1>. QED  BY <1>1, <1>2 DEF In

LEMMA GrowNext ==
  ASSUME TypeInv, VersionInv, Alive, Unedited, OnlyGrows(scenario), FeedsInv, ChildInv,
         GrowInv, Effect, Next, base.phase = "live", base'.phase = "live"
  PROVE  GrowInv'
<1>0. /\ BaseKey \in Worker /\ BaseKey \notin Feed /\ ~Restart
      /\ \A f \in Feed : job[f] = None
  <2>1. Restart => "restart" \in scenario.kinds
    BY EventFacts DEF Restart
  <2>. QED  BY <2>1, ConfigAssumption DEF Worker, OnlyGrows, FeedsInv
<1>1. Unpruned'
  BY UnprunedNext DEF GrowInv
<1>2. baseCache'.phase = "live"
  <2>1. baseWatch # <<>> => Head(baseWatch).phase = "live"
    BY StateFacts, TailFacts DEF Alive
  <2>. QED  BY <2>1 DEF GrowInv, Effect, BaseEffect
<1>3. desc'.phase = "live"
  BY AliveStep DEF StaysAlive, GrowInv
<1>4. ASSUME NEW f \in Feed, desc'.raw[f] # 0 PROVE desc'.raw[f] = 1
  <2>1. CASE desc' = desc \/ Rewritten
    BY <1>4, <2>1 DEF Rewritten, GrowInv
  <2>2. ASSUME NEW k \in Worker, Syncs(k) PROVE desc'.raw[f] = 1
    <3>1. k = BaseKey
      BY <1>0, <2>2 DEF Syncs, Worker
    <3>. QED  BY <1>4, <2>2, <3>1 DEF Syncs, GrowInv
  <2>. QED  BY <1>3, <2>1, <2>2, DescStep DEF Releases
<1>5. ASSUME job'[BaseKey] # None, job'[BaseKey].pc = "sync", NEW f \in Feed,
             job'[BaseKey].want[f] # 0
      PROVE  job'[BaseKey].want[f] = 1
  <2>1. manifestCache[f].content = 1
    BY DEF Unedited, OnlyGrows
  <2>. QED  BY <1>0, <1>5, <2>1, JobStep DEF JobEffect, Advances, Starts, LabelsBase, GrowInv
<1>6. DescGrows
  BY <1>3, DescGrowth DEF Releases
<1>7. \/ BaseKey \in queue'
      \/ \A f \in baseCache'.feeds : desc'.raw[f] # 0
      \/ job'[BaseKey] # None /\ job'[BaseKey].base.feeds = baseCache'.feeds
  <2>1. baseCache.feeds \subseteq Feed
    BY StateFacts, BaseFacts
  <2>2. CASE SyncBase
    <3>1. UNCHANGED <<desc, job>> /\ queue' = queue \cup BaseEventEnqueues(baseCache, baseCache')
      BY <2>2 DEF SyncBase, apiVars
    <3>2. baseCache'.feeds # baseCache.feeds => BaseKey \in queue'
      BY <3>1 DEF BaseEventEnqueues
    <3>. QED  BY <3>1, <3>2 DEF GrowInv
  <2>3. CASE baseCache' = baseCache
    <3>1. CASE BaseKey \in queue
      <4>1. CASE GetBase
        BY <2>3, <4>1, GetBaseFacts DEF GrowInv, Exists
      <4>. QED  BY <1>0, <3>1, <4>1, KeyStep, ConfigAssumption
    <3>2. CASE \A f \in baseCache.feeds : desc.raw[f] # 0
      BY <1>6, <2>1, <2>3, <3>2 DEF DescGrows
    <3>3. CASE job[BaseKey] # None /\ job[BaseKey].base.feeds = baseCache.feeds
      <4>1. CASE job'[BaseKey] # None
        BY <1>0, <2>3, <3>3, <4>1, JobStep
        DEF JobEffect, Advances, Starts, LabelsBase, FeedsInv
      <4>2. CASE job'[BaseKey] = None
        <5>1. ~ReleaseBase
          BY <1>0, ReleaseBaseFacts, JobFacts DEF Alive
        <5>2. CASE SyncDescriptions(BaseKey)
          <6>1. job[BaseKey].pc = "sync"
            BY <1>0, <5>2, SyncDescriptionsFacts
          <6>2. \A f \in baseCache.feeds : job[BaseKey].want[f] # 0
            BY <1>0, <2>1, <3>3, <6>1 DEF FeedsInv
          <6>3. \/ BaseKey \in queue' \/ desc'.raw = job[BaseKey].want
                \/ desc' = desc /\ DescUpToDate(job[BaseKey].want)
            BY <1>0, <5>2, SyncDescriptionsFacts DEF Requeue
          <6>4. CASE desc' = desc /\ DescUpToDate(job[BaseKey].want)
            BY <2>1, <2>3, <6>2, <6>4 DEF DescUpToDate, ChildInv, Covered
          <6>. QED  BY <2>3, <6>2, <6>3, <6>4
        <5>. QED  BY <1>0, <3>3, <4>2, <5>1, <5>2, EndStep
      <4>. QED  BY <4>1, <4>2
    <3>. QED  BY <3>1, <3>2, <3>3 DEF GrowInv
  <2>. QED  BY <1>0, <2>2, <2>3, BaseCacheStep
<1>. QED  BY <1>1, <1>2, <1>3, <1>4, <1>5, <1>7 DEF GrowInv

-----------------------------------------------------------------------------
(* One Manifest that is edited. *)

(* What all versions on their way have in common stays so. *)
LEMMA DescCarried ==
  ASSUME TypeInv, Effect, NEW S, descCache \in S, desc' \in S,
         \A i \in DOMAIN descWatch : descWatch[i] \in S
  PROVE  descCache' \in S /\ \A i \in DOMAIN descWatch' : descWatch'[i] \in S
<1>1. descWatch \in Seq(Description) /\ DescEffect
  BY StateFacts DEF Effect
<1>2. CASE UNCHANGED <<desc, descCache, descWatch>>
  BY <1>2
<1>3. CASE /\ descCache' = descCache /\ desc' \in Description /\ desc'.rv = desc.rv + 1
           /\ descWatch' = Append(descWatch, desc')
  BY <1>1, <1>3, AppendFacts
<1>4. CASE /\ descWatch # <<>> /\ desc' = desc
           /\ descCache' = Head(descWatch) /\ descWatch' = Tail(descWatch)
  BY <1>1, <1>4, TailFacts
<1>5. CASE desc' = desc /\ descCache' = desc /\ descWatch' = <<>>
  BY <1>5
<1>. QED  BY <1>1, <1>2, <1>3, <1>4, <1>5 DEF DescEffect

LEMMA ManifestCarried ==
  ASSUME TypeInv, Effect, NEW f \in Feed, NEW S, manifestCache[f] \in S, manifest'[f] \in S,
         \A i \in DOMAIN manifestWatch[f] : manifestWatch[f][i] \in S
  PROVE  manifestCache'[f] \in S /\ \A i \in DOMAIN manifestWatch'[f] : manifestWatch'[f][i] \in S
<1>1. manifestWatch[f] \in Seq(Manifest) /\ ManifestEffect(f)
  BY StateFacts DEF Effect
<1>2. CASE Unwritten(f) /\ manifestCache'[f] = manifestCache[f]
  BY <1>2 DEF Unwritten
<1>3. CASE Written(f) /\ manifestCache'[f] = manifestCache[f]
  BY <1>1, <1>3, AppendFacts DEF Written
<1>4. CASE /\ manifestWatch[f] # <<>> /\ manifest'[f] = manifest[f]
           /\ manifestCache'[f] = Head(manifestWatch[f])
           /\ manifestWatch'[f] = Tail(manifestWatch[f])
  BY <1>1, <1>4, TailFacts
<1>5. CASE /\ manifest'[f] = manifest[f] /\ manifestCache'[f] = manifest[f]
           /\ manifestWatch'[f] = <<>>
  BY <1>5
<1>. QED  BY <1>1, <1>2, <1>3, <1>4, <1>5 DEF ManifestEffect

LEMMA ForwardInit == ASSUME Init, TypeInv PROVE Forward
<1>1. manifestCache = manifest
  BY DEF Init
<1>2. ASSUME NEW f \in Feed PROVE DOMAIN manifestWatch[f] = {}
  BY DEF Init
<1>3. ASSUME NEW f \in Feed
      PROVE  /\ manifestCache[f].content <= manifest[f].content
             /\ \A i \in DOMAIN manifestWatch[f] :
                  /\ manifestCache[f].content <= manifestWatch[f][i].content
                  /\ manifestWatch[f][i].content <= manifest[f].content
                  /\ \A j \in DOMAIN manifestWatch[f] :
                       i < j => manifestWatch[f][i].content <= manifestWatch[f][j].content
  <2>1. manifest[f].content \in Nat
    BY StateFacts
  <2>. QED  BY <1>1, <1>2, <2>1
<1>. QED  BY <1>3, Zenon DEF Forward

LEMMA ForwardNext ==
  ASSUME TypeInv, TypeInv', Forward, Effect, Next
  PROVE  /\ Forward'
         /\ \A f \in Feed : /\ manifest[f].content <= manifest'[f].content
                            /\ manifestCache[f].content <= manifestCache'[f].content
<1>1. ASSUME NEW f \in Feed PROVE manifest[f].content <= manifest'[f].content
  <2>1. manifest[f].content \in Nat
    BY StateFacts
  <2>2. CASE manifest'[f].content = manifest[f].content
    BY <2>1, <2>2
  <2>3. ASSUME NEW g \in Feed, EditManifest(g) PROVE manifest[f].content <= manifest'[f].content
    BY <2>1, <2>2, <2>3, EditManifestFacts DEF Unwritten
  <2>. QED  BY <2>2, <2>3, ContentStep
<1>2. ASSUME NEW f \in Feed
      PROVE  /\ manifestCache[f].content <= manifestCache'[f].content
             /\ manifestCache'[f].content <= manifest'[f].content
             /\ \A i \in DOMAIN manifestWatch'[f] :
                  /\ manifestCache'[f].content <= manifestWatch'[f][i].content
                  /\ manifestWatch'[f][i].content <= manifest'[f].content
                  /\ \A j \in DOMAIN manifestWatch'[f] :
                       i < j => manifestWatch'[f][i].content <= manifestWatch'[f][j].content
  <2> DEFINE w == manifestWatch[f]
             m == manifest[f].content
             c == manifestCache[f].content
  <2>1. /\ w \in Seq(Manifest) /\ ManifestEffect(f) /\ manifest[f] \in Manifest
        /\ manifestCache[f] \in Manifest
    BY StateFacts DEF Effect
  <2>2. m \in Nat /\ c \in Nat /\ \A i \in DOMAIN w : w[i].content \in Nat
    <3>1. \A i \in DOMAIN w : w[i] \in Manifest
      BY <2>1
    <3>. QED  BY <2>1, <3>1, ManifestFacts
  <2>3. manifest'[f].content \in Nat /\ m <= manifest'[f].content
    <3>1. manifest'[f] \in Manifest
      BY DEF TypeInv, TypeOK
    <3>. QED  BY <1>1, <3>1, ManifestFacts
  <2>4. /\ c <= m
        /\ \A i \in DOMAIN w :
             /\ c <= w[i].content /\ w[i].content <= m
             /\ \A j \in DOMAIN w : i < j => w[i].content <= w[j].content
    BY DEF Forward
  <2>5. CASE Unwritten(f) /\ manifestCache'[f] = manifestCache[f]
    BY <2>2, <2>4, <2>5 DEF Unwritten
  <2>6. CASE Written(f) /\ manifestCache'[f] = manifestCache[f]
    <3>1. manifest'[f] \in Manifest /\ manifestWatch'[f] = Append(w, manifest'[f])
      BY <2>6 DEF Written
    <3>2. Len(w) \in Nat /\ \A i \in DOMAIN w : i \in 1..Len(w)
      BY <2>1
    <3> HIDE DEF w, m, c
    <3>3. \A i \in DOMAIN manifestWatch'[f] :
            \/ i \in DOMAIN w /\ manifestWatch'[f][i] = w[i]
            \/ i = Len(w) + 1 /\ manifestWatch'[f][i] = manifest'[f]
      BY <2>1, <3>1, AppendFacts
    <3>. QED  BY <2>2, <2>3, <2>4, <2>6, <3>2, <3>3 DEF c
  <2>7. CASE /\ manifestWatch[f] # <<>> /\ manifest'[f] = manifest[f]
             /\ manifestCache'[f] = Head(manifestWatch[f])
             /\ manifestWatch'[f] = Tail(manifestWatch[f])
    <3>1. /\ 1 \in DOMAIN w /\ manifestCache'[f] = w[1] /\ manifest'[f].content = m
          /\ \A i \in DOMAIN manifestWatch'[f] :
               /\ i \in Nat /\ i + 1 \in DOMAIN w /\ 1 < i + 1
               /\ manifestWatch'[f][i] = w[i + 1]
      BY <2>1, <2>7, TailFacts
    <3> HIDE DEF w, m, c
    <3>2. \A i, j \in DOMAIN manifestWatch'[f] : i < j => i + 1 < j + 1
      BY <3>1
    <3>. QED  BY <2>2, <2>4, <3>1, <3>2 DEF c
  <2>8. CASE /\ manifest'[f] = manifest[f] /\ manifestCache'[f] = manifest[f]
             /\ manifestWatch'[f] = <<>>
    BY <2>2, <2>4, <2>8
  <2>. QED  BY <2>1, <2>5, <2>6, <2>7, <2>8 DEF ManifestEffect
<1>. QED  BY <1>1, <1>2 DEF Forward

(* A change of the contents that the informer has enqueues the Manifest. *)
LEMMA ManifestCacheStep ==
  ASSUME TypeInv, Next, NEW f \in Feed, manifestCache'[f].content # manifestCache[f].content
  PROVE  Restart \/ f \in queue'
<1> USE DEF cacheVars
<1>1. CASE Environment
  BY <1>1 DEF Environment, EditFeeds, EditManifest, DeleteBase, RequestFails
<1>2. ASSUME NEW g \in Feed, SyncManifest(g) PROVE f \in queue'
  <2>1. manifestCache \in [Feed -> Manifest]
    BY StateFacts
  <2>. QED  BY <1>2, <2>1 DEF SyncManifest, ManifestEventEnqueues
<1>3. CASE Informers
  BY <1>2, <1>3 DEF Informers, SyncBase, SyncDesc
<1>4. CASE BaseWork
  BY <1>4 DEF BaseWork, GetBase, PatchBaseLabels, HandleDeletingBase, ReleaseBase,
              AddLabelsToReferredFeeds, GatherManifests, SyncDescriptions
<1>5. CASE \E g \in Feed : ManifestWork(g)
  BY <1>5 DEF ManifestWork, GetManifest, PruneLabels, GatherManifests, SyncDescriptions
<1>6. CASE DescWork \/ PruneSome \/ CollectDescription
  BY <1>6 DEF DescWork, GetDescription, ReportStatus, ReleaseDescription, SyncResource,
              PruneSome, PruneFeeds, CollectDescription
<1>. QED  BY <1>1, <1>3, <1>4, <1>5, <1>6 DEF Next, PruneSome

(* Nobody writes the live Base, and only edits write Manifests. *)
LEMMA EditFrame ==
  ASSUME TypeInv, Alive, OnlyEdits(scenario), EditInv, Next, base'.phase = "live"
  PROVE  /\ UNCHANGED <<base, baseCache, baseWatch>>
         /\ manifest' = manifest \/ \E g \in Feed : EditManifest(g)
<1> USE DEF apiVars, cacheVars, KeepBase, KeepManifests
<1>1. \A k \in Worker : job[k] # None => job[k].pc \in {"gather", "sync"}
  <2>1. ASSUME NEW f \in Feed, job[f] # None PROVE job[f].pc \in {"gather", "sync"}
    BY <2>1 DEF EditInv
  <2>. QED  BY <2>1 DEF EditInv, Worker
<1>2. ~Restart /\ ~DeleteBase
  <2>1. Restart => "restart" \in scenario.kinds
    BY EventFacts DEF Restart
  <2>. QED  BY <2>1, DeleteBaseFacts DEF OnlyEdits, BaseWritten
<1>3. ASSUME NEW fs \in SUBSET Feed, EditFeeds(fs) PROVE FALSE
  <2>1. base'.feeds = fs /\ fs # base.feeds
    BY <1>3, EditFeedsFacts DEF BaseWritten, EditFeeds
  <2>. QED  BY <2>1, FeedsStep DEF FeedsEffect, OnlyEdits
<1>4. CASE RequestFails
  <2>1. \A k \in DOMAIN job : k \in Worker
    BY StateFacts
  <2>2. manifest' = manifest
    BY <1>1, <1>4, <2>1 DEF RequestFails
  <2>. QED  BY <1>4, <2>2 DEF RequestFails, EditInv
<1>5. CASE Environment
  BY <1>2, <1>3, <1>4, <1>5 DEF Environment, EditManifest
<1>6. CASE Informers
  BY <1>6 DEF Informers, SyncBase, SyncDesc, SyncManifest, EditInv
<1>7. CASE BaseWork
  <2>1. ~PatchBaseLabels
    BY PatchBaseLabelsFacts, JobFacts DEF EditInv
  <2>2. ~HandleDeletingBase
    BY HandleDeletingBaseFacts, JobFacts DEF EditInv
  <2>3. ~ReleaseBase
    BY ReleaseBaseFacts, JobFacts DEF EditInv
  <2>4. ~AddLabelsToReferredFeeds
    BY AddLabelsFacts, JobFacts DEF EditInv
  <2>. QED  BY <1>7, <2>1, <2>2, <2>3, <2>4
            DEF BaseWork, GetBase, GatherManifests, SyncDescriptions, watchVars
<1>8. CASE \E f \in Feed : ManifestWork(f)
  <2>1. \A f \in Feed : ~PruneLabels(f)
    BY <1>1, PruneLabelsFacts, JobFacts
  <2>. QED  BY <1>8, <2>1 DEF ManifestWork, GetManifest, GatherManifests, SyncDescriptions,
                              watchVars
<1>9. CASE DescWork \/ PruneSome \/ CollectDescription
  BY <1>9 DEF DescWork, GetDescription, ReportStatus, ReleaseDescription, SyncResource,
              PruneSome, PruneFeeds, CollectDescription, watchVars
<1>. QED  BY <1>5, <1>6, <1>7, <1>8, <1>9 DEF Next, PruneSome

LEMMA EditNext ==
  ASSUME TypeInv, TypeInv', VersionInv, Alive, Forward, OnlyEdits(scenario), FeedsInv, ChildInv,
         EditInv, Effect, Next, base.phase = "live", base'.phase = "live"
  PROVE  EditInv'
<1>0. /\ BaseKey \in Worker /\ BaseKey \notin Feed /\ ~Restart /\ Fixed
      /\ UNCHANGED <<base, baseCache, baseWatch>> /\ baseCache = base /\ base.uidLabel
  <2>1. Restart => "restart" \in scenario.kinds
    BY EventFacts DEF Restart
  <2>2. baseCache = base
    BY DEF VersionInv, Follows, EditInv
  <2>. QED  BY <2>1, <2>2, EditFrame, ConfigAssumption DEF Worker, OnlyEdits, Fixed, EditInv
<1>1. Unpruned'
  BY UnprunedNext DEF EditInv
<1>2. desc'.phase = "live"
  BY AliveStep DEF StaysAlive, EditInv
<1>3. BaseKey \notin queue' /\ job'[BaseKey] = None
  <2>1. descWatch # <<>> => Exists(Head(descWatch))
    BY StateFacts, TailFacts DEF Alive, Exists
  <2>2. BaseKey \notin queue'
    BY <1>0, <2>1, QueueStep DEF EditInv, OnlyEdits
  <2>. QED  BY <1>0, <2>2, JobStep DEF JobEffect, Advances, Starts, LabelsBase, EditInv
<1>4. ASSUME NEW f \in Feed
      PROVE  /\ manifest'[f].labelled = manifest[f].labelled
             /\ manifestCache'[f].labelled = manifest[f].labelled
             /\ \A i \in DOMAIN manifestWatch'[f] :
                  manifestWatch'[f][i].labelled = manifest[f].labelled
  <2>1. manifest'[f].labelled = manifest[f].labelled
    BY EditFrame, EditManifestFacts DEF Unwritten
  <2> DEFINE S == {m \in Manifest : m.labelled = manifest[f].labelled}
  <2>2. manifest'[f] \in Manifest
    BY DEF TypeInv, TypeOK
  <2>3. manifestCache[f] \in Manifest /\ \A i \in DOMAIN manifestWatch[f] : manifestWatch[f][i] \in Manifest
    BY StateFacts
  <2>4. /\ manifestCache[f].labelled = manifest[f].labelled
        /\ \A i \in DOMAIN manifestWatch[f] : manifestWatch[f][i].labelled = manifest[f].labelled
    <3>1. manifest[f].labelled \in BOOLEAN /\ manifestCache[f].labelled \in BOOLEAN
          /\ \A i \in DOMAIN manifestWatch[f] : manifestWatch[f][i].labelled \in BOOLEAN
      BY <2>3, StateFacts, ManifestFacts
    <3>. QED  BY <3>1 DEF EditInv
  <2>5. /\ manifestCache[f] \in S /\ manifest'[f] \in S
        /\ \A i \in DOMAIN manifestWatch[f] : manifestWatch[f][i] \in S
    BY <2>1, <2>2, <2>3, <2>4
  <2>6. \A m \in S : m.labelled = manifest[f].labelled
    OBVIOUS
  <2> HIDE DEF S
  <2>7. manifestCache'[f] \in S /\ \A i \in DOMAIN manifestWatch'[f] : manifestWatch'[f][i] \in S
    BY <2>5, ManifestCarried
  <2>. QED  BY <2>1, <2>6, <2>7
<1>5. ASSUME NEW f \in Feed \ base.feeds PROVE job'[f] = None
  <2>1. f \in Worker /\ f # BaseKey /\ job[f] = None /\ ~RefersToBase(f)
    BY <1>0 DEF EditInv, RefersToBase, Worker
  <2>. QED  BY <2>1, JobStep DEF JobEffect, Advances, Starts, LabelsBase
<1>6. PICK x \in Feed : base.feeds = {x}
  BY DEF EditInv
<1> DEFINE r == desc.raw[x]
           rn == desc'.raw[x]
           c == manifestCache[x].content
           cn == manifestCache'[x].content
<1>7. /\ x \in Worker /\ x # BaseKey /\ x \in base.feeds
      /\ \A k \in Worker : job[k] # None => k = x
  BY <1>0, <1>6 DEF EditInv, Worker
<1>8. r \in Nat /\ rn \in Nat /\ c \in Nat /\ cn \in Nat /\ c <= cn /\ r <= c
  <2>1. desc \in Description /\ desc' \in Description /\ manifestCache[x] \in Manifest
        /\ manifestCache'[x] \in Manifest
    BY StateFacts DEF TypeInv, TypeOK
  <2>2. r \in Nat /\ rn \in Nat /\ c \in Nat /\ cn \in Nat
    BY <2>1, DescFacts, ManifestFacts
  <2>. QED  BY <1>7, <2>2, ForwardNext DEF EditInv
<1>9. job[x] # None => job[x].want[x] \in Nat /\ job[x].base.feeds = {x}
  BY <1>0, <1>6, <1>7, StateFacts, JobFacts DEF FeedsInv
<1>10. \/ rn = r /\ (job'[x] # None => ~Syncs(x))
       \/ Syncs(x) /\ rn = job[x].want[x] /\ job'[x] = None
  <2>1. ASSUME NEW k \in Worker, Syncs(k) PROVE k = x
    BY <1>7, <2>1 DEF Syncs
  <2>2. Syncs(x) => rn = job[x].want[x] /\ job'[x] = None
    BY DEF Syncs
  <2>. QED  BY <1>2, <2>1, <2>2, DescStep DEF Rewritten, Releases
<1>11. r <= rn /\ rn <= c
  BY <1>7, <1>8, <1>9, <1>10 DEF Syncs, EditInv
<1>12. descCache'.raw[x] <= rn /\ \A i \in DOMAIN descWatch' : descWatch'[i].raw[x] <= rn
  <2> DEFINE S == {o \in Description : o.raw[x] <= rn}
  <2>1. ASSUME NEW o \in Description, o.raw[x] <= r PROVE o \in S
    BY <1>8, <1>11, <2>1, DescFacts
  <2>2. desc \in Description /\ descCache \in Description /\ desc' \in Description
        /\ \A i \in DOMAIN descWatch : descWatch[i] \in Description
    BY StateFacts DEF TypeInv, TypeOK
  <2>3. desc' \in S
    BY <1>8, <2>2
  <2>4. descCache.raw[x] <= r /\ \A i \in DOMAIN descWatch : descWatch[i].raw[x] <= r
    BY <1>7 DEF EditInv
  <2>5. \A o \in S : o.raw[x] <= rn
    OBVIOUS
  <2> HIDE DEF S
  <2>6. descCache' \in S /\ \A i \in DOMAIN descWatch' : descWatch'[i] \in S
    BY <2>1, <2>2, <2>3, <2>4, DescCarried
  <2>. QED  BY <2>5, <2>6
<1>13. ASSUME job'[x] # None
       PROVE  /\ job'[x].pc \in {"gather", "sync"}
              /\ job'[x].pc = "sync" => rn <= job'[x].want[x] /\ job'[x].want[x] <= cn
  <2>1. CASE job'[x] = job[x]
    BY <1>7, <1>8, <1>9, <1>10, <1>13, <2>1 DEF EditInv
  <2>2. CASE Advances(x)
    <3>1. job'[x].pc = "sync" /\ job'[x].want[x] = c /\ cn = c
      BY <1>7, <1>9, <2>2 DEF Advances
    <3>. QED  BY <1>8, <1>11, <3>1
  <2>3. CASE Starts(x)
    BY <1>0, <1>7, <2>3 DEF Starts
  <2>. QED  BY <1>7, <1>13, <2>1, <2>2, <2>3, JobStep DEF JobEffect, LabelsBase
<1>14. \/ x \in queue' \/ rn = cn
       \/ job'[x] # None /\ (job'[x].pc = "sync" => job'[x].want[x] = cn)
  <2>1. CASE cn # c
    BY <1>0, <2>1, ManifestCacheStep
  <2>2. CASE x \in queue
    <3>1. CASE GetManifest(x)
      <4>1. RefersToBase(x)
        BY <1>0, <1>7 DEF RefersToBase, Exists, EditInv
      <4>. QED  BY <1>0, <1>7, <3>1, <4>1, GetManifestFacts
    <3>. QED  BY <1>0, <1>7, <2>2, <3>1, KeyStep, ConfigAssumption
  <2>3. CASE cn = c /\ r = c
    BY <1>8, <1>11, <2>3
  <2>4. CASE cn = c /\ job[x] # None /\ (job[x].pc = "sync" => job[x].want[x] = c)
    <3>1. CASE job'[x] # None
      <4>1. CASE Advances(x)
        BY <1>7, <1>9, <2>4, <4>1 DEF Advances
      <4>. QED  BY <1>7, <2>4, <3>1, <4>1, JobStep DEF JobEffect, Starts, LabelsBase
    <3>2. CASE job'[x] = None
      <4>1. ~PruneLabels(x)
        BY <1>7, PruneLabelsFacts, JobFacts DEF EditInv
      <4>2. CASE SyncDescriptions(x)
        <5>1. job[x].pc = "sync" /\ job[x].want[x] = c
          BY <1>7, <2>4, <4>2, SyncDescriptionsFacts
        <5>2. \/ x \in queue' \/ desc'.raw = job[x].want
              \/ desc' = desc /\ descCache.raw = job[x].want
          BY <1>7, <4>2, SyncDescriptionsFacts DEF Requeue, DescUpToDate
        <5>3. CASE desc' = desc /\ descCache.raw = job[x].want
          <6>1. c <= r
            BY <1>7, <5>1, <5>3 DEF EditInv
          <6>. QED  BY <1>8, <1>11, <2>4, <5>3, <6>1
        <5>. QED  BY <2>4, <5>1, <5>2, <5>3
      <4>. QED  BY <1>0, <1>7, <2>4, <3>2, <4>1, <4>2, EndStep
    <3>. QED  BY <3>1, <3>2
  <2>. QED  BY <1>7, <2>1, <2>2, <2>3, <2>4 DEF EditInv
<1>15. manifest[x].labelled /\ \A f \in Feed \ base.feeds : ~manifest[f].labelled
  BY <1>7 DEF EditInv
<1>16. rn <= cn
  BY <1>8, <1>11
<1> HIDE DEF r, rn, c, cn
<1>17. /\ baseWatch' = <<>> /\ base'.uidLabel /\ base'.feeds = {x} /\ baseWatch = <<>>
  BY <1>0, <1>6 DEF EditInv
<1>. QED  BY <1>1, <1>2, <1>3, <1>4, <1>5, <1>6, <1>12, <1>13, <1>14, <1>15, <1>16, <1>17
          DEF EditInv, rn, cn

-----------------------------------------------------------------------------
(* No update is lost. *)

LEMMA UpdateInit == ASSUME Init, TypeInv PROVE UpdateInv
<1>1. /\ descCache = desc /\ descWatch = <<>> /\ deploy = None /\ queue = {}
      /\ manifestCache = manifest
      /\ \A k \in Worker : job[k] = None
  BY DEF Init, Worker
<1>2. Unpruned
  BY DEF Init, Unpruned
<1>3. scenario.feeds \subseteq Feed /\ BaseKey \in Worker /\ \A f \in Feed : f \in Worker
  BY DEF TypeInv, ScenarioType, Worker
<1>4. \A f \in scenario.feeds : FirstRaw[f] = 1
  BY <1>3 DEF FirstRaw
<1>5. \A f \in Feed : FirstRaw[f] # 0 => FirstRaw[f] = 1
  BY DEF FirstRaw
<1>6. ASSUME NEW f \in Feed PROVE DOMAIN manifestWatch[f] = {}
  BY DEF Init
<1>7. CASE scenario.settled
  <2>1. InitSettled
    BY <1>7 DEF Init
  <2>2. /\ baseCache = base /\ baseWatch = <<>> /\ base.feeds = scenario.feeds /\ base.uidLabel
        /\ base.phase = "live"
        /\ desc.phase = "live" /\ desc.raw = FirstRaw /\ child = FirstRaw
    BY <2>1 DEF InitSettled, NewBase
  <2>3. ASSUME NEW f \in Feed
        PROVE  manifest[f].content = 1 /\ (manifest[f].labelled <=> f \in scenario.feeds)
    <3>1. (f \in scenario.feeds) \in BOOLEAN
      OBVIOUS
    <3>2. manifest[f] = [rv |-> 1, content |-> 1, labelled |-> f \in scenario.feeds]
      BY <2>1 DEF InitSettled, NewManifest
    <3>3. manifest[f].content = 1
      BY <3>2
    <3>4. manifest[f].labelled = (f \in scenario.feeds)
      BY <3>2
    <3>. QED  BY <3>1, <3>3, <3>4, Zenon
  <2>4. ShrinkInv
    BY <1>1, <1>2, <1>4, <2>2 DEF ShrinkInv, Enough, Unpruned
  <2>5. OnlyEdits(scenario) => EditInv
    BY <1>1, <1>2, <1>3, <1>4, <1>6, <2>2, <2>3 DEF EditInv, OnlyEdits
  <2>6. GrowInv
    BY <1>1, <1>2, <1>3, <1>4, <1>5, <2>2 DEF GrowInv
  <2>7. DeployInv
    BY <1>1, <2>2 DEF DeployInv
  <2>. QED  BY <2>4, <2>5, <2>6, <2>7 DEF UpdateInv
<1>8. CASE ~scenario.settled
  <2>1. InitNew
    BY <1>8 DEF Init
  <2>2. /\ baseCache.feeds = base.feeds /\ baseWatch = <<base>> /\ baseCache.phase = "absent"
        /\ desc.phase = "absent"
    BY <2>1 DEF InitNew, NewBase, NoDesc
  <2>3. \A i \in DOMAIN baseWatch : baseWatch[i] = base
    BY <2>2
  <2>4. ShrinkInv
    BY <1>1, <1>2, <2>2, <2>3 DEF ShrinkInv, Unpruned
  <2>5. DeployInv
    BY <1>1, <2>2 DEF DeployInv
  <2>. QED  BY <1>8, <2>4, <2>5 DEF UpdateInv, OnlyEdits, OnlyGrows
<1>. QED  BY <1>7, <1>8

LEMMA UpdateNext ==
  ASSUME TypeInv, TypeInv', VersionInv, PhaseInv, Unedited, Forward, LeftInv, UpdateInv,
         Effect, Next
  PROVE  UpdateInv'
<1>1. /\ OnlyShrinks(scenario)' = OnlyShrinks(scenario)
      /\ OnlyEdits(scenario)' = OnlyEdits(scenario)
      /\ OnlyGrows(scenario)' = OnlyGrows(scenario)
      /\ OrderlyUpdates(scenario)' = OrderlyUpdates(scenario)
  BY ScenarioKept DEF SameScenario, OnlyShrinks, OnlyEdits, OnlyGrows, OrderlyUpdates
<1>2. base'.phase = "live" => base.phase = "live" /\ Alive
  BY BasePhase DEF PhaseInv
<1>3. OnlyEdits(scenario) \/ OnlyGrows(scenario) => Kept /\ FeedsInv /\ ChildInv
  BY DEF LeftInv, Kept, Fixed, OnlyEdits
<1>4. OnlyShrinks(scenario) => ShrinkInv'
  BY ShrinkNext DEF UpdateInv
<1>5. OnlyEdits(scenario) /\ base'.phase = "live" => EditInv'
  BY <1>2, <1>3, EditNext DEF UpdateInv
<1>6. OnlyGrows(scenario) /\ base'.phase = "live" => GrowInv'
  BY <1>2, <1>3, GrowNext DEF UpdateInv
<1>7. ASSUME OrderlyUpdates(scenario), base'.phase = "live" PROVE DeployInv'
  <2>1. CASE OnlyShrinks(scenario)
    <3>1. PrunesOthers
      BY <2>1 DEF UpdateInv, ShrinkInv, PrunesOthers
    <3>2. NewFeedsAbsent
      BY <2>1, FeedsStep DEF FeedsEffect, OnlyShrinks, NewFeedsAbsent
    <3>. QED  BY <1>2, <1>7, <3>1, <3>2, DeployNext DEF UpdateInv
  <2>2. CASE OnlyEdits(scenario) \/ OnlyGrows(scenario)
    <3>1. PrunesOthers
      BY <1>2, <1>7, <2>2 DEF UpdateInv, EditInv, GrowInv, Unpruned, PrunesOthers
    <3>2. NewFeedsAbsent
      <4> SUFFICES ASSUME descCache.phase = "live", NEW f \in base'.feeds, descCache.raw[f] # 0
                   PROVE  f \in base.feeds
        BY DEF NewFeedsAbsent
      <4>1. f \in Feed
        <5>1. base' \in Base
          BY DEF TypeInv, TypeOK
        <5>. QED  BY <5>1, BaseFacts
      <4>. QED  BY <1>3, <2>2, <4>1 DEF ChildInv, Covered, FeedsInv
    <3>. QED  BY <1>2, <1>7, <3>1, <3>2, DeployNext DEF UpdateInv
  <2>. QED  BY <1>7, <2>1, <2>2 DEF OrderlyUpdates
<1>. QED  BY <1>1, <1>4, <1>5, <1>6, <1>7 DEF UpdateInv

LEMMA IInvInit == Init => IInv
BY GoneInit, ForwardInit, UpdateInit DEF GoneInv, IInv

LEMMA IInvNext == IInv /\ [Next]_vars => IInv'
<1> SUFFICES ASSUME IInv, [Next]_vars PROVE IInv'
  OBVIOUS
<1>1. GoneInv'
  BY GoneStep DEF IInv, GoneInv
<1>2. CASE Next
  <2>1. Effect
    BY <1>2, Effects DEF IInv
  <2>2. Forward'
    BY <1>1, <1>2, <2>1, ForwardNext DEF IInv, GoneInv
  <2>3. UpdateInv'
    BY <1>1, <1>2, <2>1, UpdateNext DEF IInv, GoneInv
  <2>. QED  BY <1>1, <2>2, <2>3 DEF IInv, GoneInv
<1>3. CASE UNCHANGED vars
  <2> USE DEF vars, apiVars, cacheVars, watchVars, workVars
  <2>1. Forward'
    BY <1>3 DEF IInv, Forward
  <2>2. ShrinkInv' = ShrinkInv
    BY <1>3 DEF ShrinkInv, Enough
  <2>3. EditInv' = EditInv
    BY <1>3 DEF EditInv, Unpruned
  <2>4. GrowInv' = GrowInv
    BY <1>3 DEF GrowInv, Unpruned
  <2>5. DeployInv' = DeployInv
    BY <1>3 DEF DeployInv
  <2>6. UpdateInv'
    BY <1>3, <2>2, <2>3, <2>4, <2>5 DEF IInv, UpdateInv
  <2>. QED  BY <1>1, <2>1, <2>6 DEF IInv, GoneInv
<1>. QED  BY <1>2, <1>3

LEMMA NothingLost ==
  ASSUME IInv, OrderlyUpdates(scenario) PROVE FeedsDeployed
<1> SUFFICES ASSUME Idle, base.phase = "live", NEW f \in base.feeds
             PROVE  child[f] = manifest[f].content
  BY DEF FeedsDeployed
<1>1. TypeInv /\ VersionInv /\ PhaseInv /\ Unedited /\ UpdateInv
  BY DEF IInv
<1>2. f \in Feed
  BY <1>1, StateFacts, BaseFacts
<1>3. /\ baseCache = base /\ descCache = desc /\ manifestCache[f] = manifest[f]
      /\ queue = {} /\ deploy = None /\ job[BaseKey] = None /\ job[f] = None
  <2>1. baseWatch = <<>> /\ descWatch = <<>> /\ manifestWatch[f] = <<>>
    BY <1>2 DEF Idle
  <2>2. BaseKey \in DOMAIN job /\ f \in DOMAIN job
    BY <1>1, <1>2, StateFacts DEF Worker
  <2>. QED  BY <1>1, <1>2, <2>1, <2>2 DEF Idle, VersionInv, DescVersions, Follows
<1>4. manifest[f].content \in Nat /\ manifest[f].content # 0
  <2>1. manifest[f] \in Manifest
    BY <1>1, <1>2, StateFacts
  <2>. QED  BY <2>1, ManifestFacts
<1>5. desc.phase = "live" /\ desc.raw[f] = manifest[f].content
  <2>1. CASE OnlyShrinks(scenario)
    <3>1. ShrinkInv /\ manifest[f].content = 1
      BY <1>1, <1>2, <2>1 DEF UpdateInv, OnlyShrinks, Unedited
    <3>2. desc.phase = "live"
      BY <1>3, <3>1 DEF ShrinkInv
    <3>. QED  BY <3>1, <3>2 DEF ShrinkInv, Enough
  <2>2. CASE OnlyEdits(scenario)
    BY <1>1, <1>3, <2>2 DEF UpdateInv, EditInv
  <2>3. CASE OnlyGrows(scenario)
    <3>1. GrowInv /\ manifest[f].content = 1
      BY <1>1, <1>2, <2>3 DEF UpdateInv, OnlyGrows, Unedited
    <3>. QED  BY <1>2, <1>3, <3>1 DEF GrowInv
  <2>. QED  BY <2>1, <2>2, <2>3 DEF OrderlyUpdates
<1>6. DeployInv
  BY <1>1 DEF UpdateInv
<1>. QED  BY <1>3, <1>4, <1>5, <1>6 DEF DeployInv

(* No update of a Base or of a Manifest is lost on its way to the child    *)
(* cluster, whatever requests fail: once syncHandler of the three          *)
(* controllers has nothing left to do for a live Base, the child cluster   *)
(* has every feed with the contents of its Manifest.                       *)
THEOREM UpdatesReachChild ==
  ASSUME \A s \in Scenario : OrderlyUpdates(s)
  PROVE  Spec => []FeedsDeployed
<1>1. Init => IInv /\ OrderlyUpdates(scenario)
  BY IInvInit DEF Init
<1>2. IInv /\ OrderlyUpdates(scenario) /\ [Next]_vars => IInv' /\ OrderlyUpdates(scenario)'
  <2> SUFFICES ASSUME IInv, OrderlyUpdates(scenario), [Next]_vars
               PROVE  IInv' /\ OrderlyUpdates(scenario)'
    OBVIOUS
  <2>1. SameScenario
    BY ScenarioKept DEF IInv, vars, SameScenario
  <2>. QED  BY <2>1, IInvNext DEF SameScenario, OrderlyUpdates, OnlyShrinks, OnlyEdits, OnlyGrows
<1>3. IInv /\ OrderlyUpdates(scenario) => FeedsDeployed
  BY NothingLost
<1>. QED  BY <1>1, <1>2, <1>3, PTL DEF Spec
=============================================================================
