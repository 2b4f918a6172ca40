-------------------------- MODULE AgentSyncProofs --------------------------
(***************************************************************************)
(* What AgentSync guarantees for every Description, every mode of hub and  *)
(* agent and every number of events: type correctness, and that the child  *)
(* cluster ends up as the Description says.                                *)
(***************************************************************************)
EXTENDS AgentSync, TLAPS

ScenarioType == [syncMode: SyncMode, appPusher: BOOLEAN, recovery: BOOLEAN,
                 deployed: BOOLEAN, kinds: SUBSET EventKind, left: 0..MaxEvents]

(* An edit uses up an event, so contents stay in their range. *)
TypeInv ==
  /\ TypeOK
  /\ scenario \in ScenarioType
  /\ scenario.syncMode = "Push" => scenario.appPusher
  /\ \A r \in Res : desc.raw[r] + scenario.left <= MaxEvents + 1

(* What a step never changes about the scenario. *)
SameMode ==
  /\ scenario'.syncMode = scenario.syncMode
  /\ scenario'.appPusher = scenario.appPusher
  /\ scenario'.recovery = scenario.recovery
  /\ scenario'.kinds = scenario.kinds

-----------------------------------------------------------------------------
(* Types of the parts of a step.                                           *)

LEMMA DescFacts ==
  ASSUME NEW d \in Description
  PROVE  /\ d.phase \in {"live", "deleting", "gone"} /\ d.rv \in Nat
         /\ d.raw \in [Res -> Content] /\ d.status \in {"none", "ok", "failed"}
         /\ \A r \in Res : d.raw[r] \in Nat /\ d.raw[r] <= MaxEvents + 1
BY ConfigAssumption DEF Description, Raw, Content

LEMMA JobFacts ==
  ASSUME NEW j \in Job
  PROVE  /\ j # None /\ j.desc \in Description /\ j.todo \subseteq Res
         /\ j.failed \in BOOLEAN /\ j.blocked \in BOOLEAN
BY NoneAssumption DEF Job

LEMMA UpdateFacts ==
  ASSUME TypeInv, update # None
  PROVE  update \in Update /\ update.res \in Res /\ update.rv \in Nat
BY DEF TypeInv, TypeOK, Update

LEMMA NewJobFacts ==
  ASSUME TypeInv
  PROVE  /\ NewJob \in Job /\ NewJob # None
         /\ NewJob.desc = descCache /\ NewJob.todo = In(descCache.raw)
         /\ NewJob.failed = FALSE /\ NewJob.blocked = FALSE
<1>1. descCache \in Description /\ In(descCache.raw) \subseteq Res
  BY DEF TypeInv, TypeOK, In
<1>2. NewJob \in Job
  BY <1>1 DEF NewJob, Job
<1>. QED  BY <1>2, JobFacts DEF NewJob

LEMMA EventFacts ==
  ASSUME TypeInv, NEW kind, Event(kind)
  PROVE  /\ SameMode /\ scenario' \in ScenarioType
         /\ scenario.left \in Nat /\ scenario'.left \in Nat
         /\ scenario'.left = scenario.left - 1
         /\ kind \in scenario.kinds
<1>1. scenario \in ScenarioType /\ scenario.left \in 0..MaxEvents /\ scenario.left > 0
  BY DEF TypeInv, Event, ScenarioType
<1>2. scenario.left - 1 \in 0..MaxEvents
  BY <1>1, ConfigAssumption
<1>3. scenario' \in ScenarioType /\ scenario'.left = scenario.left - 1 /\ SameMode
  BY <1>1, <1>2 DEF Event, ScenarioType, SameMode
<1>. QED  BY <1>1, <1>2, <1>3, ConfigAssumption DEF Event

LEMMA QuietFacts ==
  ASSUME TypeInv, UNCHANGED scenario
  PROVE  SameMode /\ scenario' \in ScenarioType
BY DEF SameMode, TypeInv

(* A write stores a new version, or nothing. *)
LEMMA WriteDescFacts ==
  ASSUME TypeInv, NEW d \in Description, d.rv = desc.rv, WriteDesc(d)
  PROVE  /\ desc' \in Description /\ descWatch' \in Seq(Description)
         /\ descCache' = descCache
         /\ desc'.phase = d.phase /\ desc'.raw = d.raw
         /\ \/ desc' = desc /\ descWatch' = descWatch
            \/ desc'.rv = desc.rv + 1 /\ descWatch' = Append(descWatch, desc')
<1>1. CASE d = desc
  BY <1>1 DEF WriteDesc, TypeInv, TypeOK
<1>2. CASE d # desc
  <2> DEFINE e == [d EXCEPT !.rv = @ + 1]
  <2>1. e \in Description /\ e.rv = desc.rv + 1 /\ e.phase = d.phase /\ e.raw = d.raw
    BY DEF Description
  <2>2. desc' = e
    BY <1>2 DEF WriteDesc
  <2> HIDE DEF e
  <2>3. descWatch' = Append(descWatch, desc') /\ descCache' = descCache
    BY <1>2 DEF WriteDesc
  <2>. QED  BY <2>1, <2>2, <2>3 DEF TypeInv, TypeOK
<1>. QED  BY <1>1, <1>2

LEMMA WokenFacts ==
  ASSUME NEW r \in Res, NEW v
  PROVE  Woken(r, v) \subseteq started
BY DEF Woken, Watchers

(* The Description that a worker reports. *)
LEMMA ReportedFacts ==
  ASSUME TypeInv, NEW j
  PROVE  /\ Reported(j) \in Description /\ Reported(j).rv = desc.rv
         /\ Reported(j).phase = desc.phase /\ Reported(j).raw = desc.raw
BY DEF Reported, TypeInv, TypeOK, Description

LEMMA PhaseFacts ==
  ASSUME TypeInv, NEW p \in {"live", "deleting", "gone"}
  PROVE  LET d == [desc EXCEPT !.phase = p] IN
         d \in Description /\ d.rv = desc.rv /\ d.phase = p /\ d.raw = desc.raw
BY DEF TypeInv, TypeOK, Description

LEMMA StatusFacts ==
  ASSUME TypeInv
  PROVE  LET d == [desc EXCEPT !.status = "ok"] IN
         d \in Description /\ d.rv = desc.rv /\ d.phase = desc.phase /\ d.raw = desc.raw
BY DEF TypeInv, TypeOK, Description

(* The new contents of one resource. *)
LEMMA RawFacts ==
  ASSUME TypeInv, NEW r \in Res, NEW v \in Content
  PROVE  LET d == [desc EXCEPT !.raw[r] = v] IN
         /\ d \in Description /\ d.rv = desc.rv /\ d.phase = desc.phase
         /\ d.raw[r] = v /\ \A q \in Res \ {r} : d.raw[q] = desc.raw[q]
<1> DEFINE d == [desc EXCEPT !.raw[r] = v]
<1>1. desc \in Description /\ desc.raw \in [Res -> Content]
  BY DescFacts DEF TypeInv, TypeOK
<1>2. [desc.raw EXCEPT ![r] = v] \in [Res -> Content]
  BY <1>1
<1>3. d \in Description /\ d.rv = desc.rv /\ d.phase = desc.phase
      /\ d.raw = [desc.raw EXCEPT ![r] = v]
  BY <1>1, <1>2 DEF Description, Raw
<1>. QED  BY <1>1, <1>3

(* The counter of events, once the contents are known. *)
LEMMA TypeFrame ==
  ASSUME TypeInv, TypeOK', SameMode, scenario' \in ScenarioType,
         \A r \in Res : desc'.raw[r] + scenario'.left <= MaxEvents + 1
  PROVE  TypeInv'
BY DEF TypeInv, SameMode

LEMMA BoundKept ==
  ASSUME TypeInv, scenario' \in ScenarioType, desc'.raw = desc.raw,
         scenario' = scenario \/ scenario'.left = scenario.left - 1
  PROVE  \A r \in Res : desc'.raw[r] + scenario'.left <= MaxEvents + 1
<1>1. scenario.left \in Nat /\ scenario'.left \in Nat /\ scenario'.left <= scenario.left
  BY ConfigAssumption DEF TypeInv, ScenarioType
<1>2. ASSUME NEW r \in Res PROVE desc.raw[r] + scenario'.left <= MaxEvents + 1
  <2>1. desc.raw[r] \in Nat /\ desc.raw[r] + scenario.left <= MaxEvents + 1
    BY DescFacts DEF TypeInv, TypeOK
  <2>. QED  BY <1>1, <2>1, ConfigAssumption
<1>. QED  BY <1>2

-----------------------------------------------------------------------------
(* Type correctness.                                                       *)

LEMMA InitType == Init => TypeInv
<1> SUFFICES ASSUME Init PROVE TypeInv
  OBVIOUS
<1>1. scenario \in ScenarioType /\ (scenario.syncMode = "Push" => scenario.appPusher)
  BY ConfigAssumption DEF Init, ScenarioType
<1>2. 0 \in Content /\ 1 \in Content
  BY ConfigAssumption DEF Content
<1>3. First \in Raw /\ Nothing \in Raw
  BY <1>2 DEF First, Nothing, Raw
<1>4. desc \in Description /\ desc.raw = First
  BY <1>3 DEF Init, Description
<1>5. child \in [Res -> Content \cup {Drifted}]
  BY <1>3 DEF Init, Raw
<1>6. scenario.left \in 0..MaxEvents
  BY <1>1 DEF ScenarioType
<1>7. rsWork \in [Res -> Job \cup {None}]
  BY DEF Init
<1>8. hubTodo \subseteq Res /\ descWatch \in Seq(Description)
  BY DEF Init
<1>9. TypeOK
  BY <1>4, <1>5, <1>6, <1>7, <1>8 DEF Init, TypeOK
<1>10. \A r \in Res : desc.raw[r] + scenario.left <= MaxEvents + 1
  <2>1. \A r \in Res : desc.raw[r] = 1
    BY <1>4 DEF First
  <2>2. MaxEvents \in Nat /\ 1 + scenario.left <= MaxEvents + 1
    BY <1>6, ConfigAssumption
  <2>. QED  BY <2>1, <2>2
<1>. QED  BY <1>1, <1>9, <1>10 DEF TypeInv

LEMMA HubWritesType ==
  ASSUME TypeInv, NEW d \in Description, d.rv = desc.rv, HubWrites(d),
         update' \in Update \cup {None}, scenario' \in ScenarioType
  PROVE  TypeOK' /\ desc'.raw = d.raw
<1>1. /\ desc' \in Description /\ descWatch' \in Seq(Description) /\ descCache' = descCache
      /\ desc'.raw = d.raw
  BY WriteDescFacts DEF HubWrites
<1>2. hubTodo' \subseteq Res
  BY DEF HubWrites, In
<1>3. scenario'.left \in 0..MaxEvents
  BY DEF ScenarioType
<1>. QED  BY <1>1, <1>2, <1>3 DEF HubWrites, TypeInv, TypeOK, agentVars, history

LEMMA EditType ==
  ASSUME TypeInv, NEW r \in Res, EditDesc(r)
  PROVE  TypeInv' /\ SameMode
<1>1. update' \in Update \cup {None}
  BY DEF EditDesc, TypeInv, TypeOK
<1>2. desc \in Description /\ desc.raw[r] \in Nat
      /\ desc.raw[r] + scenario.left <= MaxEvents + 1
  BY DescFacts DEF TypeInv, TypeOK
<1>3. /\ SameMode /\ scenario' \in ScenarioType /\ scenario.left \in Nat
      /\ scenario'.left \in Nat /\ scenario'.left = scenario.left - 1
  BY EventFacts DEF EditDesc
<1>4. desc.raw[r] + 1 \in Content
  BY <1>2, <1>3, ConfigAssumption DEF Content
<1> DEFINE d == [desc EXCEPT !.raw[r] = desc.raw[r] + 1]
<1>5. /\ d \in Description /\ d.rv = desc.rv
      /\ d.raw[r] = desc.raw[r] + 1 /\ \A q \in Res \ {r} : d.raw[q] = desc.raw[q]
  BY <1>4, RawFacts
<1>6. HubWrites(d)
  BY DEF EditDesc
<1> HIDE DEF d
<1>7. TypeOK' /\ desc'.raw = d.raw
  BY <1>1, <1>3, <1>5, <1>6, HubWritesType
<1>8. ASSUME NEW q \in Res PROVE desc'.raw[q] + scenario'.left <= MaxEvents + 1
  <2>1. desc.raw[q] \in Nat /\ desc.raw[q] + scenario.left <= MaxEvents + 1
    BY DescFacts DEF TypeInv, TypeOK
  <2>2. desc'.raw[q] = desc.raw[q] \/ desc'.raw[q] = desc.raw[q] + 1
    BY <1>5, <1>7
  <2>. QED  BY <1>3, <2>1, <2>2, ConfigAssumption
<1>. QED  BY <1>3, <1>7, <1>8, TypeFrame

(* The hub begins to update the Description. *)
LEMMA StartsUpdateType ==
  ASSUME TypeInv, NEW r \in Res, StartsUpdate(r), SameMode, scenario' \in ScenarioType,
         scenario' = scenario \/ scenario'.left = scenario.left - 1,
         UNCHANGED <<descVars, child, hubTodo, agentVars, rsQueue, history>>
  PROVE  TypeInv'
<1>1. update' \in Update /\ pruning' \subseteq Res
  BY DescFacts DEF StartsUpdate, Update, TypeInv, TypeOK
<1>2. scenario'.left \in 0..MaxEvents
  BY DEF ScenarioType
<1>3. TypeOK' /\ desc' = desc
  BY <1>1, <1>2 DEF TypeInv, TypeOK, descVars, agentVars, history
<1>. QED  BY <1>3, BoundKept, TypeFrame

LEMMA ShrinkType ==
  ASSUME TypeInv, NEW r \in Res, ShrinkDesc(r)
  PROVE  TypeInv' /\ SameMode
<1>1. SameMode /\ scenario' \in ScenarioType /\ scenario'.left = scenario.left - 1
  BY EventFacts DEF ShrinkDesc
<1>. QED  BY <1>1, StartsUpdateType DEF ShrinkDesc

LEMMA HubUpdatesType ==
  ASSUME TypeInv, HubUpdates
  PROVE  TypeInv' /\ SameMode
<1>1. SameMode /\ scenario' \in ScenarioType /\ scenario' = scenario
  BY QuietFacts DEF HubUpdates
<1>2. update # None /\ update.res \in Res
  BY UpdateFacts DEF HubUpdates
<1>3. CASE HubWrites([desc EXCEPT !.raw[update.res] = 0]) /\ update' = None
  <2>1. 0 \in Content
    BY ConfigAssumption DEF Content
  <2> DEFINE d == [desc EXCEPT !.raw[update.res] = 0]
  <2>2. /\ d \in Description /\ d.rv = desc.rv /\ d.raw[update.res] = 0
        /\ \A q \in Res \ {update.res} : d.raw[q] = desc.raw[q]
    BY <1>2, <2>1, RawFacts
  <2>3. HubWrites(d)
    BY <1>3
  <2> HIDE DEF d
  <2>4. TypeOK' /\ desc'.raw = d.raw
    BY <1>1, <1>3, <2>2, <2>3, HubWritesType
  <2>5. ASSUME NEW q \in Res PROVE desc'.raw[q] + scenario'.left <= MaxEvents + 1
    <3>1. /\ desc.raw[q] \in Nat /\ desc.raw[q] + scenario.left <= MaxEvents + 1
          /\ scenario.left \in 0..MaxEvents
      BY DescFacts DEF TypeInv, TypeOK
    <3>2. desc'.raw[q] = desc.raw[q] \/ desc'.raw[q] = 0
      BY <2>2, <2>4
    <3>. QED  BY <1>1, <3>1, <3>2, ConfigAssumption
  <2>. QED  BY <1>1, <2>4, <2>5, TypeFrame
<1>4. CASE /\ StartsUpdate(update.res)
           /\ UNCHANGED <<descVars, child, hubTodo, agentVars, rsQueue, history>>
  BY <1>1, <1>2, <1>4, StartsUpdateType
<1>5. CASE /\ update' = None
           /\ UNCHANGED <<descVars, child, hubTodo, pruning, agentVars, rsQueue, history>>
  <2>1. TypeOK' /\ desc' = desc
    BY <1>1, <1>5 DEF TypeInv, TypeOK, descVars, agentVars, history
  <2>. QED  BY <1>1, <2>1, BoundKept, TypeFrame
<1>. QED  BY <1>1, <1>3, <1>4, <1>5 DEF HubUpdates

LEMMA DeleteType ==
  ASSUME TypeInv, DeleteDesc
  PROVE  TypeInv' /\ SameMode
<1>1. update' \in Update \cup {None}
  BY DEF DeleteDesc, TypeInv, TypeOK
<1>2. SameMode /\ scenario' \in ScenarioType /\ scenario'.left = scenario.left - 1
  BY EventFacts DEF DeleteDesc
<1> DEFINE d == [desc EXCEPT !.phase = "deleting"]
<1>3. d \in Description /\ d.rv = desc.rv /\ d.raw = desc.raw
  BY PhaseFacts
<1>4. HubWrites(d)
  BY DEF DeleteDesc
<1> HIDE DEF d
<1>5. TypeOK' /\ desc'.raw = desc.raw
  BY <1>1, <1>2, <1>3, <1>4, HubWritesType
<1>. QED  BY <1>2, <1>5, BoundKept, TypeFrame

LEMMA DriftType ==
  ASSUME TypeInv, NEW r \in Res, NEW v \in {0, Drifted}, Drift(r, v)
  PROVE  TypeInv' /\ SameMode
<1>1. SameMode /\ scenario' \in ScenarioType /\ scenario'.left = scenario.left - 1
  BY EventFacts DEF Drift
<1>2. child' \in [Res -> Content \cup {Drifted}]
  BY ConfigAssumption DEF Drift, TypeInv, TypeOK, Content
<1>3. rsQueue' \subseteq started /\ unseen' \subseteq Res /\ revived' \subseteq Res
  BY WokenFacts DEF Drift, TypeInv, TypeOK
<1>4. scenario'.left \in 0..MaxEvents
  BY <1>1 DEF ScenarioType
<1>5. TypeOK' /\ desc' = desc
  BY <1>2, <1>3, <1>4 DEF Drift, TypeInv, TypeOK, descVars, hubVars, agentVars
<1>. QED  BY <1>1, <1>5, BoundKept, TypeFrame

(* A job with one resource less. *)
LEMMA JobStep ==
  ASSUME NEW j \in Job, NEW r, NEW f \in BOOLEAN, NEW b \in BOOLEAN
  PROVE  LET k == [j EXCEPT !.todo = @ \ {r}, !.failed = f, !.blocked = b] IN
         /\ k \in Job /\ k.desc = j.desc /\ k.todo = j.todo \ {r}
         /\ k.failed = f /\ k.blocked = b
BY DEF Job

LEMMA WorkFacts ==
  ASSUME TypeInv, work # None
  PROVE  /\ work \in Job /\ work.desc \in Description /\ work.todo \subseteq Res
         /\ work.failed \in BOOLEAN /\ work.blocked \in BOOLEAN
BY JobFacts DEF TypeInv, TypeOK

LEMMA RsWorkFacts ==
  ASSUME TypeInv, NEW c \in Res, rsWork[c] # None
  PROVE  /\ rsWork[c] \in Job /\ rsWork[c].desc \in Description
         /\ rsWork[c].todo \subseteq Res /\ rsWork[c].failed \in BOOLEAN
         /\ c \in started /\ rsWork[c].blocked = FALSE
<1>1. rsWork[c] \in Job /\ c \in started /\ ~rsWork[c].blocked
  BY DEF TypeInv, TypeOK
<1>. QED  BY <1>1, JobFacts

(* The job of a worker after one of its steps: what changes, and what not. *)
LEMMA WorkStep ==
  ASSUME TypeInv, work # None, NEW r,
         \/ work' = [work EXCEPT !.todo = @ \ {r}]
         \/ work' = [work EXCEPT !.todo = @ \ {r}, !.blocked = TRUE]
         \/ work' = [work EXCEPT !.todo = @ \ {r}, !.failed = TRUE]
  PROVE  /\ work' \in Job /\ work' # None
         /\ work'.desc = work.desc /\ work'.todo = work.todo \ {r}
<1>1. work \in Job
  BY WorkFacts
<1>2. work' \in Job /\ work'.desc = work.desc /\ work'.todo = work.todo \ {r}
  BY <1>1 DEF Job
<1>. QED  BY <1>2, JobFacts

LEMMA RsWorkStep ==
  ASSUME TypeInv, NEW c \in Res, rsWork[c] # None, NEW r,
         \/ rsWork' = [rsWork EXCEPT ![c].todo = @ \ {r}]
         \/ rsWork' = [rsWork EXCEPT ![c].todo = @ \ {r}, ![c].failed = TRUE]
  PROVE  /\ rsWork' \in [Res -> Job \cup {None}]
         /\ rsWork'[c] # None /\ rsWork'[c].blocked = FALSE
         /\ rsWork'[c].desc = rsWork[c].desc /\ rsWork'[c].todo = rsWork[c].todo \ {r}
         /\ rsWork'[c].failed = rsWork[c].failed \/ rsWork'[c].failed = TRUE
         /\ \A x \in Res \ {c} : rsWork'[x] = rsWork[x]
<1>1. rsWork[c] \in Job /\ rsWork[c].blocked = FALSE /\ rsWork \in [Res -> Job \cup {None}]
  BY RsWorkFacts DEF TypeInv, TypeOK
<1> DEFINE j == [rsWork[c] EXCEPT !.todo = @ \ {r}]
           k == [rsWork[c] EXCEPT !.todo = @ \ {r}, !.failed = TRUE]
<1>2. /\ j \in Job /\ j.blocked = FALSE /\ j.desc = rsWork[c].desc
      /\ j.todo = rsWork[c].todo \ {r} /\ j.failed = rsWork[c].failed
  BY <1>1 DEF Job
<1>3. /\ k \in Job /\ k.blocked = FALSE /\ k.desc = rsWork[c].desc
      /\ k.todo = rsWork[c].todo \ {r} /\ k.failed = TRUE
  BY <1>1 DEF Job
<1>4. rsWork' = [rsWork EXCEPT ![c] = j] \/ rsWork' = [rsWork EXCEPT ![c] = k]
  OBVIOUS
<1> HIDE DEF j, k
<1>5. j # None /\ k # None
  BY <1>2, <1>3, JobFacts
<1>. QED  BY <1>1, <1>2, <1>3, <1>4, <1>5

LEMMA RequestFailsType ==
  ASSUME TypeInv, RequestFails
  PROVE  TypeInv' /\ SameMode
<1>1. SameMode /\ scenario' \in ScenarioType /\ scenario'.left = scenario.left - 1
  BY EventFacts DEF RequestFails
<1>2. scenario'.left \in 0..MaxEvents
  BY <1>1 DEF ScenarioType
<1>3. ASSUME NEW r, work # None, UNCHANGED rsWork,
             work' = [work EXCEPT !.todo = @ \ {r}, !.failed = TRUE]
      PROVE  TypeOK' /\ desc' = desc
  <2>1. work' \in Job
    BY <1>3, WorkStep
  <2>. QED  BY <1>2, <1>3, <2>1 DEF RequestFails, TypeInv, TypeOK, descVars, hubVars, history
<1>4. ASSUME NEW c \in Res, NEW r, rsWork[c] # None, UNCHANGED work,
             rsWork' = [rsWork EXCEPT ![c].todo = @ \ {r}, ![c].failed = TRUE]
      PROVE  TypeOK' /\ desc' = desc
  <2>1. /\ rsWork' \in [Res -> Job \cup {None}] /\ rsWork'[c].blocked = FALSE
        /\ \A x \in Res \ {c} : rsWork'[x] = rsWork[x]
    BY <1>4, RsWorkStep
  <2>2. c \in started
    BY <1>4 DEF TypeInv, TypeOK
  <2>. QED  BY <1>2, <1>4, <2>1, <2>2 DEF RequestFails, TypeInv, TypeOK, descVars, hubVars, history
<1>5. TypeOK' /\ desc' = desc
  BY <1>3, <1>4 DEF RequestFails, TypeInv, TypeOK
<1>. QED  BY <1>1, <1>5, BoundKept, TypeFrame

LEMMA RestartType ==
  ASSUME TypeInv, Restart
  PROVE  TypeInv' /\ SameMode
<1>1. SameMode /\ scenario' \in ScenarioType /\ scenario'.left = scenario.left - 1
  BY EventFacts DEF Restart
<1>2. scenario'.left \in 0..MaxEvents
  BY <1>1 DEF ScenarioType
<1>3. TypeOK' /\ desc' = desc
  BY <1>2 DEF Restart, TypeInv, TypeOK, Exists, hubVars
<1>. QED  BY <1>1, <1>3, BoundKept, TypeFrame

(* Steps that only write the Description. *)
LEMMA DescType ==
  ASSUME TypeInv, NEW d \in Description, d.rv = desc.rv, d.raw = desc.raw, WriteDesc(d),
         UNCHANGED <<child, hubVars, started, history, scenario>>,
         rsQueue' \subseteq started, queued' \in BOOLEAN, work' \in Job \cup {None},
         rsWork' \in [Res -> Job \cup {None}],
         \A c \in Res : rsWork'[c] # None => rsWork'[c] = rsWork[c]
  PROVE  TypeInv'
<1>1. /\ desc' \in Description /\ descWatch' \in Seq(Description) /\ descCache' = descCache
      /\ desc'.raw = desc.raw
  BY WriteDescFacts
<1>2. TypeOK'
  BY <1>1 DEF TypeInv, TypeOK, hubVars, history
<1>. QED  BY <1>1, <1>2, QuietFacts, BoundKept, TypeFrame

(* Steps that leave the Description as it is. *)
LEMMA QuietType ==
  ASSUME TypeInv, TypeOK', UNCHANGED <<desc, scenario>>
  PROVE  TypeInv'
BY QuietFacts, BoundKept, TypeFrame

(* A write to the child cluster. *)
LEMMA WriteChildType ==
  ASSUME TypeInv, NEW r \in Res, NEW v \in Content, WriteChild(r, v)
  PROVE  /\ child' \in [Res -> Content \cup {Drifted}]
         /\ rsQueue' \subseteq started /\ unseen' \subseteq Res /\ revived' \subseteq Res
<1>1. child' \in [Res -> Content \cup {Drifted}]
  BY DEF WriteChild, TypeInv, TypeOK
<1>2. rsQueue' \subseteq started
  BY WokenFacts DEF WriteChild, TypeInv, TypeOK
<1>3. unseen' \subseteq Res /\ revived' \subseteq Res
  BY DEF WriteChild, TypeInv, TypeOK
<1>. QED  BY <1>1, <1>2, <1>3

LEMMA HubStepType ==
  ASSUME TypeInv
  PROVE  /\ \A r \in Res : HubSyncs(r) => TypeInv'
         /\ \A r \in Res : HubPrunes(r) => TypeInv'
         /\ HubEnds => TypeInv'
<1>1. ASSUME NEW r \in Res, HubSyncs(r) PROVE TypeInv'
  <2>1. (IF desc.phase = "live" THEN desc.raw[r] ELSE 0) \in Content
    BY DescFacts, ConfigAssumption DEF TypeInv, TypeOK, Content
  <2>2. /\ child' \in [Res -> Content \cup {Drifted}]
        /\ rsQueue' \subseteq started /\ unseen' \subseteq Res /\ revived' \subseteq Res
    BY <1>1, <2>1, WriteChildType DEF HubSyncs
  <2>3. TypeOK'
    BY <1>1, <2>2 DEF HubSyncs, TypeInv, TypeOK, descVars, agentVars
  <2>. QED  BY <1>1, <2>3, QuietType DEF HubSyncs, descVars
<1>2. ASSUME NEW r \in Res, HubPrunes(r) PROVE TypeInv'
  <2>1. 0 \in Content
    BY ConfigAssumption DEF Content
  <2>2. /\ child' \in [Res -> Content \cup {Drifted}]
        /\ rsQueue' \subseteq started /\ unseen' \subseteq Res /\ revived' \subseteq Res
    BY <1>2, <2>1, WriteChildType DEF HubPrunes
  <2>3. TypeOK'
    BY <1>2, <2>2 DEF HubPrunes, TypeInv, TypeOK, descVars, agentVars
  <2>. QED  BY <1>2, <2>3, QuietType DEF HubPrunes, descVars
<1>3. ASSUME HubEnds PROVE TypeInv'
  <2>1. \E d \in Description : d.rv = desc.rv /\ d.raw = desc.raw /\ WriteDesc(d)
    BY <1>3, StatusFacts, PhaseFacts DEF HubEnds
  <2>2. PICK d \in Description : d.rv = desc.rv /\ d.raw = desc.raw /\ WriteDesc(d)
    BY <2>1
  <2>. QED  BY <1>3, <2>2, DescType DEF HubEnds, agentVars, TypeInv, TypeOK
<1>. QED  BY <1>1, <1>2, <1>3

LEMMA SyncDescType ==
  ASSUME TypeInv, SyncDesc
  PROVE  TypeInv'
<1>1. descCache' \in Description /\ descWatch' \in Seq(Description)
  BY DEF SyncDesc, TypeInv, TypeOK
<1>2. TypeOK'
  BY <1>1 DEF SyncDesc, TypeInv, TypeOK, hubVars, history
<1>. QED  BY <1>2, QuietType DEF SyncDesc

LEMMA WorkType ==
  ASSUME TypeInv, Work
  PROVE  TypeInv'
<1>1. CASE GetDescription
  <2>1. work' \in Job \cup {None}
    BY <1>1, NewJobFacts DEF GetDescription
  <2>2. TypeOK'
    BY <1>1, <2>1 DEF GetDescription, TypeInv, TypeOK, descVars, hubVars, history
  <2>. QED  BY <1>1, <2>2, QuietType DEF GetDescription, descVars
<1>2. ASSUME NEW r \in Res, OffloadResource(r) PROVE TypeInv'
  <2>1. work' \in Job
    BY <1>2, WorkStep DEF OffloadResource
  <2>2. 0 \in Content
    BY ConfigAssumption DEF Content
  <2>3. /\ child' \in [Res -> Content \cup {Drifted}]
        /\ rsQueue' \subseteq started /\ unseen' \subseteq Res /\ revived' \subseteq Res
    BY <1>2, <2>2, WriteChildType DEF OffloadResource
  <2>4. TypeOK'
    BY <1>2, <2>1, <2>3 DEF OffloadResource, TypeInv, TypeOK, descVars, hubVars, history
  <2>. QED  BY <1>2, <2>4, QuietType DEF OffloadResource, descVars
<1>3. ASSUME NEW r \in Res, ApplyResource(r) PROVE TypeInv'
  <2>1. work' \in Job
    BY <1>3, WorkStep DEF ApplyResource, Callback
  <2>2. work.desc.raw[r] \in Content
    BY <1>3, WorkFacts, DescFacts DEF ApplyResource
  <2>3. child' \in [Res -> Content \cup {Drifted}]
    BY <1>3, <2>2 DEF ApplyResource, TypeInv, TypeOK
  <2>4. started' \subseteq Res /\ started \subseteq started'
        /\ rsQueue' \subseteq started' /\ unseen' \subseteq Res /\ revived' \subseteq Res
    BY <1>3, WokenFacts DEF ApplyResource, Callback, TypeInv, TypeOK
  <2>5. TypeOK'
    BY <1>3, <2>1, <2>3, <2>4 DEF ApplyResource, TypeInv, TypeOK, descVars, hubVars, history
  <2>. QED  BY <1>3, <2>5, QuietType DEF ApplyResource, descVars
<1>4. CASE WorkEnds
  <2>1. work # None /\ work' = None /\ queued' \in BOOLEAN
    BY <1>4, WorkFacts DEF WorkEnds, Finished, TypeInv, TypeOK
  <2>2. CASE UNCHANGED descVars
    <3>1. TypeOK'
      BY <1>4, <2>1, <2>2 DEF WorkEnds, TypeInv, TypeOK, descVars, hubVars, history
    <3>. QED  BY <1>4, <2>2, <3>1, QuietType DEF WorkEnds, descVars
  <2>3. CASE ~UNCHANGED descVars
    <3>1. \E d \in Description : d.rv = desc.rv /\ d.raw = desc.raw /\ WriteDesc(d)
      BY <1>4, <2>3, ReportedFacts, PhaseFacts DEF WorkEnds
    <3>2. PICK d \in Description : d.rv = desc.rv /\ d.raw = desc.raw /\ WriteDesc(d)
      BY <3>1
    <3>. QED  BY <1>4, <2>1, <3>2, DescType DEF WorkEnds, TypeInv, TypeOK
  <2>. QED  BY <2>2, <2>3
<1>. QED  BY <1>1, <1>2, <1>3, <1>4 DEF Work

LEMMA RecoveryType ==
  ASSUME TypeInv, NEW c \in Res, Recovery(c)
  PROVE  TypeInv'
<1>1. CASE GetResource(c)
  <2>1. /\ rsWork' \in [Res -> Job \cup {None}]
        /\ \A x \in Res \ {c} : rsWork'[x] = rsWork[x]
        /\ rsWork'[c] = None \/ rsWork'[c] = NewJob
    BY <1>1, NewJobFacts DEF GetResource, TypeInv, TypeOK
  <2>2. \A x \in Res : rsWork'[x] # None => x \in started /\ ~rsWork'[x].blocked
    BY <1>1, <2>1, NewJobFacts DEF GetResource, TypeInv, TypeOK
  <2>3. TypeOK'
    BY <1>1, <2>1, <2>2 DEF GetResource, TypeInv, TypeOK, descVars, hubVars, history
  <2>. QED  BY <1>1, <2>3, QuietType DEF GetResource, descVars
<1>2. ASSUME NEW r \in Res, RecoverResource(c, r) PROVE TypeInv'
  <2>1. /\ rsWork' \in [Res -> Job \cup {None}] /\ rsWork'[c].blocked = FALSE
        /\ \A x \in Res \ {c} : rsWork'[x] = rsWork[x]
    BY <1>2, RsWorkStep DEF RecoverResource
  <2>2. c \in started /\ rsWork[c].desc.raw[r] \in Content
    BY <1>2, RsWorkFacts, DescFacts DEF RecoverResource
  <2>3. /\ child' \in [Res -> Content \cup {Drifted}]
        /\ rsQueue' \subseteq started /\ unseen' \subseteq Res /\ revived' \subseteq Res
    BY <1>2, <2>2, WriteChildType DEF RecoverResource
  <2>5. TypeOK'
    BY <1>2, <2>1, <2>2, <2>3 DEF RecoverResource, TypeInv, TypeOK, descVars, hubVars, history
  <2>. QED  BY <1>2, <2>5, QuietType DEF RecoverResource, descVars
<1>3. CASE RecoverEnds(c)
  <2>1. /\ rsWork' \in [Res -> Job \cup {None}]
        /\ \A x \in Res : rsWork'[x] # None => rsWork'[x] = rsWork[x]
    BY <1>3 DEF RecoverEnds, TypeInv, TypeOK
  <2>2. c \in started
    BY <1>3, RsWorkFacts DEF RecoverEnds, Finished
  <2>3. rsQueue' \subseteq started
    BY <1>3, <2>2 DEF RecoverEnds, TypeInv, TypeOK
  <2>4. CASE UNCHANGED descVars
    <3>1. TypeOK'
      BY <1>3, <2>1, <2>3, <2>4 DEF RecoverEnds, TypeInv, TypeOK, descVars, hubVars, history
    <3>. QED  BY <1>3, <2>4, <3>1, QuietType DEF RecoverEnds, descVars
  <2>5. CASE ~UNCHANGED descVars
    <3>1. WriteDesc(Reported(rsWork[c]))
      BY <1>3, <2>5 DEF RecoverEnds
    <3>. QED  BY <1>3, <2>1, <2>3, <3>1, ReportedFacts, DescType DEF RecoverEnds, TypeInv, TypeOK
  <2>. QED  BY <2>4, <2>5
<1>. QED  BY <1>1, <1>2, <1>3 DEF Recovery

LEMMA NextType ==
  ASSUME TypeInv, [Next]_vars
  PROVE  TypeInv'
<1>1. CASE Environment
  BY <1>1, EditType, ShrinkType, DeleteType, DriftType, RequestFailsType, RestartType
     DEF Environment
<1>2. CASE Hub
  BY <1>2, HubStepType, HubUpdatesType DEF Hub
<1>3. CASE UNCHANGED vars
  BY <1>3 DEF vars, descVars, hubVars, agentVars, history, TypeInv, TypeOK
<1>. QED  BY <1>1, <1>2, <1>3, SyncDescType, WorkType, RecoveryType DEF Next

(* Every reachable state of the agent's deployers is typed, for any        *)
(* resources, modes and number of events; in particular only controllers   *)
(* that were started hold the key of the Description, and none of their    *)
(* workers ever waits for a callback (ResourceCallbackHandler).            *)
THEOREM AgentSyncTypeCorrect == Spec => []TypeOK
<1>1. TypeInv => TypeOK
  BY DEF TypeInv
<1>. QED  BY <1>1, InitType, NextType, PTL DEF Spec

-----------------------------------------------------------------------------
(* The inductive invariant of DescriptionServed.                           *)

(* Version d is the same as e or older: a version number names one         *)
(* version, phases only go forward, contents only grow or are dropped.     *)
Behind(d, e) ==
  /\ d.rv <= e.rv /\ (d.rv = e.rv => d.raw = e.raw)
  /\ d.phase = "gone" => e.phase = "gone"
  /\ d.phase # "live" => e.phase # "live"
  /\ \A r \in Res : e.raw[r] # 0 => d.raw[r] # 0 /\ d.raw[r] <= e.raw[r]

VersionInv ==
  /\ descWatch = <<>> => descCache = desc
  /\ descWatch # <<>> => descWatch[Len(descWatch)] = desc
  /\ Behind(descCache, desc)
  /\ \A i \in DOMAIN descWatch :
       /\ Behind(descWatch[i], desc)
       /\ descCache.phase # "live" => descWatch[i].phase # "live"
       /\ \A j \in DOMAIN descWatch :
            i < j /\ descWatch[i].phase # "live" => descWatch[j].phase # "live"
  /\ work # None => Behind(work.desc, desc)
  /\ \A c \in Res : rsWork[c] # None => Behind(rsWork[c].desc, desc)

(* The worker of the description controller: a change of the contents that *)
(* it has not read is queued behind it; it only blocks for a controller.   *)
JobInv ==
  /\ work # None =>
       /\ work.todo \subseteq In(work.desc.raw) /\ Exists(work.desc)
       /\ work.desc.raw # descCache.raw => queued
       /\ work.desc.phase # "live" => descCache.phase # "live"
       /\ work.failed => DeployableByAgent /\ "apierr" \in scenario.kinds
       /\ work.blocked => started # {}
  /\ ~scenario.recovery => started = {} /\ (work # None => ~work.blocked)
  /\ DeployableByAgent => hubTodo = {}

(* Controller c will look at resource r again: its key is queued, or its   *)
(* job has not come to r, has failed, or will be refused for its version.  *)
PendAt(c, r) ==
  \/ c \in rsQueue
  \/ /\ rsWork[c] # None
     /\ r \in rsWork[c].todo \/ rsWork[c].failed \/ rsWork[c].desc.rv # desc.rv
Recovering(r) == \E c \in started : PendAt(c, r)

(* An agent that deploys will look at r; a blocked worker only does so if  *)
(* no request can fail before it comes to r.                               *)
Deploying(r) ==
  \/ queued \/ descCache.raw # desc.raw
  \/ /\ work # None
     /\ \/ ~work.blocked /\ (r \in work.todo \/ work.failed)
        \/ "apierr" \notin scenario.kinds /\ r \in work.todo

(* Resource r has a controller or will get one. *)
Starting(r) ==
  \/ r \in started
  \/ work # None /\ (r \in work.todo \/ work.failed)
  \/ work = None /\ queued
  \/ DeployableByAgent /\ (queued \/ descCache.raw # desc.raw)

Served(r) ==
  \/ child[r] = desc.raw[r] \/ r \in unseen \/ Dropping(r)
  \/ child[r] = Drifted /\ ~scenario.recovery
  \/ r \in hubTodo
  \/ Recovering(r)
  \/ DeployableByAgent /\ Deploying(r)
  \/ ~DeployableByAgent /\ scenario.recovery /\ r \notin started /\ child[r] # 0

LiveInv ==
  desc.phase = "live" =>
    \A r \in In(desc.raw) : Served(r) /\ (scenario.recovery => Starting(r))

(* What the hub prunes is no longer wanted, or about to be dropped. *)
PruneInv ==
  /\ \A r \in pruning : Removing(r)
  /\ update # None /\ desc.phase = "live" => desc.raw[update.res] # 0

(* What is left of a resource, other than what was deployed again: the hub *)
(* prunes or offloads it; an agent that offloads has it on its list, and   *)
(* nothing of the last contents of a Description outlives it.              *)
Left(r) == child[r] # 0 /\ r \notin revived

HubGoneInv ==
  /\ \A r \in Res : Left(r) /\ Removing(r) =>
       r \in pruning \/ (desc.phase # "live" /\ r \in hubTodo)
  /\ desc.phase = "gone" => hubTodo = {}

AgentGoneInv ==
  /\ work # None /\ work.desc.phase = "deleting" /\ ~work.failed =>
       \A r \in In(desc.raw) \ work.todo : ~Left(r)
  /\ desc.phase = "gone" =>
       /\ \A r \in In(desc.raw) : ~Left(r)
       /\ descCache.phase # "live"
       /\ work # None => work.desc.phase # "live"

GoneInv == IF DeployableByAgent THEN AgentGoneInv ELSE HubGoneInv

IInv ==
  /\ TypeInv /\ Orderly(scenario) /\ VersionInv /\ JobInv /\ LiveInv
  /\ PruneInv /\ GoneInv

-----------------------------------------------------------------------------
(* Modes and versions.                                                     *)

LEMMA ModeFacts ==
  ASSUME TypeInv
  PROVE  /\ DeployableByHub <=> ~DeployableByAgent
         /\ DeployableByAgent <=> (scenario.syncMode = "Pull" \/ ~scenario.appPusher)
BY DEF TypeInv, ScenarioType, SyncMode, DeployableByHub, DeployableByAgent

LEMMA ModeKept ==
  ASSUME SameMode
  PROVE  /\ DeployableByAgent' <=> DeployableByAgent
         /\ scenario'.recovery = scenario.recovery /\ scenario'.kinds = scenario.kinds
         /\ Orderly(scenario) => Orderly(scenario')
<1>1. DeployableByAgent' <=> DeployableByAgent
  BY DEF SameMode, DeployableByAgent
<1>2. Orderly(scenario) => Orderly(scenario')
  BY DEF SameMode, Orderly
<1>. QED  BY <1>1, <1>2 DEF SameMode

LEMMA BehindRefl ==
  ASSUME NEW d \in Description
  PROVE  Behind(d, d)
<1>1. \A r \in Res : d.raw[r] <= d.raw[r]
  BY DescFacts
<1>2. d.rv <= d.rv
  BY DescFacts
<1>. QED  BY <1>1, <1>2 DEF Behind

LEMMA BehindTrans ==
  ASSUME NEW d \in Description, NEW e \in Description, NEW f \in Description,
         Behind(d, e), Behind(e, f)
  PROVE  Behind(d, f)
<1>1. d.rv \in Nat /\ e.rv \in Nat /\ f.rv \in Nat
  BY DescFacts
<1>2. d.rv <= f.rv /\ (d.rv = f.rv => d.raw = f.raw)
  BY <1>1 DEF Behind
<1>3. ASSUME NEW r \in Res, f.raw[r] # 0 PROVE d.raw[r] # 0 /\ d.raw[r] <= f.raw[r]
  <2>1. d.raw[r] \in Nat /\ e.raw[r] \in Nat /\ f.raw[r] \in Nat
    BY DescFacts
  <2>2. e.raw[r] # 0 /\ e.raw[r] <= f.raw[r]
    BY <1>3 DEF Behind
  <2>3. d.raw[r] # 0 /\ d.raw[r] <= e.raw[r]
    BY <2>2 DEF Behind
  <2>. QED  BY <2>1, <2>2, <2>3
<1>4. (d.phase = "gone" => f.phase = "gone") /\ (d.phase # "live" => f.phase # "live")
  BY DEF Behind
<1>. QED  BY <1>2, <1>3, <1>4 DEF Behind

(* A version with the same contents, or one more written. *)
LEMMA BehindWrite ==
  ASSUME NEW d \in Description, NEW e \in Description,
         e = d \/ e.rv = d.rv + 1, e.raw = d.raw,
         d.phase = "gone" => e.phase = "gone", d.phase # "live" => e.phase # "live"
  PROVE  Behind(d, e)
<1>1. \A r \in Res : d.raw[r] <= d.raw[r]
  BY DescFacts
<1>2. d.rv <= e.rv
  BY DescFacts
<1>. QED  BY <1>1, <1>2 DEF Behind

(* The Description is written or left alone. *)
DescWritten ==
  /\ descCache' = descCache
  /\ Behind(desc, desc')
  /\ \/ desc' = desc /\ descWatch' = descWatch
     \/ descWatch' = Append(descWatch, desc')

LEMMA DescKept ==
  ASSUME TypeInv, UNCHANGED descVars
  PROVE  DescWritten
BY BehindRefl DEF DescWritten, descVars, TypeInv, TypeOK

LEMMA DescReported ==
  ASSUME TypeInv, NEW d \in Description, d.rv = desc.rv, d.raw = desc.raw, WriteDesc(d),
         desc.phase = "gone" => d.phase = "gone", desc.phase # "live" => d.phase # "live"
  PROVE  DescWritten /\ desc'.raw = desc.raw /\ desc'.phase = d.phase
<1>1. /\ desc' \in Description /\ descCache' = descCache
      /\ desc'.phase = d.phase /\ desc'.raw = d.raw
      /\ \/ desc' = desc /\ descWatch' = descWatch
         \/ desc'.rv = desc.rv + 1 /\ descWatch' = Append(descWatch, desc')
  BY WriteDescFacts
<1>2. desc \in Description
  BY DEF TypeInv, TypeOK
<1>3. Behind(desc, desc')
  BY <1>1, <1>2, BehindWrite
<1>. QED  BY <1>1, <1>3 DEF DescWritten

LEMMA AppendFacts ==
  ASSUME NEW S, NEW w \in Seq(S), NEW x \in S
  PROVE  /\ Append(w, x) # <<>> /\ Append(w, x)[Len(Append(w, x))] = x
         /\ \A i \in DOMAIN Append(w, x) :
              (i \in DOMAIN w /\ Append(w, x)[i] = w[i] /\ w[i] \in S) \/ Append(w, x)[i] = x
         /\ \A i, j \in DOMAIN Append(w, x) :
              i < j => i \in DOMAIN w /\ Append(w, x)[i] = w[i]
<1>1. /\ Len(w) \in Nat /\ DOMAIN w = 1..Len(w) /\ DOMAIN Append(w, x) = 1..(Len(w) + 1)
      /\ Len(Append(w, x)) = Len(w) + 1 /\ Append(w, x)[Len(w) + 1] = x
      /\ \A i \in 1..Len(w) : Append(w, x)[i] = w[i] /\ w[i] \in S
  OBVIOUS
<1>2. \A i \in 1..(Len(w) + 1) : i \in 1..Len(w) \/ i = Len(w) + 1
  BY <1>1
<1>3. \A i, j \in 1..(Len(w) + 1) : i < j => i \in 1..Len(w)
  BY <1>1
<1>4. Append(w, x) # <<>>
  BY <1>1
<1>. QED  BY <1>1, <1>2, <1>3, <1>4

LEMMA TailFacts ==
  ASSUME NEW S, NEW w \in Seq(S), w # <<>>
  PROVE  /\ Head(w) = w[1] /\ 1 \in DOMAIN w /\ Head(w) \in S
         /\ Tail(w) = <<>> => Len(w) = 1
         /\ Tail(w) # <<>> => Tail(w)[Len(Tail(w))] = w[Len(w)]
         /\ \A i \in DOMAIN Tail(w) :
              /\ i \in Int /\ 1 < i + 1
              /\ i + 1 \in DOMAIN w /\ Tail(w)[i] = w[i + 1]
<1>1. /\ Len(w) \in Nat /\ Len(w) > 0 /\ DOMAIN w = 1..Len(w)
      /\ Tail(w) \in Seq(S) /\ Len(Tail(w)) = Len(w) - 1
      /\ DOMAIN Tail(w) = 1..(Len(w) - 1)
  OBVIOUS
<1>2. \A i \in 1..(Len(w) - 1) : Tail(w)[i] = w[i + 1]
  OBVIOUS
<1>3. Head(w) = w[1] /\ 1 \in DOMAIN w /\ Head(w) \in S
  BY <1>1
<1>4. Tail(w) = <<>> => Len(w) = 1
  BY <1>1
<1>5. Tail(w) # <<>> => Tail(w)[Len(Tail(w))] = w[Len(w)]
  <2>1. Tail(w) # <<>> => Len(w) - 1 \in 1..(Len(w) - 1) /\ (Len(w) - 1) + 1 = Len(w)
    BY <1>1
  <2>. QED  BY <1>1, <1>2, <2>1
<1>6. \A i \in 1..(Len(w) - 1) : i \in Int /\ 1 < i + 1 /\ i + 1 \in 1..Len(w)
  BY <1>1
<1>. QED  BY <1>1, <1>2, <1>3, <1>4, <1>5, <1>6

(* Jobs are those there were, or new ones from the lister. *)
JobsFromLister ==
  /\ work' # None => work'.desc = descCache \/ (work # None /\ work'.desc = work.desc)
  /\ \A c \in Res : rsWork'[c] # None =>
       rsWork'[c].desc = descCache \/ (rsWork[c] # None /\ rsWork'[c].desc = rsWork[c].desc)

LEMMA VersionKept ==
  ASSUME IInv, TypeInv', DescWritten, JobsFromLister
  PROVE  VersionInv'
<1>1. desc \in Description /\ desc' \in Description /\ descCache \in Description
      /\ descWatch \in Seq(Description) /\ Behind(desc, desc') /\ Behind(descCache, desc)
      /\ descCache' = descCache
  BY DEF IInv, TypeInv, TypeOK, VersionInv, DescWritten
<1>2. \A d \in Description : Behind(d, desc) => Behind(d, desc')
  BY <1>1, BehindTrans
<1>3. Behind(descCache', desc')
  BY <1>1, <1>2
<1>4. work' # None => Behind(work'.desc, desc')
  BY <1>1, <1>2, WorkFacts DEF JobsFromLister, IInv, VersionInv
<1>5. ASSUME NEW c \in Res, rsWork'[c] # None PROVE Behind(rsWork'[c].desc, desc')
  BY <1>1, <1>2, <1>5, RsWorkFacts DEF JobsFromLister, IInv, VersionInv
<1>6. CASE desc' = desc /\ descWatch' = descWatch
  BY <1>1, <1>3, <1>4, <1>5, <1>6 DEF IInv, VersionInv
<1>7. CASE descWatch' = Append(descWatch, desc')
  <2>1. descWatch' # <<>> /\ descWatch'[Len(descWatch')] = desc'
    BY <1>1, <1>7, AppendFacts
  <2>2. desc.phase # "live" => desc'.phase # "live"
    BY <1>1 DEF Behind
  <2>3. descCache.phase # "live" => desc.phase # "live"
    BY <1>1 DEF Behind
  <2>4. Behind(desc', desc')
    BY <1>1, BehindRefl
  <2>5. ASSUME NEW i \in DOMAIN descWatch'
        PROVE  \/ /\ i \in DOMAIN descWatch /\ descWatch'[i] = descWatch[i]
                  /\ descWatch[i] \in Description
               \/ descWatch'[i] = desc'
    BY <1>1, <1>7, AppendFacts
  <2>6. ASSUME NEW i \in DOMAIN descWatch'
        PROVE  /\ Behind(descWatch'[i], desc')
               /\ descCache'.phase # "live" => descWatch'[i].phase # "live"
    BY <1>1, <1>2, <2>2, <2>3, <2>4, <2>5 DEF IInv, VersionInv
  <2>7. ASSUME NEW i \in DOMAIN descWatch', NEW j \in DOMAIN descWatch', i < j,
               descWatch'[i].phase # "live"
        PROVE  descWatch'[j].phase # "live"
    <3>1. i \in DOMAIN descWatch /\ descWatch'[i] = descWatch[i]
      BY <1>1, <1>7, <2>7, AppendFacts
    <3>2. desc.phase # "live" /\ desc'.phase # "live"
      BY <2>2, <2>7, <3>1 DEF IInv, VersionInv, Behind
    <3>. QED  BY <2>5, <2>7, <3>1, <3>2 DEF IInv, VersionInv
  <2>. QED  BY <1>3, <1>4, <1>5, <2>1, <2>6, <2>7 DEF VersionInv
<1>. QED  BY <1>6, <1>7 DEF DescWritten

LEMMA VersionSync ==
  ASSUME IInv, SyncDesc
  PROVE  VersionInv'
<1>1. /\ descWatch \in Seq(Description) /\ descWatch # <<>>
      /\ descCache' = Head(descWatch) /\ descWatch' = Tail(descWatch)
      /\ desc' = desc /\ work' = work /\ rsWork' = rsWork
  BY DEF SyncDesc, IInv, TypeInv, TypeOK
<1>2. /\ descCache' = descWatch[1] /\ 1 \in DOMAIN descWatch /\ descCache' \in Description
      /\ descWatch' = <<>> => Len(descWatch) = 1
      /\ descWatch' # <<>> => descWatch'[Len(descWatch')] = descWatch[Len(descWatch)]
      /\ \A i \in DOMAIN descWatch' :
           /\ i \in Int /\ 1 < i + 1
           /\ i + 1 \in DOMAIN descWatch /\ descWatch'[i] = descWatch[i + 1]
  BY <1>1, TailFacts
<1>3. ASSUME NEW i \in DOMAIN descWatch'
      PROVE  /\ Behind(descWatch'[i], desc')
             /\ descCache'.phase # "live" => descWatch'[i].phase # "live"
  <2>1. i + 1 \in DOMAIN descWatch /\ descWatch'[i] = descWatch[i + 1] /\ 1 < i + 1
    BY <1>2
  <2>. QED  BY <1>1, <1>2, <2>1 DEF IInv, VersionInv
<1>4. ASSUME NEW i \in DOMAIN descWatch', NEW j \in DOMAIN descWatch', i < j,
             descWatch'[i].phase # "live"
      PROVE  descWatch'[j].phase # "live"
  <2>1. /\ i + 1 \in DOMAIN descWatch /\ descWatch'[i] = descWatch[i + 1]
        /\ j + 1 \in DOMAIN descWatch /\ descWatch'[j] = descWatch[j + 1]
        /\ i + 1 < j + 1
    BY <1>2, <1>4
  <2>. QED  BY <1>4, <2>1 DEF IInv, VersionInv
<1>5. descWatch' = <<>> => descCache' = desc'
  BY <1>1, <1>2 DEF IInv, VersionInv
<1>6. Behind(descCache', desc') /\ (descWatch' # <<>> => descWatch'[Len(descWatch')] = desc')
  BY <1>1, <1>2 DEF IInv, VersionInv
<1>. QED  BY <1>1, <1>3, <1>4, <1>5, <1>6 DEF IInv, VersionInv

-----------------------------------------------------------------------------
(* What steps leave alone.                                                 *)

(* What the versions in use have of a Description that is live. *)
LEMMA LiveFacts ==
  ASSUME IInv
  PROVE  /\ desc.phase = "live" =>
              /\ descCache.phase = "live"
              /\ work # None => work.desc.phase = "live"
         /\ Exists(desc) => Exists(descCache)
         /\ \A r \in In(desc.raw) : r \in Res /\ r \in In(descCache.raw)
         /\ \A r \in Res : desc.raw[r] # 0 => descCache.raw[r] <= desc.raw[r]
         /\ descCache.rv = desc.rv => descCache.raw = desc.raw
BY DEF IInv, VersionInv, Behind, Exists, In

LEMMA JobKept ==
  ASSUME IInv, SameMode, UNCHANGED <<descCache, work>>, queued => queued',
         started \subseteq started', ~scenario.recovery => started' = started,
         DeployableByAgent => hubTodo' = {}
  PROVE  JobInv'
<1>1. /\ DeployableByAgent' <=> DeployableByAgent
      /\ scenario'.recovery = scenario.recovery /\ scenario'.kinds = scenario.kinds
  BY ModeKept
<1>. QED  BY <1>1 DEF IInv, JobInv

(* A controller that is not involved. *)
LEMMA PendAtKept ==
  ASSUME IInv, TypeInv', NEW c \in Res, NEW r, PendAt(c, r), Behind(desc, desc'),
         rsWork'[c] = rsWork[c], c \in rsQueue => c \in rsQueue'
  PROVE  PendAt(c, r)'
<1>1. CASE c \in rsQueue
  BY <1>1 DEF PendAt
<1>2. CASE rsWork[c] # None /\ (r \in rsWork[c].todo \/ rsWork[c].failed)
  BY <1>2 DEF PendAt
<1>3. CASE rsWork[c] # None /\ rsWork[c].desc.rv # desc.rv
  <2>1. rsWork[c].desc.rv \in Nat /\ desc.rv \in Nat /\ desc'.rv \in Nat
    BY <1>3, RsWorkFacts, DescFacts DEF IInv, TypeInv, TypeOK
  <2>2. rsWork[c].desc.rv <= desc.rv /\ desc.rv <= desc'.rv
    BY <1>3 DEF IInv, VersionInv, Behind
  <2>. QED  BY <1>3, <2>1, <2>2 DEF PendAt
<1>. QED  BY <1>1, <1>2, <1>3 DEF PendAt

LEMMA RecoveringKept ==
  ASSUME IInv, TypeInv', NEW r, Recovering(r), Behind(desc, desc'),
         UNCHANGED rsWork, rsQueue \subseteq rsQueue', started \subseteq started'
  PROVE  Recovering(r)'
<1>1. PICK c \in started : PendAt(c, r)
  BY DEF Recovering
<1>2. c \in Res
  BY DEF IInv, TypeInv, TypeOK
<1>3. PendAt(c, r)'
  BY <1>1, <1>2, PendAtKept
<1>. QED  BY <1>3 DEF Recovering

(* One controller makes a step. *)
LEMMA RecoveringStep ==
  ASSUME IInv, TypeInv', NEW c \in Res, NEW r, Recovering(r), Behind(desc, desc'),
         \A x \in Res \ {c} : rsWork'[x] = rsWork[x],
         \A x \in Res \ {c} : x \in rsQueue => x \in rsQueue',
         started' = started, PendAt(c, r) => PendAt(c, r)'
  PROVE  Recovering(r)'
<1>1. PICK x \in started : PendAt(x, r)
  BY DEF Recovering
<1>2. x \in Res
  BY DEF IInv, TypeInv, TypeOK
<1>3. PendAt(x, r)'
  <2>1. CASE x = c
    BY <1>1, <2>1
  <2>2. CASE x # c
    BY <1>1, <1>2, <2>2, PendAtKept
  <2>. QED  BY <2>1, <2>2
<1>. QED  BY <1>3 DEF Recovering

(* A key in the queue of a controller. *)
LEMMA QueuedRecovers ==
  ASSUME NEW r, NEW c, c \in started', c \in rsQueue'
  PROVE  Recovering(r)'
BY DEF Recovering, PendAt

LEMMA ServedKept ==
  ASSUME SameMode, NEW r, Served(r), desc'.raw = desc.raw, child'[r] = child[r],
         Dropping(r) => Dropping(r)',
         r \in unseen => r \in unseen', r \in hubTodo => r \in hubTodo',
         Recovering(r) => Recovering(r)',
         DeployableByAgent /\ Deploying(r) => Deploying(r)' \/ Recovering(r)',
         r \notin started /\ child[r] # 0 => r \notin started' \/ Recovering(r)'
  PROVE  Served(r)'
BY ModeKept DEF Served

LEMMA DeployingKept ==
  ASSUME SameMode, NEW r, Deploying(r), UNCHANGED <<work, descCache>>,
         desc'.raw = desc.raw, queued => queued'
  PROVE  Deploying(r)'
BY ModeKept DEF Deploying

LEMMA StartingKept ==
  ASSUME SameMode, NEW r, Starting(r), UNCHANGED <<work, descCache>>,
         descCache.raw # desc.raw => descCache'.raw # desc'.raw,
         queued => queued', started \subseteq started'
  PROVE  Starting(r)'
BY ModeKept DEF Starting

(* Enough for a step that leaves the contents of the Description alone. *)
LEMMA LiveKept ==
  ASSUME IInv, SameMode, desc'.raw = desc.raw, desc'.phase = "live" => desc.phase = "live",
         ASSUME desc.phase = "live", NEW r \in In(desc.raw), Served(r),
                scenario.recovery => Starting(r)
         PROVE  Served(r)' /\ (scenario.recovery => Starting(r)')
  PROVE  LiveInv'
<1>1. scenario'.recovery = scenario.recovery
  BY ModeKept
<1>2. ASSUME desc'.phase = "live", NEW r \in In(desc'.raw)
      PROVE  Served(r)' /\ (scenario'.recovery => Starting(r)')
  <2>1. desc.phase = "live" /\ r \in In(desc.raw)
    BY <1>2
  <2>2. Served(r) /\ (scenario.recovery => Starting(r))
    BY <2>1 DEF IInv, LiveInv
  <2>. QED  BY <1>1, <2>1, <2>2
<1>. QED  BY <1>2 DEF LiveInv

LEMMA PruneKept ==
  ASSUME IInv, pruning' \subseteq pruning, UNCHANGED update, desc'.raw = desc.raw,
         desc.phase # "live" => desc'.phase # "live"
  PROVE  PruneInv'
BY DEF IInv, PruneInv, Removing, Dropping

LEMMA GoneKept ==
  ASSUME IInv, SameMode,
         ASSUME DeployableByAgent, AgentGoneInv PROVE AgentGoneInv',
         ASSUME ~DeployableByAgent, HubGoneInv PROVE HubGoneInv'
  PROVE  GoneInv'
<1>1. DeployableByAgent => AgentGoneInv'
  BY DEF IInv, GoneInv
<1>2. ~DeployableByAgent => HubGoneInv'
  BY DEF IInv, GoneInv
<1>. QED  BY <1>1, <1>2, ModeKept DEF GoneInv

(* Only a write of what is wanted leaves more in the child cluster. *)
WantedWrites == \A r \in Res : Left(r)' => Left(r) \/ ~Removing(r)

LEMMA HubGoneKept ==
  ASSUME HubGoneInv, WantedWrites, UNCHANGED <<hubTodo, update, pruning>>,
         desc'.raw = desc.raw, desc'.phase = desc.phase
  PROVE  HubGoneInv'
<1>1. \A r \in Res : Removing(r)' <=> Removing(r)
  BY DEF Removing, Dropping
<1>. QED  BY <1>1 DEF HubGoneInv, WantedWrites

LEMMA AgentGoneKept ==
  ASSUME IInv, AgentGoneInv, WantedWrites, UNCHANGED <<descCache, work>>,
         desc'.raw = desc.raw, desc'.phase = desc.phase
  PROVE  AgentGoneInv'
<1>1. CASE desc.phase = "live"
  BY <1>1, LiveFacts DEF AgentGoneInv
<1>2. CASE desc.phase # "live"
  <2>1. \A r \in Res : Left(r)' => Left(r)
    BY <1>2 DEF WantedWrites, Removing
  <2>2. In(desc'.raw) = In(desc.raw) /\ In(desc.raw) \subseteq Res
    BY DEF In
  <2>. QED  BY <2>1, <2>2 DEF AgentGoneInv
<1>. QED  BY <1>1, <1>2

-----------------------------------------------------------------------------
(* The steps of users and of the hub.                                      *)

(* The contents of one resource are replaced, or it is dropped. *)
LEMMA RewriteStep ==
  ASSUME IInv, TypeInv', SameMode, NEW q \in Res, NEW v \in Content,
         desc.phase = "live", desc.raw[q] # 0,
         \/ v = desc.raw[q] + 1 /\ update' = update
         \/ v = 0 /\ Dropping(q) /\ update' = None,
         HubWrites([desc EXCEPT !.raw[q] = v])
  PROVE  IInv'
<1>1. /\ desc \in Description /\ desc.raw[q] \in Nat
      /\ desc.rv \in Nat /\ desc' \in Description
  BY DescFacts DEF IInv, TypeInv, TypeOK
<1> DEFINE d == [desc EXCEPT !.raw[q] = v]
<1>2. /\ d \in Description /\ d.rv = desc.rv /\ d.phase = desc.phase
      /\ d.raw[q] = v /\ \A r \in Res \ {q} : d.raw[r] = desc.raw[r]
  BY RawFacts DEF IInv
<1>3. /\ WriteDesc(d)
      /\ hubTodo' = IF DeployableByHub THEN In(d.raw) ELSE {}
      /\ UNCHANGED <<child, pruning, agentVars, rsQueue, unseen, revived>>
  BY DEF HubWrites, history
<1> HIDE DEF d
<1>4. /\ desc'.phase = "live" /\ desc'.raw = d.raw /\ descCache' = descCache
      /\ \/ desc' = desc /\ descWatch' = descWatch
         \/ desc'.rv = desc.rv + 1 /\ descWatch' = Append(descWatch, desc')
  BY <1>1, <1>2, <1>3, WriteDescFacts DEF IInv
<1>5. v # desc.raw[q]
  BY <1>1
<1>6. desc'.rv = desc.rv + 1 /\ descWatch' = Append(descWatch, desc')
  BY <1>2, <1>4, <1>5
<1>7. \A r \in Res : desc'.raw[r] = IF r = q THEN v ELSE desc.raw[r]
  BY <1>2, <1>4
<1>8. ASSUME NEW r \in Res
      PROVE  desc'.raw[r] # 0 => desc.raw[r] # 0 /\ desc.raw[r] <= desc'.raw[r]
  <2>1. desc.raw[r] \in Nat
    BY <1>1, DescFacts
  <2>. QED  BY <1>1, <1>7, <2>1
<1>9. Behind(desc, desc')
  BY <1>1, <1>4, <1>6, <1>8 DEF Behind
<1>10. descCache.raw # desc'.raw
  <2>1. q \in In(desc.raw)
    BY DEF In
  <2>2. descCache.raw[q] # 0 /\ descCache.raw[q] <= desc.raw[q] /\ descCache.raw[q] \in Nat
    BY <2>1, LiveFacts, DescFacts DEF In, IInv, TypeInv, TypeOK
  <2>. QED  BY <1>1, <1>7, <2>2
<1>11. VersionInv'
  BY <1>3, <1>4, <1>6, <1>9, VersionKept DEF DescWritten, JobsFromLister, agentVars
<1>12. JobInv'
  BY <1>3, <1>4, JobKept, ModeFacts DEF agentVars, IInv
<1>13. LiveInv'
  <2>1. ASSUME NEW r \in In(desc'.raw)
        PROVE  Served(r)' /\ (scenario'.recovery => Starting(r)')
    <3>1. r \in Res /\ r \in In(desc.raw)
      BY <1>8 DEF In
    <3>2. Served(r)'
      <4>1. CASE DeployableByAgent
        BY <1>4, <1>10, <4>1, ModeKept DEF Served, Deploying
      <4>2. CASE ~DeployableByAgent
        BY <1>3, <1>4, <2>1, <4>2, ModeFacts DEF Served, IInv
      <4>. QED  BY <4>1, <4>2
    <3>3. scenario'.recovery => Starting(r)
      BY <3>1, ModeKept DEF IInv, LiveInv
    <3>. QED  BY <1>3, <1>4, <1>10, <3>2, <3>3, StartingKept DEF agentVars
  <2>. QED  BY <2>1 DEF LiveInv
<1>14. PruneInv'
  <2>1. ASSUME NEW r \in pruning PROVE Removing(r)'
    <3>1. r \in Res /\ Removing(r)
      BY <2>1 DEF IInv, PruneInv, TypeInv, TypeOK
    <3>2. desc.raw[r] = 0 \/ Dropping(r)
      BY <3>1 DEF Removing
    <3>. QED  BY <1>7, <3>1, <3>2 DEF Removing, Dropping
  <2>2. ASSUME update' # None PROVE desc'.raw[update'.res] # 0
    <3>1. v = desc.raw[q] + 1 /\ update' = update /\ update.res \in Res
      BY <2>2, UpdateFacts DEF IInv
    <3>2. desc.raw[update.res] # 0
      BY <2>2, <3>1 DEF IInv, PruneInv
    <3>. QED  BY <1>1, <1>7, <3>1, <3>2
  <2>. QED  BY <1>3, <2>1, <2>2 DEF PruneInv
<1>15. GoneInv'
  <2>1. ASSUME DeployableByAgent, AgentGoneInv PROVE AgentGoneInv'
    BY <1>3, <1>4, LiveFacts DEF AgentGoneInv, agentVars
  <2>2. ASSUME HubGoneInv PROVE HubGoneInv'
    <3>1. ASSUME NEW r \in Res, Removing(r)' PROVE Removing(r)
      <4>1. CASE v = 0 /\ Dropping(q) /\ update' = None
        <5>1. desc'.raw[r] = 0
          BY <1>4, <3>1, <4>1 DEF Removing, Dropping
        <5>. QED  BY <1>7, <4>1, <5>1 DEF Removing
      <4>2. CASE v = desc.raw[q] + 1 /\ update' = update
        <5>1. desc'.raw[r] = 0 \/ Dropping(r)
          BY <1>4, <3>1, <4>2 DEF Removing, Dropping
        <5>2. desc'.raw[r] = 0 => desc.raw[r] = 0
          BY <1>1, <1>7, <4>2
        <5>. QED  BY <5>1, <5>2 DEF Removing
      <4>. QED  BY <4>1, <4>2
    <3>. QED  BY <1>3, <1>4, <2>2, <3>1 DEF HubGoneInv, Left
  <2>. QED  BY <2>1, <2>2, GoneKept
<1>. QED  BY <1>11, <1>12, <1>13, <1>14, <1>15, ModeKept DEF IInv

LEMMA EditStep ==
  ASSUME IInv, NEW q \in Res, EditDesc(q)
  PROVE  IInv'
<1>1. TypeInv' /\ SameMode
  BY EditType DEF IInv
<1>2. desc.raw[q] + 1 \in Content
  <2>1. scenario.left > 0 /\ scenario.left \in Nat
        /\ desc.raw[q] + scenario.left <= MaxEvents + 1
    BY EventFacts DEF EditDesc, Event, IInv, TypeInv
  <2>2. desc.raw[q] \in Nat
    BY DescFacts DEF IInv, TypeInv, TypeOK
  <2>. QED  BY <2>1, <2>2, ConfigAssumption DEF Content
<1>. QED  BY <1>1, <1>2, RewriteStep DEF EditDesc

(* The goroutine that prunes resource q is started, before the Update. *)
LEMMA StartsUpdateStep ==
  ASSUME IInv, TypeInv', SameMode, NEW q \in Res, desc.phase = "live", desc.raw[q] # 0,
         update = None \/ Dropping(q), StartsUpdate(q),
         UNCHANGED <<descVars, child, hubTodo, agentVars, rsQueue, history>>
  PROVE  IInv'
<1>1. UNCHANGED <<desc, descCache, descWatch, child, hubTodo, queued, work, started, rsWork,
                  rsQueue, unseen, revived>>
  BY DEF descVars, agentVars, history
<1>2. DescWritten
  BY DescKept DEF IInv
<1>3. VersionInv'
  BY <1>1, <1>2, VersionKept DEF JobsFromLister
<1>4. JobInv'
  BY <1>1, JobKept DEF IInv, JobInv
<1>5. update'.res = q /\ \A r : Dropping(r)' <=> r = q
  <2>1. update' \in Update
    BY UpdateFacts, DescFacts DEF StartsUpdate, Update, IInv, TypeInv, TypeOK
  <2>2. update' # None /\ update'.res = q
    BY <2>1, NoneAssumption DEF StartsUpdate
  <2>. QED  BY <2>2 DEF Dropping
<1>6. \A r : Dropping(r) => Dropping(r)'
  BY <1>5 DEF Dropping
<1>7. LiveInv'
  <2>1. ASSUME desc.phase = "live", NEW r \in In(desc.raw), Served(r),
               scenario.recovery => Starting(r)
        PROVE  Served(r)' /\ (scenario.recovery => Starting(r)')
    <3>1. scenario.recovery => Starting(r)'
      BY <1>1, <2>1, StartingKept
    <3>2. Recovering(r) => Recovering(r)'
      BY <1>1, <1>2, RecoveringKept DEF DescWritten
    <3>3. Deploying(r) => Deploying(r)'
      BY <1>1, DeployingKept
    <3>4. Served(r)'
      BY <1>1, <1>6, <2>1, <3>2, <3>3, ServedKept
    <3>. QED  BY <3>1, <3>4
  <2>. QED  BY <1>1, <2>1, LiveKept
<1>8. PruneInv'
  <2>1. ASSUME NEW r \in pruning' PROVE Removing(r)'
    <3>1. r = q \/ Removing(r)
      BY <2>1 DEF StartsUpdate, IInv, PruneInv
    <3>. QED  BY <1>1, <1>5, <1>6, <3>1 DEF Removing
  <2>. QED  BY <1>1, <1>5, <2>1 DEF PruneInv
<1>9. GoneInv'
  <2>1. ASSUME AgentGoneInv PROVE AgentGoneInv'
    BY <1>1, <2>1 DEF AgentGoneInv, Left
  <2>2. ASSUME ~DeployableByAgent, HubGoneInv PROVE HubGoneInv'
    <3>1. pruning' = pruning \cup {q}
      BY <2>2, ModeFacts DEF StartsUpdate, IInv
    <3>2. \A r \in Res : Removing(r)' => Removing(r) \/ r = q
      BY <1>1, <1>5 DEF Removing
    <3>. QED  BY <1>1, <2>2, <3>1, <3>2 DEF HubGoneInv, Left
  <2>. QED  BY <2>1, <2>2, GoneKept
<1>. QED  BY <1>3, <1>4, <1>7, <1>8, <1>9, ModeKept DEF IInv

LEMMA ShrinkStep ==
  ASSUME IInv, NEW q \in Res, ShrinkDesc(q)
  PROVE  IInv'
<1>1. TypeInv' /\ SameMode
  BY ShrinkType DEF IInv
<1>. QED  BY <1>1, StartsUpdateStep DEF ShrinkDesc

LEMMA HubUpdatesStep ==
  ASSUME IInv, HubUpdates
  PROVE  IInv'
<1>1. /\ TypeInv' /\ SameMode /\ update # None /\ update.res \in Res
      /\ Dropping(update.res) /\ (desc.phase = "live" => desc.raw[update.res] # 0)
  BY HubUpdatesType, UpdateFacts DEF IInv, PruneInv, HubUpdates, Dropping
<1>2. CASE desc.phase = "live" /\ desc.rv = update.rv
  <2>1. HubWrites([desc EXCEPT !.raw[update.res] = 0]) /\ update' = None /\ 0 \in Content
    BY <1>2, ConfigAssumption DEF HubUpdates, Content
  <2>. QED  BY <1>1, <1>2, <2>1, RewriteStep
<1>3. CASE desc.phase = "live" /\ desc.rv # update.rv
  BY <1>1, <1>3, StartsUpdateStep DEF HubUpdates
<1>4. CASE desc.phase # "live"
  <2>1. /\ update' = None
        /\ UNCHANGED <<desc, descCache, descWatch, child, hubTodo, pruning, queued, work,
                       started, rsWork, rsQueue, unseen, revived, scenario>>
    BY <1>4 DEF HubUpdates, descVars, agentVars, history
  <2>2. DescWritten
    BY <2>1, DescKept DEF IInv, descVars
  <2>3. VersionInv'
    BY <1>1, <2>1, <2>2, VersionKept DEF JobsFromLister
  <2>4. JobInv'
    BY <1>1, <2>1, JobKept DEF IInv, JobInv
  <2>5. LiveInv' /\ PruneInv'
    BY <1>4, <2>1 DEF LiveInv, PruneInv, Removing
  <2>6. GoneInv'
    <3>1. ASSUME AgentGoneInv PROVE AgentGoneInv'
      BY <2>1, <3>1 DEF AgentGoneInv, Left
    <3>2. ASSUME HubGoneInv PROVE HubGoneInv'
      BY <1>4, <2>1, <3>2 DEF HubGoneInv, Left, Removing
    <3>. QED  BY <1>1, <3>1, <3>2, GoneKept
  <2>. QED  BY <1>1, <2>3, <2>4, <2>5, <2>6, ModeKept DEF IInv
<1>. QED  BY <1>2, <1>3, <1>4

LEMMA DeleteStep ==
  ASSUME IInv, DeleteDesc
  PROVE  IInv'
<1>1. TypeInv' /\ SameMode
  BY DeleteType DEF IInv
<1> DEFINE d == [desc EXCEPT !.phase = "deleting"]
<1>2. /\ d \in Description /\ d.rv = desc.rv /\ d.phase = "deleting" /\ d.raw = desc.raw
      /\ desc.phase = "live"
  BY PhaseFacts DEF IInv, DeleteDesc
<1>3. /\ WriteDesc(d)
      /\ hubTodo' = IF DeployableByHub THEN In(d.raw) ELSE {}
      /\ UNCHANGED <<child, update, pruning, agentVars, rsQueue, unseen, revived>>
  BY DEF DeleteDesc, HubWrites, history
<1> HIDE DEF d
<1>4. DescWritten /\ desc'.raw = desc.raw /\ desc'.phase = "deleting"
  BY <1>2, <1>3, DescReported DEF IInv
<1>5. VersionInv'
  BY <1>1, <1>3, <1>4, VersionKept DEF JobsFromLister, agentVars
<1>6. JobInv'
  BY <1>1, <1>3, <1>4, JobKept, ModeFacts DEF agentVars, IInv, DescWritten
<1>7. LiveInv'
  BY <1>4 DEF LiveInv
<1>8. PruneInv'
  BY <1>2, <1>3, <1>4, PruneKept
<1>9. GoneInv'
  <2>1. ASSUME AgentGoneInv PROVE AgentGoneInv'
    BY <1>2, <1>3, <1>4, LiveFacts DEF AgentGoneInv, agentVars
  <2>2. ASSUME ~DeployableByAgent, HubGoneInv PROVE HubGoneInv'
    <3>1. hubTodo' = In(desc.raw)
      BY <1>2, <1>3, <2>2, ModeFacts DEF IInv
    <3>2. ASSUME NEW r \in Res, Left(r)' PROVE r \in pruning' \/ r \in hubTodo'
      <4>1. Left(r)
        BY <1>3, <3>2 DEF Left
      <4>2. CASE desc.raw[r] # 0
        BY <3>1, <4>2 DEF In
      <4>3. CASE desc.raw[r] = 0
        BY <1>2, <1>3, <2>2, <4>1, <4>3 DEF HubGoneInv, Removing
      <4>. QED  BY <4>2, <4>3
    <3>. QED  BY <1>4, <3>2 DEF HubGoneInv
  <2>. QED  BY <1>1, <2>1, <2>2, GoneKept
<1>. QED  BY <1>1, <1>5, <1>6, <1>7, <1>8, <1>9, ModeKept DEF IInv

(* A watched resource that changes wakes its controllers. *)
LEMMA WatcherRecovers ==
  ASSUME TypeInv, NEW q \in Res, NEW v, child[q] # v, Watchers(q) # {},
         Woken(q, v) \subseteq rsQueue', started \subseteq started', NEW r
  PROVE  Recovering(r)'
<1>1. PICK c \in started : c \in Watchers(q)
  BY DEF Watchers
<1>2. c \in rsQueue'
  BY <1>1 DEF Woken
<1>. QED  BY <1>2, QueuedRecovers

LEMMA DriftStep ==
  ASSUME IInv, NEW q \in Res, NEW v \in {0, Drifted}, Drift(q, v)
  PROVE  IInv'
<1>1. TypeInv' /\ SameMode
  BY DriftType DEF IInv
<1>2. /\ child[q] # 0 /\ child[q] # v /\ child' = [child EXCEPT ![q] = v]
      /\ rsQueue \subseteq rsQueue' /\ Woken(q, v) \subseteq rsQueue'
      /\ unseen \subseteq unseen' /\ (v = 0 /\ Watchers(q) = {} => q \in unseen')
      /\ UNCHANGED <<descVars, hubTodo, update, pruning, agentVars>>
  BY DEF Drift, hubVars
<1>3. child'[q] = v /\ \A r \in Res \ {q} : child'[r] = child[r]
  BY <1>2 DEF IInv, TypeInv, TypeOK
<1>4. DescWritten
  BY <1>2, DescKept DEF IInv
<1>5. VersionInv'
  BY <1>1, <1>2, <1>4, VersionKept DEF JobsFromLister, agentVars
<1>6. JobInv'
  BY <1>1, <1>2, JobKept DEF agentVars, descVars, IInv, JobInv
<1>7. LiveInv'
  <2>1. ASSUME desc.phase = "live", NEW r \in In(desc.raw), Served(r),
               scenario.recovery => Starting(r)
        PROVE  Served(r)' /\ (scenario.recovery => Starting(r)')
    <3>1. r \in Res
      BY DEF In
    <3>2. scenario.recovery => Starting(r)'
      BY <1>1, <1>2, <2>1, StartingKept DEF agentVars, descVars
    <3>3. Recovering(r) => Recovering(r)'
      BY <1>1, <1>2, <1>4, RecoveringKept DEF agentVars, DescWritten
    <3>4. Deploying(r) => Deploying(r)'
      BY <1>1, <1>2, DeployingKept DEF agentVars, descVars
    <3>5. CASE r # q
      BY <1>1, <1>2, <1>3, <2>1, <3>1, <3>2, <3>3, <3>4, <3>5, ServedKept
         DEF agentVars, descVars, Dropping
    <3>6. CASE r = q /\ Watchers(q) # {}
      <4>1. Recovering(r)'
        BY <1>2, <3>6, WatcherRecovers DEF agentVars, IInv
      <4>. QED  BY <3>2, <4>1 DEF Served
    <3>7. CASE r = q /\ Watchers(q) = {}
      <4>1. CASE v = 0
        BY <1>2, <3>2, <3>7, <4>1 DEF Served
      <4>2. CASE v = Drifted /\ ~scenario.recovery
        BY <1>1, <1>3, <3>2, <3>7, <4>2, ModeKept DEF Served
      <4>3. CASE v = Drifted /\ scenario.recovery
        <5>1. q \notin started /\ v # 0
          BY <3>7, <4>3, ConfigAssumption DEF Watchers
        <5>2. CASE ~DeployableByAgent
          BY <1>1, <1>2, <1>3, <3>2, <3>7, <4>3, <5>1, <5>2, ModeKept DEF Served, agentVars
        <5>3. CASE DeployableByAgent
          <6>1. "drift" \in scenario.kinds
            BY <4>3, <5>1, EventFacts DEF Drift, IInv
          <6>2. "apierr" \in scenario.kinds => \A x, y \in Res : KindOf[x] = KindOf[y]
            BY <4>3, <5>3, <6>1, ModeFacts DEF Orderly, IInv
          <6>3. work # None /\ work.blocked => "apierr" \notin scenario.kinds
            BY <3>7, <6>2 DEF IInv, JobInv, Watchers, TypeInv, TypeOK
          <6>4. work # None => work.blocked \in BOOLEAN
            BY WorkFacts DEF IInv
          <6>5. Starting(q)
            BY <2>1, <3>7, <4>3
          <6>6. Deploying(q)
            BY <5>1, <6>3, <6>4, <6>5 DEF Starting, Deploying, IInv, JobInv
          <6>. QED  BY <1>1, <3>2, <3>4, <3>7, <5>3, <6>6, ModeKept DEF Served
        <5>. QED  BY <5>2, <5>3
      <4>. QED  BY <4>1, <4>2, <4>3
    <3>. QED  BY <3>5, <3>6, <3>7
  <2>. QED  BY <1>1, <1>2, <2>1, LiveKept DEF descVars
<1>8. PruneInv'
  BY <1>2, PruneKept DEF descVars
<1>9. GoneInv'
  <2>1. WantedWrites
    <3>1. ASSUME NEW r \in Res, Left(r)' PROVE Left(r)
      BY <1>2, <1>3, <3>1 DEF Left, Drift
    <3>. QED  BY <3>1 DEF WantedWrites
  <2>. QED  BY <1>1, <1>2, <2>1, AgentGoneKept, HubGoneKept, GoneKept DEF agentVars, descVars
<1>. QED  BY <1>1, <1>5, <1>6, <1>7, <1>8, <1>9, ModeKept DEF IInv

LEMMA HubSyncsStep ==
  ASSUME IInv, NEW q \in Res, HubSyncs(q)
  PROVE  IInv'
<1>1. TypeInv' /\ SameMode
  BY HubStepType, QuietFacts DEF IInv, HubSyncs
<1>2. /\ q \in hubTodo /\ hubTodo' = hubTodo \ {q}
      /\ child' = [child EXCEPT ![q] = IF desc.phase = "live" THEN desc.raw[q] ELSE 0]
      /\ rsQueue \subseteq rsQueue' /\ unseen' = unseen \ {q}
      /\ UNCHANGED <<descVars, update, pruning, agentVars, scenario>>
  BY DEF HubSyncs, WriteChild
<1>3. /\ child'[q] = IF desc.phase = "live" THEN desc.raw[q] ELSE 0
      /\ \A r \in Res \ {q} : child'[r] = child[r]
  BY <1>2 DEF IInv, TypeInv, TypeOK
<1>4. DescWritten /\ ~DeployableByAgent
  BY <1>2, DescKept DEF IInv, JobInv
<1>5. VersionInv'
  BY <1>1, <1>2, <1>4, VersionKept DEF JobsFromLister, agentVars
<1>6. JobInv'
  BY <1>1, <1>2, <1>4, JobKept DEF agentVars, descVars
<1>7. LiveInv'
  <2>1. ASSUME desc.phase = "live", NEW r \in In(desc.raw), Served(r),
               scenario.recovery => Starting(r)
        PROVE  Served(r)' /\ (scenario.recovery => Starting(r)')
    <3>1. r \in Res
      BY DEF In
    <3>2. scenario.recovery => Starting(r)'
      BY <1>1, <1>2, <2>1, StartingKept DEF agentVars, descVars
    <3>3. CASE r = q
      BY <1>2, <1>3, <2>1, <3>2, <3>3 DEF Served, descVars
    <3>4. CASE r # q
      <4>1. Recovering(r) => Recovering(r)'
        BY <1>1, <1>2, <1>4, RecoveringKept DEF agentVars, DescWritten
      <4>2. Served(r)'
        BY <1>1, <1>2, <1>3, <1>4, <2>1, <3>1, <3>4, <4>1, ServedKept
           DEF agentVars, descVars, Dropping
      <4>. QED  BY <3>2, <4>2
    <3>. QED  BY <3>3, <3>4
  <2>. QED  BY <1>1, <1>2, <2>1, LiveKept DEF descVars
<1>8. PruneInv'
  BY <1>2, PruneKept DEF descVars
<1>9. GoneInv'
  <2>1. ASSUME HubGoneInv PROVE HubGoneInv'
    <3>1. \A r \in Res : Removing(r)' <=> Removing(r)
      BY <1>2 DEF Removing, Dropping, descVars
    <3>2. Left(q)' => ~Removing(q)
      BY <1>3 DEF Left, HubSyncs, WriteChild, Removing
    <3>3. ASSUME NEW r \in Res, r # q, Left(r)' PROVE Left(r)
      BY <1>3, <3>3 DEF Left, HubSyncs, WriteChild
    <3>. QED  BY <1>2, <2>1, <3>1, <3>2, <3>3 DEF HubGoneInv, descVars
  <2>. QED  BY <1>1, <1>4, <2>1, GoneKept
<1>. QED  BY <1>1, <1>5, <1>6, <1>7, <1>8, <1>9, ModeKept DEF IInv

LEMMA HubPrunesStep ==
  ASSUME IInv, NEW q \in Res, HubPrunes(q)
  PROVE  IInv'
<1>1. TypeInv' /\ SameMode
  BY HubStepType, QuietFacts DEF IInv, HubPrunes
<1>2. /\ q \in pruning /\ pruning' = pruning \ {q}
      /\ child' = [child EXCEPT ![q] = 0] /\ revived' = revived \ {q}
      /\ rsQueue \subseteq rsQueue' /\ unseen' = unseen \ {q}
      /\ UNCHANGED <<descVars, hubTodo, update, agentVars, scenario>>
  BY DEF HubPrunes, WriteChild
<1>3. child'[q] = 0 /\ \A r \in Res \ {q} : child'[r] = child[r]
  BY <1>2 DEF IInv, TypeInv, TypeOK
<1>4. DescWritten
  BY <1>2, DescKept DEF IInv
<1>5. VersionInv'
  BY <1>1, <1>2, <1>4, VersionKept DEF JobsFromLister, agentVars
<1>6. JobInv'
  BY <1>1, <1>2, JobKept DEF agentVars, descVars, IInv, JobInv
<1>7. LiveInv'
  <2>1. ASSUME desc.phase = "live", NEW r \in In(desc.raw), Served(r),
               scenario.recovery => Starting(r)
        PROVE  Served(r)' /\ (scenario.recovery => Starting(r)')
    <3>1. r \in Res
      BY DEF In
    <3>2. scenario.recovery => Starting(r)'
      BY <1>1, <1>2, <2>1, StartingKept DEF agentVars, descVars
    <3>3. CASE r = q
      <4>1. Dropping(r)
        BY <1>2, <2>1, <3>3 DEF IInv, PruneInv, Removing, In
      <4>2. Dropping(r)'
        BY <1>2, <4>1 DEF Dropping
      <4>. QED  BY <3>2, <4>2 DEF Served
    <3>4. CASE r # q
      <4>1. Recovering(r) => Recovering(r)'
        BY <1>1, <1>2, <1>4, RecoveringKept DEF agentVars, DescWritten
      <4>2. Deploying(r) => Deploying(r)'
        BY <1>1, <1>2, DeployingKept DEF agentVars, descVars
      <4>3. Served(r)'
        BY <1>1, <1>2, <1>3, <2>1, <3>1, <3>4, <4>1, <4>2, ServedKept
           DEF agentVars, descVars, Dropping
      <4>. QED  BY <3>2, <4>3
    <3>. QED  BY <3>3, <3>4
  <2>. QED  BY <1>1, <1>2, <2>1, LiveKept DEF descVars
<1>8. PruneInv'
  BY <1>2, PruneKept DEF descVars
<1>9. GoneInv'
  <2>1. \A r \in Res : Left(r)' => Left(r) /\ r # q
    BY <1>2, <1>3 DEF Left
  <2>2. ASSUME AgentGoneInv PROVE AgentGoneInv'
    BY <1>2, <2>1, <2>2, AgentGoneKept DEF WantedWrites, agentVars, descVars
  <2>3. ASSUME HubGoneInv PROVE HubGoneInv'
    <3>1. \A r \in Res : Removing(r)' <=> Removing(r)
      BY <1>2 DEF Removing, Dropping, descVars
    <3>. QED  BY <1>2, <2>1, <2>3, <3>1 DEF HubGoneInv, descVars
  <2>. QED  BY <1>1, <2>2, <2>3, GoneKept
<1>. QED  BY <1>1, <1>5, <1>6, <1>7, <1>8, <1>9, ModeKept DEF IInv

(* Steps that only report: a new status, with the same contents. *)
LEMMA HubEndsStep ==
  ASSUME IInv, HubEnds
  PROVE  IInv'
<1>1. TypeInv' /\ SameMode
  BY HubStepType, QuietFacts DEF IInv, HubEnds
<1>2. /\ ~DeployableByAgent /\ hubTodo = {}
      /\ UNCHANGED <<child, hubTodo, update, pruning, agentVars, rsQueue, unseen, revived,
                     scenario>>
  BY ModeFacts DEF HubEnds, IInv, hubVars, history
<1>3. /\ DescWritten /\ desc'.raw = desc.raw /\ desc.phase # "gone"
      /\ desc'.phase = IF desc.phase = "live" THEN "live" ELSE "gone"
  <2>1. CASE desc.phase = "live"
    BY <2>1, StatusFacts, DescReported DEF HubEnds, IInv
  <2>2. CASE desc.phase = "deleting"
    BY <2>2, PhaseFacts, DescReported DEF HubEnds, IInv
  <2>. QED  BY <2>1, <2>2 DEF HubEnds
<1>4. VersionInv'
  BY <1>1, <1>2, <1>3, VersionKept DEF JobsFromLister, agentVars
<1>5. JobInv'
  BY <1>1, <1>2, <1>3, JobKept DEF agentVars, DescWritten
<1>6. LiveInv'
  <2>1. ASSUME desc.phase = "live", NEW r \in In(desc.raw), Served(r),
               scenario.recovery => Starting(r)
        PROVE  Served(r)' /\ (scenario.recovery => Starting(r)')
    <3>1. scenario.recovery => Starting(r)'
      BY <1>1, <1>2, <1>3, <2>1, StartingKept DEF agentVars, DescWritten
    <3>2. Recovering(r) => Recovering(r)'
      BY <1>1, <1>2, <1>3, RecoveringKept DEF agentVars, DescWritten
    <3>3. Served(r)'
      BY <1>1, <1>2, <1>3, <2>1, <3>2, ServedKept DEF agentVars, Dropping
    <3>. QED  BY <3>1, <3>3
  <2>. QED  BY <1>1, <1>3, <2>1, LiveKept
<1>7. GoneInv'
  <2>1. ASSUME HubGoneInv PROVE HubGoneInv'
    BY <1>2, <1>3, <2>1 DEF HubGoneInv, Left, Removing, Dropping
  <2>. QED  BY <1>1, <1>2, <2>1, GoneKept
<1>8. PruneInv'
  BY <1>2, <1>3, PruneKept
<1>. QED  BY <1>1, <1>4, <1>5, <1>6, <1>7, <1>8, ModeKept DEF IInv

LEMMA RestartStep ==
  ASSUME IInv, Restart
  PROVE  IInv'
<1>1. TypeInv' /\ SameMode
  BY RestartType DEF IInv
<1>2. /\ descCache' = desc /\ descWatch' = <<>> /\ queued' = Exists(desc) /\ work' = None
      /\ started' = {} /\ rsQueue' = {} /\ \A c \in Res : rsWork'[c] = None
      /\ unseen' = unseen \cup {r \in Res : child[r] = 0}
      /\ UNCHANGED <<desc, child, hubTodo, update, pruning, revived>>
  BY DEF Restart, hubVars
<1>3. VersionInv'
  <2>1. Behind(desc, desc)
    BY BehindRefl DEF IInv, TypeInv, TypeOK
  <2>. QED  BY <1>2, <2>1 DEF VersionInv
<1>4. JobInv'
  BY <1>1, <1>2, ModeKept DEF IInv, JobInv
<1>5. LiveInv'
  <2>1. ASSUME desc.phase = "live", NEW r \in In(desc.raw), Served(r),
               scenario.recovery => Starting(r)
        PROVE  Served(r)' /\ (scenario.recovery => Starting(r)')
    <3>1. r \in Res /\ queued'
      BY <1>2, <2>1 DEF In, Exists
    <3>2. Starting(r)'
      BY <1>2, <3>1 DEF Starting
    <3>3. CASE DeployableByAgent
      BY <1>1, <3>1, <3>2, <3>3, ModeKept DEF Served, Deploying
    <3>4. CASE ~DeployableByAgent /\ child[r] = 0
      BY <1>2, <3>1, <3>2, <3>4 DEF Served
    <3>5. CASE ~DeployableByAgent /\ child[r] # 0 /\ scenario.recovery
      BY <1>1, <1>2, <3>2, <3>5, ModeKept DEF Served
    <3>6. CASE ~DeployableByAgent /\ ~scenario.recovery
      <4>1. ~Recovering(r)
        BY <3>6 DEF Recovering, IInv, JobInv
      <4>2. Served(r)'
        BY <1>1, <1>2, <2>1, <3>6, <4>1, ModeKept DEF Served, Dropping
      <4>. QED  BY <3>6, <4>2
    <3>. QED  BY <3>3, <3>4, <3>5, <3>6
  <2>. QED  BY <1>1, <1>2, <2>1, LiveKept
<1>6. GoneInv'
  <2>1. ASSUME AgentGoneInv PROVE AgentGoneInv'
    <3>1. desc.phase = "gone" => desc'.phase # "live"
      BY <1>2
    <3>. QED  BY <1>2, <2>1, <3>1 DEF AgentGoneInv, Left
  <2>2. ASSUME HubGoneInv PROVE HubGoneInv'
    BY <1>2, <2>2, HubGoneKept DEF WantedWrites, Left
  <2>. QED  BY <1>1, <2>1, <2>2, GoneKept
<1>7. PruneInv'
  BY <1>2, PruneKept
<1>. QED  BY <1>1, <1>3, <1>4, <1>5, <1>6, <1>7, ModeKept DEF IInv

(* A request of the worker of the description controller fails. *)
LEMMA WorkFailsStep ==
  ASSUME IInv, RequestFails, work # None, DeployableByAgent, NEW q \in work.todo,
         work' = [work EXCEPT !.todo = @ \ {q}, !.failed = TRUE], UNCHANGED rsWork
  PROVE  IInv'
<1>1. TypeInv' /\ SameMode /\ "apierr" \in scenario.kinds
  BY RequestFailsType, EventFacts DEF IInv, RequestFails
<1>2. UNCHANGED <<descVars, child, hubTodo, update, pruning, queued, started, rsQueue, unseen,
                  revived>>
  BY DEF RequestFails, hubVars, history
<1>3. /\ work' # None /\ work'.desc = work.desc /\ work'.todo = work.todo \ {q}
      /\ work'.failed = TRUE /\ work'.blocked = work.blocked
      /\ work.blocked \in BOOLEAN /\ work.failed \in BOOLEAN
  <2>1. work \in Job /\ work.blocked \in BOOLEAN /\ work.failed \in BOOLEAN
    BY WorkFacts DEF IInv
  <2>2. work' \in Job /\ work'.failed = TRUE /\ work'.blocked = work.blocked
        /\ work'.desc = work.desc /\ work'.todo = work.todo \ {q}
    BY <2>1 DEF Job
  <2>. QED  BY <2>1, <2>2, JobFacts
<1>4. DescWritten
  BY <1>2, DescKept DEF IInv
<1>5. VersionInv'
  BY <1>1, <1>3, <1>4, VersionKept DEF JobsFromLister
<1>6. JobInv'
  BY <1>1, <1>2, <1>3, ModeKept DEF IInv, JobInv, descVars
<1>7. LiveInv'
  <2>1. ASSUME desc.phase = "live", NEW r \in In(desc.raw), Served(r),
               scenario.recovery => Starting(r)
        PROVE  Served(r)' /\ (scenario.recovery => Starting(r)')
    <3>1. Starting(r)'
      BY <1>3 DEF Starting
    <3>2. Deploying(r) => Deploying(r)'
      BY <1>1, <1>2, <1>3, ModeKept DEF Deploying, descVars
    <3>3. Recovering(r) => Recovering(r)'
      BY <1>1, <1>2, <1>4, RecoveringKept DEF DescWritten
    <3>4. Served(r)'
      BY <1>1, <1>2, <2>1, <3>2, <3>3, ServedKept DEF descVars, Dropping
    <3>. QED  BY <3>1, <3>4
  <2>. QED  BY <1>1, <1>2, <2>1, LiveKept DEF descVars
<1>8. GoneInv'
  <2>1. ASSUME AgentGoneInv PROVE AgentGoneInv'
    BY <1>1, <1>2, <1>3, <2>1, ModeKept DEF AgentGoneInv, Left, descVars
  <2>. QED  BY <1>1, <2>1, GoneKept
<1>9. PruneInv'
  BY <1>2, PruneKept DEF descVars
<1>. QED  BY <1>1, <1>5, <1>6, <1>7, <1>8, <1>9, ModeKept DEF IInv

(* Steps of one controller: the frame. *)
ControllerStep(c) ==
  /\ SameMode /\ DescWritten
  /\ desc'.raw = desc.raw /\ desc'.phase = desc.phase
  /\ UNCHANGED <<hubTodo, update, pruning, queued, work, started>>
  /\ c \in started
  /\ \A x \in Res \ {c} : rsWork'[x] = rsWork[x] /\ (x \in rsQueue => x \in rsQueue')
  /\ rsWork'[c] # None =>
       rsWork'[c].desc = descCache \/ (rsWork[c] # None /\ rsWork'[c].desc = rsWork[c].desc)

LEMMA ControllerFrame ==
  ASSUME IInv, TypeInv', NEW c \in Res, ControllerStep(c), WantedWrites,
         ASSUME desc.phase = "live", NEW r \in In(desc.raw), Served(r) PROVE Served(r)'
  PROVE  IInv'
<1>1. SameMode /\ DescWritten /\ descCache' = descCache
  BY DEF ControllerStep, DescWritten
<1>2. VersionInv'
  <2>1. JobsFromLister
    BY DEF ControllerStep, JobsFromLister
  <2>. QED  BY <1>1, <2>1, VersionKept
<1>3. JobInv'
  BY <1>1, JobKept DEF ControllerStep, IInv, JobInv
<1>4. LiveInv'
  <2>1. ASSUME desc.phase = "live", NEW r \in In(desc.raw), Served(r),
               scenario.recovery => Starting(r)
        PROVE  Served(r)' /\ (scenario.recovery => Starting(r)')
    <3>1. scenario.recovery => Starting(r)'
      BY <1>1, <2>1, StartingKept DEF ControllerStep
    <3>. QED  BY <2>1, <3>1
  <2>. QED  BY <1>1, <2>1, LiveKept DEF ControllerStep
<1>5. PruneInv'
  BY PruneKept DEF ControllerStep
<1>6. GoneInv'
  BY <1>1, AgentGoneKept, HubGoneKept, GoneKept DEF ControllerStep
<1>. QED  BY <1>1, <1>2, <1>3, <1>4, <1>5, <1>6, ModeKept DEF IInv

(* ... and what is left to show where it writes no resource. *)
LEMMA ControllerServed ==
  ASSUME IInv, TypeInv', NEW c \in Res, ControllerStep(c), UNCHANGED <<child, unseen>>,
         NEW r \in In(desc.raw), Served(r), PendAt(c, r) => PendAt(c, r)'
  PROVE  Served(r)'
<1>1. SameMode /\ DescWritten /\ descCache' = descCache
  BY DEF ControllerStep, DescWritten
<1>2. Recovering(r) => Recovering(r)'
  BY RecoveringStep DEF ControllerStep, DescWritten
<1>3. Deploying(r) => Deploying(r)'
  BY <1>1, DeployingKept DEF ControllerStep
<1>. QED  BY <1>1, <1>2, <1>3, ServedKept DEF ControllerStep, Dropping

LEMMA RsWorkFailsStep ==
  ASSUME IInv, RequestFails, NEW c \in started, rsWork[c] # None, NEW q \in rsWork[c].todo,
         rsWork' = [rsWork EXCEPT ![c].todo = @ \ {q}, ![c].failed = TRUE], UNCHANGED work
  PROVE  IInv'
<1>1. TypeInv' /\ SameMode /\ c \in Res
  BY RequestFailsType DEF IInv, TypeInv, TypeOK
<1>2. UNCHANGED <<descVars, child, hubTodo, update, pruning, queued, started, rsQueue, unseen,
                  revived>>
  BY DEF RequestFails, hubVars, history
<1>3. /\ rsWork'[c] # None /\ rsWork'[c].desc = rsWork[c].desc
      /\ \A x \in Res \ {c} : rsWork'[x] = rsWork[x]
  BY <1>1, RsWorkStep DEF IInv
<1>4. rsWork'[c].failed = TRUE
  <2>1. rsWork[c] \in Job /\ rsWork \in [Res -> Job \cup {None}]
    BY <1>1, RsWorkFacts DEF IInv, TypeInv, TypeOK
  <2>2. [rsWork[c] EXCEPT !.todo = @ \ {q}, !.failed = TRUE].failed = TRUE
    BY <2>1 DEF Job
  <2>. QED  BY <1>1, <2>1, <2>2
<1>5. ControllerStep(c)
  BY <1>1, <1>2, <1>3, DescKept DEF ControllerStep, descVars, IInv
<1>6. \A r : PendAt(c, r)'
  BY <1>3, <1>4 DEF PendAt
<1>. QED  BY <1>1, <1>2, <1>5, <1>6, ControllerFrame, ControllerServed DEF WantedWrites, Left

LEMMA RequestFailsStep ==
  ASSUME IInv, RequestFails
  PROVE  IInv'
BY WorkFailsStep, RsWorkFailsStep DEF RequestFails

-----------------------------------------------------------------------------
(* The resource controllers.                                               *)

LEMMA GetResourceStep ==
  ASSUME IInv, NEW c \in Res, GetResource(c)
  PROVE  IInv'
<1>1. TypeInv' /\ SameMode
  BY RecoveryType, QuietFacts DEF IInv, Recovery, GetResource
<1>2. /\ c \in rsQueue /\ c \in started /\ rsQueue' = rsQueue \ {c} /\ rsWork[c] = None
      /\ rsWork'[c] = (IF Exists(descCache) THEN NewJob ELSE None)
      /\ \A x \in Res \ {c} : rsWork'[x] = rsWork[x]
      /\ UNCHANGED <<descVars, child, hubTodo, update, pruning, queued, work, started, unseen,
                     revived, scenario>>
  BY DEF GetResource, IInv, TypeInv, TypeOK, hubVars, history
<1>3. NewJob # None /\ NewJob.desc = descCache /\ NewJob.todo = In(descCache.raw)
  BY NewJobFacts DEF IInv
<1>4. ControllerStep(c)
  BY <1>1, <1>2, <1>3, DescKept DEF ControllerStep, descVars, IInv
<1>5. ASSUME desc.phase = "live", NEW r \in In(desc.raw) PROVE PendAt(c, r)'
  <2>1. rsWork'[c] = NewJob /\ r \in In(descCache.raw)
    BY <1>2, <1>5, LiveFacts DEF Exists
  <2>. QED  BY <1>3, <2>1 DEF PendAt
<1>. QED  BY <1>1, <1>2, <1>4, <1>5, ControllerFrame, ControllerServed DEF WantedWrites, Left

LEMMA RecoverResourceStep ==
  ASSUME IInv, NEW c \in Res, NEW q \in Res, RecoverResource(c, q)
  PROVE  IInv'
<1>1. TypeInv' /\ SameMode
  BY RecoveryType, QuietFacts DEF IInv, Recovery, RecoverResource
<1>2. /\ rsWork[c] # None /\ q \in rsWork[c].todo
      /\ child' = [child EXCEPT ![q] = rsWork[c].desc.raw[q]]
      /\ rsQueue \subseteq rsQueue' /\ unseen' = unseen \ {q}
      /\ UNCHANGED <<descVars, hubTodo, update, pruning, queued, work, started, scenario>>
  BY DEF RecoverResource, WriteChild, hubVars
<1>3. child'[q] = rsWork[c].desc.raw[q] /\ \A r \in Res \ {q} : child'[r] = child[r]
  BY <1>2 DEF IInv, TypeInv, TypeOK
<1>4. /\ rsWork'[c] # None /\ rsWork'[c].desc = rsWork[c].desc
      /\ rsWork'[c].todo = rsWork[c].todo \ {q}
      /\ rsWork'[c].failed = rsWork[c].failed \/ rsWork'[c].failed = TRUE
      /\ \A x \in Res \ {c} : rsWork'[x] = rsWork[x]
  BY <1>2, RsWorkStep DEF IInv, RecoverResource
<1>5. c \in started
  BY <1>2, RsWorkFacts DEF IInv
<1>6. ControllerStep(c)
  BY <1>1, <1>2, <1>4, <1>5, DescKept DEF ControllerStep, descVars, IInv
<1>7. ASSUME NEW r \in In(desc.raw), Served(r) PROVE Served(r)'
  <2>1. r \in Res
    BY DEF In
  <2>2. CASE r = q /\ rsWork[c].desc.rv = desc.rv
    <3>1. rsWork[c].desc.raw = desc.raw
      BY <1>2, <2>2 DEF IInv, VersionInv, Behind
    <3>. QED  BY <1>2, <1>3, <2>2, <3>1 DEF Served, descVars
  <2>3. CASE r = q /\ rsWork[c].desc.rv # desc.rv
    <3>1. PendAt(c, r)'
      BY <1>2, <1>4, <2>3 DEF PendAt, descVars
    <3>. QED  BY <1>2, <1>5, <3>1 DEF Served, Recovering
  <2>4. CASE r # q
    <3>1. PendAt(c, r) => PendAt(c, r)'
      BY <1>2, <1>4, <2>4 DEF PendAt, descVars
    <3>2. Recovering(r) => Recovering(r)'
      BY <1>1, <1>2, <1>6, <3>1, RecoveringStep DEF ControllerStep, DescWritten
    <3>3. Deploying(r) => Deploying(r)'
      BY <1>1, <1>2, DeployingKept DEF descVars
    <3>. QED  BY <1>1, <1>2, <1>3, <1>7, <2>1, <2>4, <3>2, <3>3, ServedKept
         DEF descVars, Dropping
  <2>. QED  BY <2>2, <2>3, <2>4
<1>8. WantedWrites
  <2>1. Left(q)' => ~Removing(q)
    BY <1>3 DEF Left, RecoverResource, WriteChild
  <2>2. ASSUME NEW r \in Res, r # q, Left(r)' PROVE Left(r)
    BY <1>3, <2>2 DEF Left, RecoverResource, WriteChild
  <2>. QED  BY <2>1, <2>2 DEF WantedWrites
<1>. QED  BY <1>1, <1>6, <1>7, <1>8, ControllerFrame

LEMMA RecoverEndsStep ==
  ASSUME IInv, NEW c \in Res, RecoverEnds(c)
  PROVE  IInv'
<1>1. TypeInv' /\ SameMode
  BY RecoveryType, QuietFacts DEF IInv, Recovery, RecoverEnds
<1>2. /\ rsWork[c] # None /\ rsWork[c].todo = {}
      /\ rsQueue \subseteq rsQueue'
      /\ rsWork[c].failed \/ ~Accepts(rsWork[c].desc) => c \in rsQueue'
      /\ rsWork' = [rsWork EXCEPT ![c] = None]
      /\ UNCHANGED <<child, hubTodo, update, pruning, queued, work, started, unseen, revived,
                     scenario>>
  BY DEF RecoverEnds, Finished, hubVars, history
<1>3. rsWork'[c] = None /\ \A x \in Res \ {c} : rsWork'[x] = rsWork[x]
  BY <1>2 DEF IInv, TypeInv, TypeOK
<1>4. c \in started
  BY <1>2, RsWorkFacts DEF IInv
<1>5. DescWritten /\ desc'.raw = desc.raw /\ desc'.phase = desc.phase
  <2>1. CASE UNCHANGED descVars
    BY <2>1, DescKept DEF IInv, descVars
  <2>2. CASE ~UNCHANGED descVars
    <3>1. WriteDesc(Reported(rsWork[c]))
      BY <2>2 DEF RecoverEnds
    <3>. QED  BY <3>1, ReportedFacts, DescReported DEF IInv
  <2>. QED  BY <2>1, <2>2
<1>6. ControllerStep(c)
  BY <1>1, <1>2, <1>3, <1>4, <1>5 DEF ControllerStep
<1>7. ASSUME desc.phase = "live", NEW r, PendAt(c, r) PROVE PendAt(c, r)'
  <2>1. c \in rsQueue'
    BY <1>2, <1>7 DEF PendAt, Accepts
  <2>. QED  BY <2>1 DEF PendAt
<1>. QED  BY <1>1, <1>2, <1>6, <1>7, ControllerFrame, ControllerServed DEF WantedWrites, Left

-----------------------------------------------------------------------------
(* The description controller.                                             *)

LEMMA SyncDescStep ==
  ASSUME IInv, SyncDesc
  PROVE  IInv'
<1>1. TypeInv' /\ SameMode
  BY SyncDescType, QuietFacts DEF IInv, SyncDesc
<1>2. /\ descWatch # <<>> /\ descCache' = Head(descWatch)
      /\ queued => queued'
      /\ descCache'.phase # "live" \/ descCache'.raw # descCache.raw => queued'
      /\ UNCHANGED <<desc, child, hubTodo, update, pruning, work, started, rsQueue, rsWork,
                     unseen, revived, scenario>>
  BY DEF SyncDesc, DescEventEnqueues, hubVars, history
<1>3. VersionInv'
  BY VersionSync
<1>4. descCache.phase # "live" => descCache'.phase # "live"
  <2>1. Head(descWatch) = descWatch[1] /\ 1 \in DOMAIN descWatch
    BY <1>2, TailFacts DEF IInv, TypeInv, TypeOK
  <2>. QED  BY <1>2, <2>1 DEF IInv, VersionInv
<1>5. JobInv'
  BY <1>1, <1>2, <1>4, ModeKept DEF IInv, JobInv
<1>6. LiveInv'
  <2>1. ASSUME desc.phase = "live", NEW r \in In(desc.raw), Served(r),
               scenario.recovery => Starting(r)
        PROVE  Served(r)' /\ (scenario.recovery => Starting(r)')
    <3>1. Recovering(r) => Recovering(r)'
      BY <1>2 DEF Recovering, PendAt
    <3>2. Deploying(r) => Deploying(r)'
      BY <1>1, <1>2, ModeKept DEF Deploying
    <3>3. Starting(r) => Starting(r)'
      BY <1>1, <1>2, ModeKept DEF Starting
    <3>4. Served(r)'
      BY <1>1, <1>2, <2>1, <3>1, <3>2, ServedKept DEF Dropping
    <3>. QED  BY <2>1, <3>3, <3>4
  <2>. QED  BY <1>1, <1>2, <2>1, LiveKept
<1>7. GoneInv'
  <2>1. ASSUME AgentGoneInv PROVE AgentGoneInv'
    BY <1>1, <1>2, <1>4, <2>1, ModeKept DEF AgentGoneInv, Left
  <2>2. ASSUME HubGoneInv PROVE HubGoneInv'
    BY <1>2, <2>2, HubGoneKept DEF WantedWrites, Left
  <2>. QED  BY <1>1, <2>1, <2>2, GoneKept
<1>8. PruneInv'
  BY <1>2, PruneKept
<1>. QED  BY <1>1, <1>3, <1>5, <1>6, <1>7, <1>8, ModeKept DEF IInv

LEMMA GetDescriptionStep ==
  ASSUME IInv, GetDescription
  PROVE  IInv'
<1>1. TypeInv' /\ SameMode
  BY WorkType, QuietFacts DEF IInv, Work, GetDescription
<1>2. /\ queued /\ work = None
      /\ work' = IF Exists(descCache) THEN NewJob ELSE None
      /\ UNCHANGED <<descVars, child, hubTodo, update, pruning, started, rsQueue, rsWork,
                     unseen, revived, scenario>>
  BY DEF GetDescription, hubVars, history
<1>3. /\ NewJob # None /\ NewJob.desc = descCache /\ NewJob.todo = In(descCache.raw)
      /\ NewJob.failed = FALSE /\ NewJob.blocked = FALSE
  BY NewJobFacts DEF IInv
<1>4. DescWritten
  BY <1>2, DescKept DEF IInv
<1>5. VersionInv'
  BY <1>1, <1>2, <1>3, <1>4, VersionKept DEF JobsFromLister
<1>6. JobInv'
  BY <1>1, <1>2, <1>3, ModeKept DEF IInv, JobInv, descVars
<1>7. LiveInv'
  <2>1. ASSUME desc.phase = "live", NEW r \in In(desc.raw), Served(r),
               scenario.recovery => Starting(r)
        PROVE  Served(r)' /\ (scenario.recovery => Starting(r)')
    <3>1. work' = NewJob /\ r \in In(descCache.raw)
      BY <1>2, <2>1, LiveFacts DEF Exists
    <3>2. Starting(r)' /\ Deploying(r)'
      BY <1>3, <3>1 DEF Starting, Deploying
    <3>3. Recovering(r) => Recovering(r)'
      BY <1>1, <1>2, <1>4, RecoveringKept DEF DescWritten
    <3>4. Served(r)'
      BY <1>1, <1>2, <2>1, <3>2, <3>3, ServedKept DEF descVars, Dropping
    <3>. QED  BY <3>2, <3>4
  <2>. QED  BY <1>1, <1>2, <2>1, LiveKept DEF descVars
<1>8. PruneInv'
  BY <1>2, PruneKept DEF descVars
<1>9. GoneInv'
  <2>1. ASSUME AgentGoneInv PROVE AgentGoneInv'
    <3>1. \A r \in In(desc.raw) : r \in In(descCache.raw)
      BY LiveFacts
    <3>. QED  BY <1>2, <1>3, <2>1, <3>1 DEF AgentGoneInv, Left, descVars
  <2>2. ASSUME HubGoneInv PROVE HubGoneInv'
    BY <1>2, <2>2, HubGoneKept DEF WantedWrites, Left, descVars
  <2>. QED  BY <1>1, <2>1, <2>2, GoneKept
<1>. QED  BY <1>1, <1>5, <1>6, <1>7, <1>8, <1>9, ModeKept DEF IInv

LEMMA OffloadStep ==
  ASSUME IInv, NEW q \in Res, OffloadResource(q)
  PROVE  IInv'
<1>1. TypeInv' /\ SameMode
  BY WorkType, QuietFacts DEF IInv, Work, OffloadResource
<1>2. /\ work # None /\ DeployableByAgent /\ work.desc.phase = "deleting"
      /\ child' = [child EXCEPT ![q] = 0] /\ revived' = revived \ {q}
      /\ work' = [work EXCEPT !.todo = @ \ {q}]
      /\ UNCHANGED <<descVars, hubTodo, update, pruning, queued, started, rsWork, scenario>>
  BY DEF OffloadResource, Offloads, WriteChild, hubVars
<1>3. child'[q] = 0 /\ \A r \in Res \ {q} : child'[r] = child[r]
  BY <1>2 DEF IInv, TypeInv, TypeOK
<1>4. /\ work' # None /\ work'.desc = work.desc /\ work'.todo = work.todo \ {q}
      /\ work'.failed = work.failed /\ work'.blocked = work.blocked
  <2>1. work \in Job
    BY <1>2, WorkFacts DEF IInv
  <2>2. work' \in Job /\ work'.desc = work.desc /\ work'.todo = work.todo \ {q}
        /\ work'.failed = work.failed /\ work'.blocked = work.blocked
    BY <1>2, <2>1 DEF Job
  <2>. QED  BY <2>2, JobFacts
<1>5. DescWritten /\ desc.phase # "live"
  BY <1>2, DescKept, LiveFacts DEF IInv
<1>6. VersionInv'
  BY <1>1, <1>2, <1>4, <1>5, VersionKept DEF JobsFromLister
<1>7. JobInv'
  BY <1>1, <1>2, <1>4, ModeKept DEF IInv, JobInv, descVars
<1>8. LiveInv'
  BY <1>2, <1>5 DEF LiveInv, descVars
<1>9. GoneInv'
  <2>1. ASSUME AgentGoneInv PROVE AgentGoneInv'
    <3>1. \A r \in Res : Left(r)' => Left(r) /\ r # q
      BY <1>2, <1>3 DEF Left
    <3>2. /\ In(desc.raw) \subseteq Res /\ desc' = desc /\ descCache' = descCache
          /\ work # None /\ In(desc'.raw) = In(desc.raw)
      BY <1>2 DEF In, descVars
    <3>. QED  BY <1>4, <2>1, <3>1, <3>2 DEF AgentGoneInv
  <2>. QED  BY <1>1, <1>2, <2>1, GoneKept
<1>10. PruneInv'
  BY <1>2, PruneKept DEF descVars
<1>. QED  BY <1>1, <1>6, <1>7, <1>8, <1>9, <1>10, ModeKept DEF IInv

LEMMA ApplyStep ==
  ASSUME IInv, NEW q \in Res, ApplyResource(q)
  PROVE  IInv'
<1>1. TypeInv' /\ SameMode
  BY WorkType, QuietFacts DEF IInv, Work, ApplyResource
<1>2. /\ work # None /\ q \in work.todo /\ ~Offloads
      /\ child' = IF DeployableByAgent THEN [child EXCEPT ![q] = work.desc.raw[q]] ELSE child
      /\ unseen' = IF DeployableByAgent THEN unseen \ {q} ELSE unseen
      /\ rsQueue \subseteq rsQueue'
      /\ started' = IF scenario.recovery THEN started \cup {q} ELSE started
      /\ UNCHANGED <<descVars, hubTodo, update, pruning, queued, rsWork, scenario>>
  BY DEF ApplyResource, Callback, hubVars
<1>3. scenario.recovery /\ child'[q] # 0 => q \in rsQueue' /\ q \in started'
  BY DEF ApplyResource, Callback
<1>4. /\ DeployableByAgent => child'[q] = work.desc.raw[q]
      /\ \A r \in Res \ {q} : child'[r] = child[r]
  BY <1>2 DEF IInv, TypeInv, TypeOK
<1>5. /\ work' # None /\ work'.desc = work.desc /\ work'.todo = work.todo \ {q}
      /\ work'.failed = work.failed
      /\ work'.blocked = (work.blocked \/ scenario.recovery)
  <2>1. work \in Job /\ work.blocked \in BOOLEAN /\ scenario.recovery \in BOOLEAN
    BY <1>2, WorkFacts DEF IInv, TypeInv, ScenarioType
  <2>2. work' = IF scenario.recovery
                THEN [work EXCEPT !.todo = @ \ {q}, !.blocked = TRUE]
                ELSE [work EXCEPT !.todo = @ \ {q}]
    BY DEF ApplyResource, Callback
  <2>3. work' \in Job /\ work'.desc = work.desc /\ work'.todo = work.todo \ {q}
        /\ work'.failed = work.failed /\ work'.blocked = (work.blocked \/ scenario.recovery)
    BY <2>1, <2>2 DEF Job
  <2>. QED  BY <2>3, JobFacts
<1>6. DescWritten
  BY <1>2, DescKept DEF IInv
<1>7. VersionInv'
  BY <1>1, <1>2, <1>5, <1>6, VersionKept DEF JobsFromLister
<1>8. JobInv'
  BY <1>1, <1>2, <1>5, ModeKept DEF IInv, JobInv, descVars
<1>9. LiveInv'
  <2>1. ASSUME desc.phase = "live", NEW r \in In(desc.raw), Served(r),
               scenario.recovery => Starting(r)
        PROVE  Served(r)' /\ (scenario.recovery => Starting(r)')
    <3>1. r \in Res
      BY DEF In
    <3>2. scenario.recovery => Starting(r)'
      BY <1>1, <1>2, <1>5, <2>1, ModeKept DEF Starting, descVars
    <3>3. Recovering(r) => Recovering(r)'
      BY <1>1, <1>2, <1>6, RecoveringKept DEF DescWritten
    <3>4. CASE ~DeployableByAgent
      <4>1. r \notin started /\ child[r] # 0 => r \notin started' \/ Recovering(r)'
        BY <1>2, <1>3, <3>4, QueuedRecovers
      <4>2. Served(r)'
        BY <1>1, <1>2, <2>1, <3>3, <3>4, <4>1, ServedKept DEF descVars, Dropping
      <4>. QED  BY <3>2, <4>2
    <3>5. CASE DeployableByAgent /\ work.desc.raw # desc.raw
      <4>1. Deploying(r)'
        BY <1>2, <3>5 DEF Deploying, IInv, JobInv, descVars
      <4>. QED  BY <1>1, <3>2, <3>5, <4>1, ModeKept DEF Served
    <3>6. CASE DeployableByAgent /\ work.desc.raw = desc.raw /\ r = q
      BY <1>2, <1>4, <3>2, <3>6 DEF Served, descVars
    <3>7. CASE DeployableByAgent /\ r # q
      <4>1. scenario.recovery => Recovering(r)'
        <5>1. child'[q] # 0
          BY <1>2, <1>4, <3>7 DEF IInv, JobInv, In
        <5>. QED  BY <1>3, <5>1, QueuedRecovers
      <4>2. ~scenario.recovery /\ Deploying(r) => Deploying(r)'
        BY <1>1, <1>2, <1>5, <3>7, ModeKept DEF Deploying, descVars
      <4>3. CASE scenario.recovery
        BY <3>2, <4>1, <4>3 DEF Served
      <4>4. CASE ~scenario.recovery
        BY <1>1, <1>2, <1>4, <2>1, <3>1, <3>3, <3>7, <4>2, <4>4, ServedKept
           DEF descVars, Dropping
      <4>. QED  BY <4>3, <4>4
    <3>. QED  BY <3>4, <3>5, <3>6, <3>7
  <2>. QED  BY <1>1, <1>2, <2>1, LiveKept DEF descVars
<1>10. GoneInv'
  <2>1. ASSUME DeployableByAgent, AgentGoneInv PROVE AgentGoneInv'
    <3>1. work.desc.phase # "deleting" /\ Exists(work.desc)
      BY <1>2, <2>1 DEF Offloads, IInv, JobInv
    <3>2. work.desc.phase = "live"
      BY <1>2, <3>1, WorkFacts, DescFacts DEF Exists, IInv
    <3>. QED  BY <1>1, <1>2, <1>5, <2>1, <3>2, ModeKept DEF AgentGoneInv, descVars
  <2>2. ASSUME ~DeployableByAgent, HubGoneInv PROVE HubGoneInv'
    BY <1>2, <2>2, HubGoneKept DEF WantedWrites, Left, ApplyResource, descVars
  <2>. QED  BY <1>1, <2>1, <2>2, GoneKept
<1>11. PruneInv'
  BY <1>2, PruneKept DEF descVars
<1>. QED  BY <1>1, <1>7, <1>8, <1>9, <1>10, <1>11, ModeKept DEF IInv

LEMMA WorkEndsStep ==
  ASSUME IInv, WorkEnds
  PROVE  IInv'
<1>1. TypeInv' /\ SameMode
  BY WorkType, QuietFacts DEF IInv, Work, WorkEnds
<1>2. /\ work # None /\ work.todo = {} /\ ~work.blocked /\ work' = None
      /\ queued \/ work.failed => queued'
      /\ UNCHANGED <<child, hubTodo, update, pruning, started, rsQueue, rsWork, unseen, revived,
                     scenario>>
  BY DEF WorkEnds, Finished, hubVars, history
<1>3. /\ DescWritten /\ desc'.raw = desc.raw
      /\ \/ desc'.phase = desc.phase
         \/ /\ desc'.phase = "gone" /\ DeployableByAgent /\ ~work.failed
            /\ work.desc.phase = "deleting"
  <2>1. CASE UNCHANGED descVars
    BY <2>1, DescKept DEF IInv, descVars
  <2>2. CASE ~UNCHANGED descVars /\ Offloads
    <3>1. WriteDesc([desc EXCEPT !.phase = "gone"]) /\ ~work.failed
      BY <2>2 DEF WorkEnds
    <3>. QED  BY <2>2, <3>1, PhaseFacts, DescReported DEF IInv, Offloads
  <2>3. CASE ~UNCHANGED descVars /\ ~Offloads
    <3>1. WriteDesc(Reported(work))
      BY <2>3 DEF WorkEnds
    <3>. QED  BY <3>1, ReportedFacts, DescReported DEF IInv
  <2>. QED  BY <2>1, <2>2, <2>3
<1>4. VersionInv'
  BY <1>1, <1>2, <1>3, VersionKept DEF JobsFromLister
<1>5. JobInv'
  BY <1>1, <1>2, ModeKept DEF IInv, JobInv
<1>6. LiveInv'
  <2>1. ASSUME desc.phase = "live", NEW r \in In(desc.raw), Served(r),
               scenario.recovery => Starting(r)
        PROVE  Served(r)' /\ (scenario.recovery => Starting(r)')
    <3>1. descCache' = descCache
      BY <1>3 DEF DescWritten
    <3>2. Starting(r) => Starting(r)'
      BY <1>1, <1>2, <1>3, <3>1, ModeKept DEF Starting
    <3>3. Deploying(r) => Deploying(r)'
      BY <1>2, <1>3, <3>1 DEF Deploying
    <3>4. Recovering(r) => Recovering(r)'
      BY <1>1, <1>2, <1>3, RecoveringKept DEF DescWritten
    <3>5. Served(r)'
      BY <1>1, <1>2, <1>3, <2>1, <3>3, <3>4, ServedKept DEF Dropping
    <3>. QED  BY <2>1, <3>2, <3>5
  <2>2. desc'.phase = "live" => desc.phase = "live"
    BY <1>3
  <2>. QED  BY <1>1, <1>3, <2>1, <2>2, LiveKept
<1>7. GoneInv'
  <2>1. ASSUME DeployableByAgent, AgentGoneInv PROVE AgentGoneInv'
    <3>1. CASE desc'.phase = desc.phase
      BY <1>2, <1>3, <2>1, <3>1 DEF AgentGoneInv, Left, DescWritten
    <3>2. CASE /\ desc'.phase = "gone" /\ ~work.failed /\ work.desc.phase = "deleting"
      <4>1. \A r \in In(desc'.raw) : ~Left(r)'
        BY <1>2, <1>3, <2>1, <3>2 DEF AgentGoneInv, Left
      <4>2. descCache'.phase # "live" /\ desc.phase # "live"
        BY <1>2, <1>3, <3>2, LiveFacts DEF IInv, JobInv, DescWritten
      <4>. QED  BY <1>2, <4>1, <4>2 DEF AgentGoneInv
    <3>. QED  BY <1>3, <3>1, <3>2
  <2>2. ASSUME ~DeployableByAgent, HubGoneInv PROVE HubGoneInv'
    BY <1>2, <1>3, <2>2, HubGoneKept DEF WantedWrites, Left
  <2>. QED  BY <1>1, <2>1, <2>2, GoneKept
<1>8. PruneInv'
  <2>1. desc.phase # "live" => desc'.phase # "live"
    BY <1>3
  <2>. QED  BY <1>2, <1>3, <2>1, PruneKept
<1>. QED  BY <1>1, <1>4, <1>5, <1>6, <1>7, <1>8, ModeKept DEF IInv

-----------------------------------------------------------------------------
LEMMA InitServes ==
  (\A s \in Scenario : Orderly(s)) /\ Init => IInv
<1> SUFFICES ASSUME \A s \in Scenario : Orderly(s), Init PROVE IInv
  OBVIOUS
<1>1. TypeInv /\ Orderly(scenario)
  BY InitType DEF Init
<1>2. desc.phase = "live" /\ \A r \in Res : desc.raw[r] = 1
  BY DEF Init, First
<1>3. VersionInv
  BY <1>1, BehindRefl DEF Init, VersionInv, TypeInv, TypeOK
<1>4. JobInv
  BY <1>1, ModeFacts DEF Init, JobInv
<1>5. LiveInv
  <2>1. ASSUME NEW r \in Res PROVE Served(r) /\ Starting(r)
    <3>1. Starting(r)
      BY DEF Init, Starting
    <3>2. CASE DeployableByAgent
      BY <3>1, <3>2 DEF Init, Served, Deploying
    <3>3. CASE ~DeployableByAgent
      BY <1>1, <1>2, <3>1, <3>3, ModeFacts DEF Init, Served, First
    <3>. QED  BY <3>2, <3>3
  <2>. QED  BY <2>1 DEF LiveInv, In
<1>6. GoneInv
  BY <1>2 DEF Init, GoneInv, AgentGoneInv, HubGoneInv, Removing, Dropping
<1>7. PruneInv
  BY DEF Init, PruneInv
<1>. QED  BY <1>1, <1>3, <1>4, <1>5, <1>6, <1>7 DEF IInv

LEMMA NextServes ==
  ASSUME IInv, [Next]_vars
  PROVE  IInv'
<1>1. CASE Environment
  BY <1>1, EditStep, ShrinkStep, DeleteStep, DriftStep, RequestFailsStep, RestartStep
     DEF Environment
<1>2. CASE Hub
  BY <1>2, HubEndsStep, HubUpdatesStep, HubSyncsStep, HubPrunesStep DEF Hub
<1>3. CASE Work
  BY <1>3, GetDescriptionStep, WorkEndsStep, OffloadStep, ApplyStep DEF Work
<1>4. ASSUME NEW c \in Res, Recovery(c) PROVE IInv'
  BY <1>4, GetResourceStep, RecoverEndsStep, RecoverResourceStep DEF Recovery
<1>5. CASE UNCHANGED vars
  <2>1. TypeInv' /\ SameMode
    BY <1>5, NextType, QuietFacts DEF IInv, vars
  <2>2. UNCHANGED <<desc, descCache, descWatch, child, hubTodo, update, pruning, queued, work,
                    started, rsQueue, rsWork, unseen, revived, scenario>>
    BY <1>5 DEF vars, descVars, hubVars, agentVars, history
  <2>3. VersionInv' /\ JobInv'
    BY <2>2 DEF IInv, VersionInv, JobInv, DeployableByAgent
  <2>4. LiveInv'
    BY <2>2 DEF IInv, LiveInv, Served, Starting, Deploying, Recovering, PendAt,
                Dropping, DeployableByAgent
  <2>5. GoneInv' /\ PruneInv'
    BY <2>2 DEF IInv, GoneInv, AgentGoneInv, HubGoneInv, PruneInv, Left, Removing, Dropping,
                DeployableByAgent
  <2>. QED  BY <2>1, <2>3, <2>4, <2>5, ModeKept DEF IInv
<1>. QED  BY <1>1, <1>2, <1>3, <1>4, <1>5, SyncDescStep DEF Next

LEMMA InvariantServes ==
  ASSUME IInv
  PROVE  DescriptionServed
<1> SUFFICES ASSUME Idle, ~(queued /\ DeployableByAgent), NEW r \in Res
             PROVE  LET wanted == IF desc.phase = "live" THEN desc.raw[r] ELSE 0 IN
                    \/ child[r] = wanted
                    \/ /\ wanted # 0
                       /\ r \in unseen \/ (child[r] = Drifted /\ ~scenario.recovery)
                    \/ /\ wanted = 0
                       /\ r \in revived \/ (DeployableByAgent /\ desc.raw[r] = 0)
  BY DEF DescriptionServed
<1>1. /\ work = None => ~queued
      /\ work # None => work.blocked /\ work.todo = {}
      /\ rsQueue = {} /\ hubTodo = {} /\ update = None /\ pruning = {} /\ descCache = desc
      /\ \A c \in Res : rsWork[c] = None
      /\ desc.phase # "deleting"
  BY DEF Idle, IInv, VersionInv
<1>2. desc.phase = "live" \/ desc.phase = "gone"
  BY <1>1, DescFacts DEF IInv, TypeInv, TypeOK
<1>3. CASE desc.phase = "live" /\ desc.raw[r] # 0
  <2>1. Served(r) /\ (scenario.recovery => Starting(r))
    BY <1>3 DEF IInv, LiveInv, In
  <2>2. ~Recovering(r)
    BY <1>1 DEF Recovering, PendAt, IInv, TypeInv, TypeOK
  <2>3. ~(DeployableByAgent /\ Deploying(r))
    BY <1>1 DEF Deploying
  <2>4. ~DeployableByAgent /\ scenario.recovery => r \in started
    BY <1>1, <2>1 DEF Starting, IInv, JobInv
  <2>5. ~Dropping(r)
    BY <1>1 DEF Dropping
  <2>. QED  BY <1>1, <1>3, <2>1, <2>2, <2>3, <2>4, <2>5 DEF Served
<1>4. CASE desc.phase = "gone" \/ desc.raw[r] = 0
  <2>1. CASE DeployableByAgent /\ desc.raw[r] # 0
    <3>1. ~Left(r)
      BY <1>4, <2>1 DEF IInv, GoneInv, AgentGoneInv, In
    <3>. QED  BY <1>4, <2>1, <3>1 DEF Left
  <2>2. CASE DeployableByAgent /\ desc.raw[r] = 0
    BY <2>2
  <2>3. CASE ~DeployableByAgent
    <3>1. Removing(r)
      BY <1>4 DEF Removing
    <3>2. ~Left(r)
      BY <1>1, <2>3, <3>1 DEF IInv, GoneInv, HubGoneInv
    <3>. QED  BY <1>4, <3>2 DEF Left
  <2>. QED  BY <2>1, <2>2, <2>3
<1>. QED  BY <1>2, <1>3, <1>4

(* What the child cluster has of every resource ends up as the Description *)
(* says, for any number of resources and events and whoever deploys it.    *)
(* What a live Description has is deployed: every write of hub and agent   *)
(* that overtakes another, every drift and every failed request leaves a   *)
(* job behind that repairs it, or an update that is refused for its        *)
(* version and tried again (handleDescription, handleResource,             *)
(* ApplyDescription).  What it dropped and what it had when it went is     *)
(* removed by a goroutine of the hub, or before the finalizer goes         *)
(* (PruneFeedsInDescription, OffloadDescription), unless Recovery or a     *)
(* worker of the hub deployed it again meanwhile, or the agent deploys and *)
(* nobody prunes; these and the other exceptions are those that            *)
(* DescriptionServed names.  The scenarios have to be orderly.             *)
THEOREM ChildClusterServed ==
  (\A s \in Scenario : Orderly(s)) => (Spec => []DescriptionServed)
<1>1. (\A s \in Scenario : Orderly(s)) /\ Init => IInv
  BY InitServes
<1>2. IInv /\ [Next]_vars => IInv'
  BY NextServes
<1>3. IInv => DescriptionServed
  BY InvariantServes
<1>. QED  BY <1>1, <1>2, <1>3, PTL DEF Spec

=============================================================================
