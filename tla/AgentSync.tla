----------------------------- MODULE AgentSync -----------------------------
(***************************************************************************)
(* clusternet-agent, generic deployer and Recovery: the description        *)
(* controller of the agent, which deploys a Description itself or, where   *)
(* the hub does, only starts watching its resources; and the resource      *)
(* controllers, which bring back what is changed inside the child cluster. *)
(*                                                                         *)
(* One generic Description with the resources Res; the hub, where it is    *)
(* the one to deploy, is reduced to its writes (they are in DescSync).     *)
(* desc is the Description in the parent cluster, descCache and descWatch  *)
(* are the lister of the agent and the versions on their way to it.  A     *)
(* resource controller is named by the resource whose callback started it, *)
(* and watches every resource of that kind; its queue only ever holds the  *)
(* key of the Description.  Contents of a resource are numbered as users   *)
(* write them in the parent cluster; 0 says that it does not exist.        *)
(***************************************************************************)
EXTENDS Integers, Sequences

CONSTANTS
  Res,        \* resources of the Description
  KindOf,     \* the kind (group and version included) of each of them
  Drifted,    \* contents that someone in the child cluster gave a resource
  None,       \* no job, or no update
  Scenario,   \* how behaviours start, and the events they may see
  MaxEvents   \* bound: environment events in a behaviour

EventKind == {"edit", "shrink", "drift", "remove", "delete", "apierr", "restart"}
SyncMode == {"Push", "Pull", "Dual"}

ASSUME ConfigAssumption ==
  /\ MaxEvents \in Nat
  /\ Drifted \notin Nat
  /\ Scenario \subseteq [syncMode: SyncMode, appPusher: BOOLEAN, recovery: BOOLEAN,
                          deployed: BOOLEAN, kinds: SUBSET EventKind, left: 0..MaxEvents]
  \* Validate: an agent in mode Push has the feature gate AppPusher
  /\ \A s \in Scenario : s.syncMode = "Push" => s.appPusher

VARIABLES
  desc,       \* the Description in the parent cluster
  descCache,  \* ... in the lister of the agent
  descWatch,  \* ... on its way there
  child,      \* contents of the resources in the child cluster
  hubTodo,    \* resources that the hub has still to deploy or offload
  update,     \* an update of the hub that drops a resource
  pruning,    \* dropped resources that the hub has still to delete
  queued,     \* the Description is in the queue of the description controller
  work,       \* what the worker of that controller is doing
  started,    \* resource controllers
  rsQueue,    \* those that have the Description in their queue
  rsWork,     \* what the worker of each of them is doing
  unseen,     \* history: resources that were removed when nobody watched
  revived,    \* history: ... that were deployed again while being removed
  scenario    \* the scenario, with the number of events that are left

descVars  == <<desc, descCache, descWatch>>
hubVars   == <<hubTodo, update, pruning>>
agentVars == <<queued, work, started, rsWork>>
history   == <<unseen, revived>>
vars == <<descVars, child, hubVars, agentVars, rsQueue, history, scenario>>

Content == 0 .. MaxEvents + 1
Raw == [Res -> Content]
Description == [phase: {"live", "deleting", "gone"}, rv: Nat, raw: Raw,
                status: {"none", "ok", "failed"}]
Job == [desc: Description, todo: SUBSET Res, failed: BOOLEAN, blocked: BOOLEAN]
Update == [res: Res, rv: Nat]

ASSUME NoneAssumption == None \notin Job /\ None \notin Update

TypeOK ==
  /\ desc \in Description /\ descCache \in Description /\ descWatch \in Seq(Description)
  /\ child \in [Res -> Content \cup {Drifted}]
  /\ hubTodo \subseteq Res /\ update \in Update \cup {None} /\ pruning \subseteq Res
  /\ started \subseteq Res /\ rsQueue \subseteq started
  /\ queued \in BOOLEAN
  /\ work \in Job \cup {None}
  /\ rsWork \in [Res -> Job \cup {None}]
  /\ \A c \in Res : rsWork[c] # None => c \in started /\ ~rsWork[c].blocked
  /\ unseen \subseteq Res /\ revived \subseteq Res
  /\ scenario.left \in 0..MaxEvents

DeployableByAgent ==
  scenario.syncMode = "Pull" \/ (scenario.syncMode = "Dual" /\ ~scenario.appPusher)
DeployableByHub == scenario.syncMode # "Pull" /\ scenario.appPusher

Nothing == [r \in Res |-> 0]
First == [r \in Res |-> 1]
In(raw) == {r \in Res : raw[r] # 0}
Exists(d) == d.phase # "gone"

(* the agent starts: an Add event for the Description, no controllers yet *)
Init ==
  /\ scenario \in Scenario
  /\ desc = [phase |-> "live", rv |-> 1, raw |-> First,
             status |-> IF scenario.deployed THEN "ok" ELSE "none"]
  /\ descCache = desc /\ descWatch = <<>>
  /\ child = IF scenario.deployed THEN First ELSE Nothing
  /\ hubTodo = IF scenario.deployed \/ ~DeployableByHub THEN {} ELSE Res
  /\ update = None /\ pruning = {}
  /\ queued = TRUE /\ work = None
  /\ started = {} /\ rsQueue = {} /\ rsWork = [c \in Res |-> None]
  /\ unseen = {} /\ revived = {}

Event(kind) ==
  /\ kind \in scenario.kinds /\ scenario.left > 0
  /\ scenario' = [scenario EXCEPT !.left = @ - 1]

(* every effective write gives the Description a new version *)
WriteDesc(d) ==
  /\ desc' = IF d = desc THEN desc ELSE [d EXCEPT !.rv = @ + 1]
  /\ descWatch' = IF d = desc THEN descWatch ELSE Append(descWatch, desc')
  /\ UNCHANGED descCache

(* the parent cluster has begun to remove resource r *)
Dropping(r) == update # None /\ update.res = r
Removing(r) == desc.phase # "live" \/ desc.raw[r] = 0 \/ Dropping(r)

-----------------------------------------------------------------------------
(* The child cluster and the informers of the resource controllers.        *)

Watchers(r) == {c \in started : KindOf[c] = KindOf[r]}

(* mutant: the handlers react to every answer, changed or not *)
WokenAlways(r, value) == Watchers(r)

(* AddFunc, UpdateFunc and DeleteFunc: each enqueues the Description that  *)
(* the label of the resource names; a write without effect is no event     *)
Woken(r, value) == IF child[r] = value THEN {} ELSE Watchers(r)

(* Create, Update or Delete; a resource that exists is always updated,     *)
(* since ResourceNeedResync sees its resource version as a difference      *)
WriteChild(r, value) ==
  /\ child' = [child EXCEPT ![r] = value]
  /\ rsQueue' = rsQueue \cup Woken(r, value)
  /\ unseen' = unseen \ {r}
  /\ revived' = IF value # 0 /\ Removing(r) THEN revived \cup {r} ELSE revived \ {r}

(* someone in the child cluster edits or removes a resource *)
Drift(r, value) ==
  /\ child[r] \notin {0, value}
  /\ Event(IF value = 0 THEN "remove" ELSE "drift")
  /\ child' = [child EXCEPT ![r] = value]
  /\ rsQueue' = rsQueue \cup Woken(r, value)
  /\ unseen' = IF value = 0 /\ Watchers(r) = {} THEN unseen \cup {r} ELSE unseen
  /\ revived' = IF value = 0 THEN revived \ {r} ELSE revived
  /\ UNCHANGED <<descVars, hubVars, agentVars>>

-----------------------------------------------------------------------------
(* The hub.                                                                *)

(* ... writes the Description and, if it deploys, has it in its queue *)
HubWrites(d) ==
  /\ WriteDesc(d)
  /\ hubTodo' = IF DeployableByHub THEN In(d.raw) ELSE {}
  /\ UNCHANGED <<child, pruning, agentVars, rsQueue, history>>

EditDesc(r) ==
  /\ desc.phase = "live" /\ desc.raw[r] # 0
  /\ Event("edit")
  /\ HubWrites([desc EXCEPT !.raw[r] = @ + 1])
  /\ UNCHANGED update

DeleteDesc ==
  /\ desc.phase = "live"
  /\ Event("delete")
  /\ HubWrites([desc EXCEPT !.phase = "deleting"])
  /\ UNCHANGED update

(* syncDescriptions of a Base that has one feed less: the goroutine that   *)
(* prunes it starts first, and gets nowhere without the credentials of the *)
(* child cluster; the Update follows, with the version that was read.      *)
StartsUpdate(r) ==
  /\ update' = [res |-> r, rv |-> desc.rv]
  /\ pruning' = IF DeployableByHub THEN pruning \cup {r} ELSE pruning

ShrinkDesc(r) ==
  /\ update = None /\ desc.phase = "live" /\ desc.raw[r] # 0
  /\ Event("shrink")
  /\ StartsUpdate(r)
  /\ UNCHANGED <<descVars, child, hubTodo, agentVars, rsQueue, history>>

(* A refused Update is tried again from the start; the Description that is *)
(* deleting by then is left alone.                                         *)
HubUpdates ==
  /\ update # None
  /\ \/ /\ desc.phase = "live" /\ desc.rv = update.rv
        /\ HubWrites([desc EXCEPT !.raw[update.res] = 0])
        /\ update' = None
     \/ /\ desc.phase = "live" /\ desc.rv # update.rv
        /\ StartsUpdate(update.res)
        /\ UNCHANGED <<descVars, child, hubTodo, agentVars, rsQueue, history>>
     \/ /\ desc.phase # "live"
        /\ update' = None
        /\ UNCHANGED <<descVars, child, hubTodo, pruning, agentVars, rsQueue, history>>
  /\ UNCHANGED scenario

(* PruneFeedsInDescription *)
HubPrunes(r) ==
  /\ r \in pruning
  /\ pruning' = pruning \ {r}
  /\ WriteChild(r, 0)
  /\ UNCHANGED <<descVars, hubTodo, update, agentVars, scenario>>

(* handleDescription of the hub *)
HubSyncs(r) ==
  /\ r \in hubTodo
  /\ hubTodo' = hubTodo \ {r}
  /\ WriteChild(r, IF desc.phase = "live" THEN desc.raw[r] ELSE 0)
  /\ UNCHANGED <<descVars, update, pruning, agentVars, scenario>>

HubEnds ==
  /\ DeployableByHub /\ hubTodo = {}
  /\ \/ desc.phase = "live" /\ desc.status # "ok" /\ WriteDesc([desc EXCEPT !.status = "ok"])
     \/ desc.phase = "deleting" /\ WriteDesc([desc EXCEPT !.phase = "gone"])
  /\ UNCHANGED <<child, hubVars, agentVars, rsQueue, history, scenario>>

-----------------------------------------------------------------------------
(* The description controller of the agent.                                *)

(* addDescription, updateDescription and deleteDescription *)
DescEventEnqueues(old, new) == new.phase # "live" \/ old.raw # new.raw

SyncDesc ==
  /\ descWatch # <<>>
  /\ descCache' = Head(descWatch) /\ descWatch' = Tail(descWatch)
  /\ queued' = (queued \/ DescEventEnqueues(descCache, Head(descWatch)))
  /\ UNCHANGED <<desc, child, hubVars, work, started, rsQueue, rsWork, history, scenario>>

NewJob == [desc |-> descCache, todo |-> In(descCache.raw), failed |-> FALSE, blocked |-> FALSE]

(* handleDescription *)
GetDescription ==
  /\ queued /\ work = None
  /\ queued' = FALSE
  /\ work' = IF Exists(descCache) THEN NewJob ELSE None
  /\ UNCHANGED <<descVars, child, hubVars, started, rsQueue, rsWork, history, scenario>>

Offloads == DeployableByAgent /\ work.desc.phase = "deleting"

(* OffloadDescription *)
OffloadResource(r) ==
  /\ work # None /\ r \in work.todo /\ Offloads
  /\ work' = [work EXCEPT !.todo = @ \ {r}]
  /\ WriteChild(r, 0)
  /\ UNCHANGED <<descVars, hubVars, queued, started, rsWork, scenario>>

(* ResourceCallbackHandler: AddController is behind a Run that only ends   *)
(* with its channel, which nobody closes.  So every callback starts a      *)
(* controller of its own, whose informer lists what exists, and never      *)
(* returns; the worker waits for it.                                       *)
Callback(r, exists) ==
  /\ started' = started \cup {r}
  /\ rsQueue' = rsQueue \cup Woken(r, child'[r]) \cup (IF exists THEN {r} ELSE {})
  /\ work' = [work EXCEPT !.todo = @ \ {r}, !.blocked = TRUE]

(* ApplyDescription for one resource; a dry run where the hub deploys,     *)
(* even if the Description is deleting                                     *)
ApplyResource(r) ==
  /\ work # None /\ r \in work.todo /\ ~Offloads
  /\ child' = IF DeployableByAgent THEN [child EXCEPT ![r] = work.desc.raw[r]] ELSE child
  /\ unseen' = IF DeployableByAgent THEN unseen \ {r} ELSE unseen
  /\ revived' = IF DeployableByAgent THEN revived \ {r} ELSE revived
  /\ IF scenario.recovery
     THEN Callback(r, \E x \in Res : KindOf[x] = KindOf[r] /\ child'[x] # 0)
     ELSE /\ work' = [work EXCEPT !.todo = @ \ {r}]
          /\ rsQueue' = rsQueue \cup Woken(r, child'[r])
          /\ UNCHANGED started
  /\ UNCHANGED <<descVars, hubVars, queued, rsWork, scenario>>

Accepts(d) == Exists(desc) /\ desc.rv = d.rv
Finished(job) == job # None /\ job.todo = {} /\ ~job.blocked
Reported(job) == [desc EXCEPT !.status = IF job.failed THEN "failed" ELSE "ok"]

(* the end of both: the finalizer or the status; nothing after a dry run *)
WorkEnds ==
  LET Writes == DeployableByAgent /\ Accepts(work.desc) /\ (Offloads => ~work.failed) IN
  /\ Finished(work)
  /\ IF Writes
     THEN WriteDesc(IF Offloads THEN [desc EXCEPT !.phase = "gone"] ELSE Reported(work))
     ELSE UNCHANGED descVars
  /\ queued' = (queued \/ work.failed \/ (DeployableByAgent /\ ~Writes))
  /\ work' = None
  /\ UNCHANGED <<child, hubVars, started, rsQueue, rsWork, history, scenario>>

-----------------------------------------------------------------------------
(* The resource controllers.                                               *)

(* handleResource: whatever the lister has, even if it is deleting *)
GetResource(c) ==
  /\ c \in rsQueue /\ rsWork[c] = None
  /\ rsQueue' = rsQueue \ {c}
  /\ rsWork' = [rsWork EXCEPT ![c] = IF Exists(descCache) THEN NewJob ELSE None]
  /\ UNCHANGED <<descVars, child, hubVars, queued, work, started, history, scenario>>

(* mutant: with the callback of the description controller *)
RecoverAndWatch(c, r) ==
  /\ rsWork[c] # None /\ r \in rsWork[c].todo
  /\ rsWork' = [rsWork EXCEPT ![c].todo = @ \ {r}, ![c].blocked = TRUE]
  /\ started' = started \cup {r}
  /\ WriteChild(r, rsWork[c].desc.raw[r])
  /\ UNCHANGED <<descVars, hubVars, queued, work, scenario>>

(* ApplyDescription without callback *)
RecoverResource(c, r) ==
  /\ rsWork[c] # None /\ r \in rsWork[c].todo
  /\ rsWork' = [rsWork EXCEPT ![c].todo = @ \ {r}]
  /\ WriteChild(r, rsWork[c].desc.raw[r])
  /\ UNCHANGED <<descVars, hubVars, queued, work, started, scenario>>

(* mutant: errors are reported, and the key is not added again *)
RecoverOnce(c) ==
  /\ Finished(rsWork[c])
  /\ IF Accepts(rsWork[c].desc) THEN WriteDesc(Reported(rsWork[c])) ELSE UNCHANGED descVars
  /\ rsWork' = [rsWork EXCEPT ![c] = None]
  /\ UNCHANGED <<child, hubVars, queued, work, started, rsQueue, history, scenario>>

RecoverEnds(c) ==
  LET Retry == rsWork[c].failed \/ ~Accepts(rsWork[c].desc) IN
  /\ Finished(rsWork[c])
  /\ IF Accepts(rsWork[c].desc) THEN WriteDesc(Reported(rsWork[c])) ELSE UNCHANGED descVars
  /\ rsQueue' = IF Retry THEN rsQueue \cup {c} ELSE rsQueue
  /\ rsWork' = [rsWork EXCEPT ![c] = None]
  /\ UNCHANGED <<child, hubVars, queued, work, started, history, scenario>>

(* the retries of a request to the child cluster are used up *)
RequestFails ==
  /\ Event("apierr")
  /\ \/ /\ work # None /\ DeployableByAgent
        /\ \E r \in work.todo : work' = [work EXCEPT !.todo = @ \ {r}, !.failed = TRUE]
        /\ UNCHANGED rsWork
     \/ /\ \E c \in started : /\ rsWork[c] # None
                              /\ \E r \in rsWork[c].todo :
                                   rsWork' = [rsWork EXCEPT ![c].todo = @ \ {r}, ![c].failed = TRUE]
        /\ UNCHANGED work
  /\ UNCHANGED <<descVars, child, hubVars, queued, started, rsQueue, history>>

(* another agent takes over; removals that were not handled go unseen *)
Restart ==
  /\ Event("restart")
  /\ descCache' = desc /\ descWatch' = <<>>
  /\ queued' = Exists(desc) /\ work' = None
  /\ started' = {} /\ rsQueue' = {} /\ rsWork' = [c \in Res |-> None]
  /\ unseen' = unseen \cup {r \in Res : child[r] = 0}
  /\ UNCHANGED <<desc, child, hubVars, revived>>

-----------------------------------------------------------------------------
Environment ==
  \/ \E r \in Res : EditDesc(r) \/ ShrinkDesc(r) \/ \E v \in {0, Drifted} : Drift(r, v)
  \/ DeleteDesc \/ RequestFails \/ Restart

Hub == HubEnds \/ HubUpdates \/ \E r \in Res : HubSyncs(r) \/ HubPrunes(r)

Work ==
  GetDescription \/ WorkEnds \/ \E r \in Res : OffloadResource(r) \/ ApplyResource(r)

Recovery(c) == GetResource(c) \/ RecoverEnds(c) \/ \E r \in Res : RecoverResource(c, r)

Next == Environment \/ Hub \/ SyncDesc \/ Work \/ \E c \in Res : Recovery(c)

Spec == Init /\ [][Next]_vars

(* Hub, informers and workers keep running; users and faults owe nothing. *)
Fairness ==
  /\ WF_vars(Hub) /\ WF_vars(SyncDesc) /\ WF_vars(Work)
  /\ \A c \in Res : WF_vars(Recovery(c))

FairSpec == Spec /\ Fairness

-----------------------------------------------------------------------------
(* Properties.                                                             *)

(* Nobody has anything left to do, or can: a worker that waits for its     *)
(* callbacks waits for ever, and with it whatever is queued.               *)
Idle ==
  /\ IF work = None THEN ~queued ELSE work.blocked /\ work.todo = {}
  /\ rsQueue = {} /\ \A c \in Res : rsWork[c] = None
  /\ hubTodo = {} /\ update = None /\ pruning = {}
  /\ descWatch = <<>> /\ desc.phase # "deleting"

(* What the child cluster has of every resource ends up as the Description *)
(* says, whoever deploys it: hub and agent write the same resources, the   *)
(* agent from a lister that may be behind, and the hub prunes a resource   *)
(* before it updates the Description.  What a live Description has is      *)
(* deployed, whichever write came last; only a removal that happened while *)
(* nobody watched stays, and without Recovery what was changed in the      *)
(* child cluster.  What it has dropped, and all of a Description that is   *)
(* gone, is removed, with two exceptions.  Only the hub prunes, so where   *)
(* the agent deploys, what was dropped stays.  And a resource stays that   *)
(* was deployed again while it was being removed (revived): the deletion   *)
(* wakes Recovery, which applies the version in its lister, although it    *)
(* should not roll back what is "made explicitly from parent cluster"      *)
(* (features.go).  Left out is an agent that deploys by itself and has its *)
(* worker blocked, with the Description queued behind it.                  *)
DescriptionServed ==
  Idle /\ ~(queued /\ DeployableByAgent) =>
    \A r \in Res :
      LET wanted == IF desc.phase = "live" THEN desc.raw[r] ELSE 0 IN
      \/ child[r] = wanted
      \/ wanted # 0 /\ (r \in unseen \/ (child[r] = Drifted /\ ~scenario.recovery))
      \/ wanted = 0 /\ (r \in revived \/ (DeployableByAgent /\ desc.raw[r] = 0))

(* What DescriptionServed needs of the environment of an agent that        *)
(* deploys by itself: a resource whose first request failed is only        *)
(* watched by the controller of another resource of its kind.              *)
Orderly(s) ==
  s.recovery /\ (s.syncMode = "Pull" \/ ~s.appPusher) =>
    ~({"apierr", "drift"} \subseteq s.kinds) \/ \A r, q \in Res : KindOf[r] = KindOf[q]

(* Recovery comes to rest: hub and agent do not undo each other's writes   *)
(* for ever, and the resource controllers do not wake themselves.          *)
RecoveryRests == <>[](rsQueue = {} /\ \A c \in Res : rsWork[c] = None)

=============================================================================
