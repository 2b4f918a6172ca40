------------------------------ MODULE FeedSync ------------------------------
(***************************************************************************)
(* clusternet-hub, what becomes of a feed: the globalization and the       *)
(* localization controller with the localizer, which applies their         *)
(* overrides to the Description of a Base, and the manifest and the        *)
(* helmchart controller with handleManifest and handleHelmChart, which     *)
(* protect a feed that is still subscribed or take it off the              *)
(* Subscriptions.  ApplyNow overrides run the handlers of the feed as a    *)
(* callback, concurrently with the worker of the feed.                     *)
(*                                                                         *)
(* One feed, a Manifest or a HelmChart, labelled with a Base and with the  *)
(* Subscriptions Sub, and the Description of that Base (how it comes about *)
(* is in BaseSync and DescSync).  api, cache and watch hold, for every     *)
(* object, the version in the API server, the version in the informer      *)
(* cache and the versions on their way to it.  Templates and override      *)
(* values are numbered in the order in which users wrote them.             *)
(***************************************************************************)
EXTENDS Integers, Sequences, SequencesExt

CONSTANTS
  Feed,         \* the feed: its key, and its entry in a Subscription ...
  Other,        \* ... another entry
  Desc,         \* the Description
  Sub,          \* Subscriptions that the feed is labelled with
  Glob, Loc,    \* Globalizations and Localizations of the feed
  Priority,     \* the priority of each of them
  None,         \* no job
  Scenario,     \* how behaviours start, and the events they may see
  MaxEvents     \* bound: environment events in a behaviour

(* a Globalization and a Localization are objects of different kinds, and  *)
(* so are all the others                                                   *)
ASSUME ObjectAssumption ==
  /\ IsFiniteSet(Glob) /\ IsFiniteSet(Loc) /\ Glob \cap Loc = {}
  /\ Feed \notin Glob \cup Loc \cup Sub \cup {Desc, Other}
  /\ Desc \notin Glob \cup Loc \cup Sub
  /\ Sub \cap (Glob \cup Loc) = {}

Override == Glob \cup Loc
Key == Override \cup {Feed}
Object == Key \cup Sub \cup {Desc}

EventKind == {"template", "create", "value", "break", "delete", "delfeed",
              "list", "delsub", "norepo", "apierr", "restart"}

(* ties between priorities are broken by the order in which a lister       *)
(* happens to return the objects, and are left out                         *)
ASSUME ConfigAssumption ==
  /\ MaxEvents \in Nat
  /\ Scenario \subseteq [kind: {"Manifest", "HelmChart"}, gate: BOOLEAN,
                          adopted: BOOLEAN, overrides: SUBSET Override,
                          ready: SUBSET Override, later: SUBSET Override, kinds: SUBSET EventKind,
                          left: 0..MaxEvents]
  /\ Priority \in [Override -> Nat]
  /\ \A a, b \in Override : Priority[a] = Priority[b] /\ a # b =>
       (a \in Glob) # (b \in Glob)

VARIABLES
  api,        \* the version of each object in the API server
  cache,      \* the informer caches
  watch,      \* versions on their way to the caches
  queue,      \* keys in the work queues
  job,        \* what the worker of each key is doing
  outdated,   \* the last resync did not leave what the caches say
  kept,       \* Subscriptions known to list the feed ever since its deletion
  shifted,    \* a list has been patched at an index of another version
  scenario    \* the scenario, with the number of events that are left

apiVars  == <<api, watch>>
workVars == <<queue, job>>
histVars == <<outdated, kept, shifted>>
vars == <<apiVars, cache, workVars, histVars, scenario>>

Rev == 1 .. MaxEvents + 1
List == {<<>>, <<Feed>>, <<Other>>, <<Feed, Other>>, <<Other, Feed>>}
Phase == {"absent", "live", "deleting", "gone", "escaped"}

FeedRecord == [phase: Phase, rv: Nat, rev: Rev, fin: BOOLEAN, prot: BOOLEAN,
               status: {"unset", "Found", "NotFound"}, note: SUBSET Sub]
OverrideRecord == [phase: Phase, rv: Nat, rev: Rev, fin: BOOLEAN, lab: BOOLEAN, valid: BOOLEAN]
SubRecord == [phase: {"live", "deleting"}, rv: Nat, list: List]
Value == [rev: Rev \cup {0}, ovs: Seq([ov: Override, rev: Rev])]
DescRecord == [rv: Nat, value: Value]
Step == {"adopt", "inject", "label", "apply", "status", "restatus", "compute",
         "sync", "protect", "unlist", "unfeed", "release"}
JobRecord == [pc: Step, obj: FeedRecord \cup OverrideRecord, target: FeedRecord,
              origin: {"lister", "answer"}, want: Value, todo: SUBSET [sub: Sub, list: List],
              failed: BOOLEAN]

ASSUME NoneAssumption == None \notin JobRecord

OfKind(k) == IF k = Feed THEN FeedRecord ELSE IF k \in Override THEN OverrideRecord
             ELSE IF k \in Sub THEN SubRecord ELSE DescRecord

TypeOK ==
  /\ \A k \in Object : /\ api[k] \in OfKind(k) /\ cache[k] \in OfKind(k)
                       /\ \A i \in DOMAIN watch[k] : watch[k][i] \in OfKind(k)
  /\ queue \subseteq Key
  /\ \A k \in Key : job[k] # None =>
       /\ job[k].pc \in Step /\ job[k].target \in FeedRecord
       /\ job[k].obj \in OfKind(k)
       /\ job[k].todo \subseteq [sub: Sub, list: List]
  /\ outdated \in BOOLEAN /\ shifted \in BOOLEAN /\ kept \subseteq Sub
  /\ scenario.left \in 0..MaxEvents

IsChart == scenario.kind = "HelmChart"
ApplyNow(o) == o \notin scenario.later

NewFeed == [phase |-> "live", rv |-> 1, rev |-> 1, fin |-> scenario.adopted,
            prot |-> scenario.adopted /\ scenario.gate, note |-> {},
            status |-> IF IsChart /\ scenario.adopted THEN "Found" ELSE "unset"]
NoOverride == [phase |-> "absent", rv |-> 0, rev |-> 1, fin |-> FALSE, lab |-> FALSE, valid |-> TRUE]
OldOverride == [NoOverride EXCEPT !.phase = "live", !.rv = 1, !.fin = TRUE, !.lab = TRUE]

(* a Description refers to a chart by its name only *)
Plain(f) == [rev |-> IF IsChart THEN 0 ELSE f.rev, ovs |-> <<>>]

(* Globalizations come first, each kind by its priority *)
Precedes(a, b) == \/ a \in Glob /\ b \in Loc
                  \/ (a \in Glob) = (b \in Glob) /\ Priority[a] < Priority[b]
Sorted(os) == CHOOSE s \in SetToSeqs(os) :
                \A i, j \in DOMAIN s : i < j => Precedes(s[i], s[j])
Applied(os, revs) == LET s == Sorted(os) IN
                     [i \in DOMAIN s |-> [ov |-> s[i], rev |-> revs[s[i]]]]

Init ==
  /\ scenario \in Scenario
  /\ api = [k \in Object |->
       IF k = Feed THEN NewFeed
       ELSE IF k \in scenario.ready THEN OldOverride
       ELSE IF k \in Override THEN NoOverride
       ELSE IF k \in Sub THEN [phase |-> "live", rv |-> 1, list |-> <<Feed, Other>>]
       ELSE [rv |-> 1, value |-> [Plain(NewFeed) EXCEPT !.ovs =
                                    Applied(scenario.ready, [o \in Override |-> 1])]]]
  /\ cache = api
  /\ watch = [k \in Object |-> <<>>]
  /\ queue = {Feed}
  /\ job = [k \in Key |-> None]
  /\ outdated = FALSE /\ kept = {} /\ shifted = FALSE

Event(kind) ==
  /\ kind \in scenario.kinds /\ scenario.left > 0
  /\ scenario' = [scenario EXCEPT !.left = @ - 1]

(* every effective write gives the object a new version, and is watched *)
Write(k, o) ==
  IF o = api[k] THEN UNCHANGED apiVars
  ELSE /\ api' = [api EXCEPT ![k] = [o EXCEPT !.rv = @ + 1]]
       /\ watch' = [watch EXCEPT ![k] = Append(@, api'[k])]

Exists(o) == o.phase \in {"live", "deleting"}
Lists(s) == s.phase = "live" /\ Feed \in ToSet(s.list)

-----------------------------------------------------------------------------
(* Users, the API server and the informers.                                *)

(* what deletion does to an object: the API server keeps it while it has a *)
(* finalizer, and only then does the hub get to clean up                   *)
Deleted(o) == [o EXCEPT !.phase = IF o.fin THEN "deleting" ELSE "escaped"]

(* Update of the shadow API, for a Manifest: its handler takes the version *)
(* of the lister for the one to update, whichever version the user had;    *)
(* the user is told of a conflict if that is not the current one           *)
EditTemplate ==
  /\ Exists(api[Feed])
  /\ IsChart \/ cache[Feed].rv = api[Feed].rv
  /\ Event("template")
  /\ Write(Feed, [api[Feed] EXCEPT !.rev = @ + 1])
  /\ UNCHANGED <<cache, workVars, histVars>>

CreateOverride(o) ==
  /\ api[o].phase = "absent" /\ o \in scenario.overrides
  /\ Event("create")
  /\ Write(o, [api[o] EXCEPT !.phase = "live"])
  /\ UNCHANGED <<cache, workVars, histVars>>

(* an edit may leave a patch that cannot be applied *)
EditOverride(o, valid) ==
  /\ api[o].phase = "live"
  /\ Event(IF valid THEN "value" ELSE "break")
  /\ Write(o, [api[o] EXCEPT !.rev = @ + 1, !.valid = valid])
  /\ UNCHANGED <<cache, workVars, histVars>>

DeleteOverride(o) ==
  /\ api[o].phase = "live"
  /\ Event("delete")
  /\ Write(o, Deleted(api[o]))
  /\ UNCHANGED <<cache, workVars, histVars>>

DeleteFeed ==
  /\ api[Feed].phase = "live"
  /\ Event("delfeed")
  /\ Write(Feed, Deleted(api[Feed]))
  /\ kept' = {s \in Sub : Lists(api[s]) /\ Lists(cache[s])
                          /\ \A i \in DOMAIN watch[s] : Lists(watch[s][i])}
  /\ UNCHANGED <<cache, workVars, outdated, shifted>>

(* users drop the feed, list it again or reorder; the other one they keep *)
EditSub(s, l) ==
  /\ api[s].phase = "live" /\ l # api[s].list /\ Other \in ToSet(l)
  /\ Event("list")
  /\ Write(s, [api[s] EXCEPT !.list = l])
  /\ kept' = IF Feed \in ToSet(l) THEN kept ELSE kept \ {s}
  /\ UNCHANGED <<cache, workVars, outdated, shifted>>

DeleteSub(s) ==
  /\ api[s].phase = "live"
  /\ Event("delsub")
  /\ Write(s, [api[s] EXCEPT !.phase = "deleting"])
  /\ kept' = kept \ {s}
  /\ UNCHANGED <<cache, workVars, outdated, shifted>>

(* handlers of the manifest and the helmchart controller *)
FeedEventEnqueues(old, new) == ~Exists(old) \/ new.phase # "live" \/ old.rev # new.rev

(* mutant: only changes of the spec wake the controller *)
SpecOnly(old, new) == FeedEventEnqueues(old, new)

(* handlers of the globalization and the localization controller *)
OverrideEventEnqueues(old, new) == FeedEventEnqueues(old, new) \/ old.lab # new.lab

(* mutant: Subscriptions that are deleting land in the queue of feeds *)
SubscriptionsToo(k, old, new) ==
  \/ k \in Sub /\ new.phase # "live"
  \/ k = Feed /\ FeedEventEnqueues(old, new)
  \/ k \in Override /\ OverrideEventEnqueues(old, new)

EventEnqueues(k, old, new) ==
  \/ k = Feed /\ FeedEventEnqueues(old, new)
  \/ k \in Override /\ OverrideEventEnqueues(old, new)

Deliver(k) ==
  /\ watch[k] # <<>>
  /\ cache' = [cache EXCEPT ![k] = Head(watch[k])]
  /\ watch' = [watch EXCEPT ![k] = Tail(@)]
  /\ queue' = IF EventEnqueues(k, cache[k], Head(watch[k])) THEN queue \cup {k} ELSE queue
  /\ UNCHANGED <<api, job, histVars, scenario>>

-----------------------------------------------------------------------------
(* Workers: processNextWorkItem and syncHandler of the four controllers.   *)

At(k, pc) == job[k] # None /\ job[k].pc = pc
Requeue(k) == job' = [job EXCEPT ![k] = None] /\ queue' = queue \cup {k}
GoTo(k, j) == job' = [job EXCEPT ![k] = j] /\ UNCHANGED queue

(* the end of the callback: an override that is deleting is released *)
Return(k) == GoTo(k, IF k # Feed /\ job[k].obj.phase = "deleting"
                     THEN [job[k] EXCEPT !.pc = "release"] ELSE None)

FirstStep(k, o) ==
  IF k = Feed
  THEN IF o.phase = "live" /\ (~o.fin \/ (scenario.gate /\ ~o.prot)) THEN "adopt" ELSE "apply"
  ELSE IF o.phase = "deleting" THEN "apply" ELSE IF ~o.fin THEN "inject" ELSE "label"

GetItem(k) ==
  /\ job[k] = None /\ k \in queue
  /\ queue' = queue \ {k}
  /\ job' = [job EXCEPT ![k] =
       IF ~Exists(cache[k]) THEN None
       ELSE [pc |-> FirstStep(k, cache[k]), obj |-> cache[k], target |-> cache[Feed],
             origin |-> "lister", want |-> Plain(cache[Feed]), todo |-> {}, failed |-> FALSE]]
  /\ UNCHANGED <<apiVars, cache, histVars, scenario>>

(* an Update of a version read earlier is refused once the object moved on *)
Accepts(k, o) == Exists(api[k]) /\ api[k].rv = o.rv

(* finalizers are added to a copy of the feed *)
InjectFeedFinalizers ==
  /\ At(Feed, "adopt")
  /\ IF Accepts(Feed, job[Feed].obj)
     THEN /\ Write(Feed, [api[Feed] EXCEPT !.fin = TRUE, !.prot = @ \/ scenario.gate])
          /\ GoTo(Feed, [job[Feed] EXCEPT !.pc = "apply", !.obj = api'[Feed], !.origin = "answer"])
     ELSE Requeue(Feed) /\ UNCHANGED apiVars
  /\ UNCHANGED <<cache, histVars, scenario>>

(* ... and to the very object in the cache of an override *)
MutateOverride(k) ==
  cache' = IF cache[k].rv = job[k].obj.rv /\ Exists(cache[k])
           THEN [cache EXCEPT ![k].fin = TRUE] ELSE cache

InjectFinalizer(k) ==
  /\ At(k, "inject")
  /\ MutateOverride(k)
  /\ IF Accepts(k, job[k].obj)
     THEN /\ Write(k, [api[k] EXCEPT !.fin = TRUE])
          /\ GoTo(k, [job[k] EXCEPT !.pc = "label", !.obj = api'[k], !.origin = "answer"])
     ELSE Requeue(k) /\ UNCHANGED apiVars
  /\ UNCHANGED <<histVars, scenario>>

(* getLabelsForPatching fails if the lister has no such feed; the merge    *)
(* patch has no precondition and returns the current object                *)
PatchLabels(k) ==
  /\ At(k, "label")
  /\ IF Exists(cache[Feed]) /\ (job[k].obj.lab \/ Exists(api[k]))
     THEN IF job[k].obj.lab
          THEN UNCHANGED apiVars /\ GoTo(k, [job[k] EXCEPT !.pc = "apply"])
          ELSE /\ Write(k, [api[k] EXCEPT !.lab = TRUE])
               /\ GoTo(k, [job[k] EXCEPT !.pc = "apply", !.obj = api'[k], !.origin = "answer"])
     ELSE Requeue(k) /\ UNCHANGED apiVars
  /\ UNCHANGED <<cache, histVars, scenario>>

(* handleLocalization and handleGlobalization, up to the handler of the    *)
(* feed that the lister has, which they call back; and that handler        *)
Apply(k) ==
  LET Target == IF k = Feed THEN job[k].obj ELSE cache[Feed]
      Handle == IF Target.phase = "deleting" THEN "protect"
                ELSE IF IsChart THEN "status" ELSE "compute" IN
  /\ At(k, "apply")
  /\ IF k # Feed /\ (~ApplyNow(k) \/ ~Exists(cache[Feed])) THEN Return(k)
     ELSE GoTo(k, [job[k] EXCEPT !.pc = Handle, !.target = Target])
  /\ UNCHANGED <<apiVars, cache, histVars, scenario>>

-----------------------------------------------------------------------------
(* handleManifest and handleHelmChart of a feed that is not deleting.      *)

(* UpdateChartStatus: the result of looking the chart up is put into the   *)
(* object of the lister, before the request is made                        *)
WriteStatus(phase) == Write(Feed, [api[Feed] EXCEPT !.status = phase])
MutateChart(k, phase) ==
  cache' = IF (k # Feed \/ job[k].origin = "lister") /\ cache[Feed].rv = job[k].target.rv
           THEN [cache EXCEPT ![Feed].status = phase] ELSE cache

UpdateChartStatus(k, phase) ==
  /\ At(k, "status")
  /\ IF phase = "NotFound" THEN Event("norepo") ELSE UNCHANGED scenario
  /\ MutateChart(k, phase)
  /\ IF Accepts(Feed, job[k].target)
     THEN WriteStatus(phase) /\ GoTo(k, [job[k] EXCEPT !.pc = "compute"])
     ELSE /\ GoTo(k, [job[k] EXCEPT !.pc = "restatus", !.target.status = phase])
          /\ UNCHANGED apiVars
  /\ UNCHANGED histVars

(* RetryOnConflict, with copies of what the lister has by then *)
RetryChartStatus(k) ==
  /\ At(k, "restatus")
  /\ IF Accepts(Feed, cache[Feed])
     THEN WriteStatus(job[k].target.status) /\ GoTo(k, [job[k] EXCEPT !.pc = "compute"])
     ELSE Requeue(k) /\ UNCHANGED apiVars
  /\ UNCHANGED <<cache, histVars, scenario>>

(* mutant: overrides that are deleting are applied as well *)
EvenDeleting == {o \in Override : Exists(cache[o]) /\ cache[o].lab}

GetOverrides == {o \in Override : cache[o].phase = "live" /\ cache[o].lab}

(* ApplyOverridesToDescription: fails as a whole if one cannot be applied *)
Applicable == \A o \in GetOverrides : cache[o].valid
Rendered == [Plain(cache[Feed]) EXCEPT !.ovs =
               Applied(GetOverrides, [o \in Override |-> cache[o].rev])]

(* resyncBase and populateDescriptions: an error unless the lister has the *)
(* feed, and a chart that was looked up; nothing to do for a chart that    *)
(* was not found                                                           *)
Compute(k) ==
  /\ At(k, "compute")
  /\ IF ~Exists(cache[Feed]) \/ (IsChart /\ cache[Feed].status = "unset") THEN Requeue(k)
     ELSE IF IsChart /\ cache[Feed].status = "NotFound" THEN Return(k)
     ELSE IF ~Applicable THEN Requeue(k)
     ELSE GoTo(k, [job[k] EXCEPT !.pc = "sync", !.want = Rendered])
  /\ outdated' = (outdated \/ (IsChart /\ cache[Feed].status = "NotFound"))
  /\ UNCHANGED <<apiVars, cache, kept, shifted, scenario>>

(* syncDescriptions compares with, and updates, the version in the lister *)
SyncDescription(k) ==
  LET Same == cache[Desc].value = job[k].want IN
  /\ At(k, "sync")
  /\ IF Same THEN Return(k) /\ UNCHANGED apiVars
     ELSE IF api[Desc].rv = cache[Desc].rv
     THEN Write(Desc, [api[Desc] EXCEPT !.value = job[k].want]) /\ Return(k)
     ELSE Requeue(k) /\ UNCHANGED apiVars
  /\ outdated' = IF Same \/ api[Desc].rv = cache[Desc].rv
                 THEN api'[Desc].value # Rendered ELSE outdated
  /\ UNCHANGED <<cache, kept, shifted, scenario>>

-----------------------------------------------------------------------------
(* handleManifest and handleHelmChart of a feed that is deleting.          *)

(* mutant: only the first feed of a Subscription is looked at *)
FirstFeedOnly == {s \in Sub : cache[s].phase = "live" /\ Len(cache[s].list) > 0
                              /\ Head(cache[s].list) = Feed}

FindAllMatchingSubscriptions == {s \in Sub : Lists(cache[s])}

(* protectManifestFeed and protectHelmChartFeed: the annotation names the  *)
(* Subscriptions in the way, and the error has the deletion tried again    *)
ProtectFeed(k) ==
  LET Matching == FindAllMatchingSubscriptions IN
  /\ At(k, "protect")
  /\ IF job[k].target.prot /\ Matching # {}
     THEN /\ IF Exists(api[Feed]) THEN Write(Feed, [api[Feed] EXCEPT !.note = Matching])
             ELSE UNCHANGED apiVars
          /\ Requeue(k)
     ELSE /\ GoTo(k, [job[k] EXCEPT !.pc = "unlist", !.failed = FALSE,
                                    !.todo = {[sub |-> s, list |-> cache[s].list] : s \in Matching}])
          /\ UNCHANGED apiVars
  /\ UNCHANGED <<cache, histVars, scenario>>

Unlisted(k, t, ok) == [job[k] EXCEPT !.todo = @ \ {t}, !.failed = @ \/ ~ok]

FeedIndex(list) == SelectInSeq(list, LAMBDA e : e = Feed)

(* RemoveFeedFromSubscription: a JSON patch without test, of the index in  *)
(* the version that the lister had                                         *)
RemoveFeedFromSubscription(k, t) ==
  LET i == FeedIndex(t.list)
      s == t.sub
      Fits == i <= Len(api[s].list) IN
  /\ At(k, "unlist") /\ t \in job[k].todo
  /\ IF Fits THEN Write(s, [api[s] EXCEPT !.list = RemoveAt(@, i)]) ELSE UNCHANGED apiVars
  /\ kept' = IF Feed \in ToSet(api'[s].list) THEN kept ELSE kept \ {s}
  /\ shifted' = (shifted \/ (Fits /\ api[s].list[i] # Feed))
  /\ GoTo(k, Unlisted(k, t, Fits))
  /\ UNCHANGED <<cache, outdated, scenario>>

(* mutant: errors of single Subscriptions are not collected *)
RemovalForgotten(k) ==
  /\ At(k, "unlist") /\ job[k].todo = {}
  /\ GoTo(k, IF job[k].failed THEN None ELSE [job[k] EXCEPT !.pc = "unfeed"])
  /\ UNCHANGED <<apiVars, cache, histVars, scenario>>

RemovalEnds(k) ==
  /\ At(k, "unlist") /\ job[k].todo = {}
  /\ IF job[k].failed THEN Requeue(k) ELSE GoTo(k, [job[k] EXCEPT !.pc = "unfeed"])
  /\ UNCHANGED <<apiVars, cache, histVars, scenario>>

(* the finalizers of a chart are removed in the object of the lister *)
MutateFinalizers(k) ==
  cache' = IF IsChart /\ cache[Feed].rv = job[k].target.rv
           THEN [cache EXCEPT ![Feed].fin = FALSE, ![Feed].prot = FALSE] ELSE cache

(* the Update that removes both finalizers, and the feed with them; that   *)
(* the feed is gone already is no error                                    *)
RemoveFeedFinalizers(k) ==
  /\ At(k, "unfeed")
  /\ MutateFinalizers(k)
  /\ IF ~Exists(api[Feed]) THEN Return(k) /\ UNCHANGED apiVars
     ELSE IF Accepts(Feed, job[k].target)
     THEN Write(Feed, [api[Feed] EXCEPT !.phase = "gone"]) /\ Return(k)
     ELSE Requeue(k) /\ UNCHANGED apiVars
  /\ UNCHANGED <<histVars, scenario>>

-----------------------------------------------------------------------------
(* the Update that removes the finalizer of an override, and the override; *)
(* it escapes if only the answer to the label patch said that it is        *)
(* deleting: the lister may still have had it live when it was applied     *)
ReleaseOverride(k) ==
  /\ At(k, "release")
  /\ IF Accepts(k, job[k].obj)
     THEN /\ Write(k, [api[k] EXCEPT !.phase = IF job[k].origin = "lister"
                                              THEN "gone" ELSE "escaped"])
          /\ GoTo(k, None)
     ELSE Requeue(k) /\ UNCHANGED apiVars
  /\ UNCHANGED <<cache, histVars, scenario>>

(* a request fails without effect on the API server *)
RequestFails(k) ==
  /\ job[k] # None /\ job[k].pc \notin {"apply", "compute"}
  /\ Event("apierr")
  /\ IF At(k, "inject") THEN MutateOverride(k)
     ELSE IF At(k, "unfeed") THEN MutateFinalizers(k) ELSE UNCHANGED cache
  /\ \/ job[k].pc # "unlist" /\ Requeue(k)
     \/ \E t \in job[k].todo : GoTo(k, Unlisted(k, t, FALSE))
  /\ UNCHANGED <<apiVars, histVars>>

(* another hub takes over: fresh caches, an Add event for every object *)
Restart ==
  /\ Event("restart")
  /\ cache' = api /\ watch' = [k \in Object |-> <<>>]
  /\ queue' = {k \in Key : Exists(api[k])}
  /\ job' = [k \in Key |-> None]
  /\ UNCHANGED <<api, histVars>>

-----------------------------------------------------------------------------
Environment ==
  \/ EditTemplate \/ DeleteFeed \/ Restart
  \/ \E o \in Override : CreateOverride(o) \/ DeleteOverride(o)
  \/ \E o \in Override, valid \in BOOLEAN : EditOverride(o, valid)
  \/ \E s \in Sub : DeleteSub(s) \/ \E l \in List : EditSub(s, l)
  \/ \E k \in Key : RequestFails(k) \/ UpdateChartStatus(k, "NotFound")

Work(k) ==
  \/ GetItem(k)
  \/ InjectFinalizer(k) \/ PatchLabels(k) \/ Apply(k)
  \/ UpdateChartStatus(k, "Found") \/ RetryChartStatus(k)
  \/ Compute(k) \/ SyncDescription(k)
  \/ ProtectFeed(k) \/ RemovalEnds(k) \/ RemoveFeedFinalizers(k)
  \/ \E s \in Sub, l \in List : RemoveFeedFromSubscription(k, [sub |-> s, list |-> l])
  \/ ReleaseOverride(k)
  \/ k = Feed /\ InjectFeedFinalizers

Next ==
  \/ Environment
  \/ \E k \in Object : Deliver(k)
  \/ \E k \in Key : Work(k)

Spec == Init /\ [][Next]_vars

(* Informers and workers keep running; users and faults owe nothing. *)
Fairness ==
  /\ WF_vars(\E k \in Object : Deliver(k))
  /\ \A k \in Key : WF_vars(Work(k))

FairSpec == Spec /\ Fairness

-----------------------------------------------------------------------------
(* Properties.                                                             *)

(* The hub has nothing left to do. *)
Idle ==
  /\ queue = {}
  /\ \A k \in Key : job[k] = None
  /\ \A k \in Object : watch[k] = <<>>

(* The overrides that ought to be applied at once, with their values. *)
Wanted == {[ov |-> o, rev |-> api[o].rev] :
             o \in {p \in Override : ApplyNow(p) /\ api[p].phase = "live"}}

(* No change of a template or of an ApplyNow override is lost on its way   *)
(* to the Description, whichever of the concurrent workers came last:      *)
(* when the hub is idle, the Description has the template and exactly the  *)
(* live overrides, each with its newest value, Localizations after         *)
(* Globalizations and each kind by priority.  Two things that the code     *)
(* does not prevent are excluded: an override that escaped, deleted before *)
(* its finalizer was stored or while its label was patched; and a last     *)
(* resync that wrote, or compared with, what the caches had left behind.   *)
OverridesApplied ==
  Idle /\ api[Feed].phase = "live" /\ ~outdated
  /\ (\A o \in Override : api[o].phase # "escaped") =>
    LET d == api[Desc].value IN
    /\ d.rev = Plain(api[Feed]).rev
    /\ {e \in ToSet(d.ovs) : ApplyNow(e.ov)} = Wanted
    /\ \A i, j \in DOMAIN d.ovs : i < j =>
         \/ d.ovs[i].ov \in Glob /\ d.ovs[j].ov \in Loc
         \/ /\ Priority[d.ovs[i].ov] < Priority[d.ovs[j].ov]
            /\ \E kind \in {Glob, Loc} : {d.ovs[i].ov, d.ovs[j].ov} \subseteq kind

(* An override takes its value along: when the localizer removes the       *)
(* finalizer of an ApplyNow override, the Description of the live feed has *)
(* been rendered without it.                                               *)
OverrideLeavesNothing ==
  [][\A o \in Override :
       api[o].phase = "deleting" /\ api'[o].phase = "gone"
       /\ ApplyNow(o) /\ api[Feed].phase = "live" /\ ~outdated =>
         \A i \in DOMAIN api[Desc].value.ovs : api[Desc].value.ovs[i].ov # o]_vars

(* A feed with the protection finalizer waits for its Subscriptions. *)
Blocked == api[Feed].prot /\ \E s \in Sub : Lists(api[s])

(* Deletions end, through retries, conflicts between the worker of a feed  *)
(* and the callbacks of its overrides, and patches that no longer fit.     *)
(* Only a Subscription that still lists a protected feed keeps the feed;   *)
(* an override is kept only if its callback fails for good, because the    *)
(* feed is so kept or because another override cannot be applied.          *)
DeletionsComplete ==
  <>[](/\ api[Feed].phase = "deleting" => Blocked
       /\ \A o \in Override : api[o].phase = "deleting" =>
            \/ api[Feed].phase = "deleting" /\ Blocked
            \/ \E p \in Override : api[p].phase = "live" /\ ~api[p].valid)

(* No feed is taken away under a Subscription: once the hub has let go of  *)
(* a feed, no Subscription still lists it that the hub had known to list   *)
(* it when it was deleted, be it protected (the deletion had to wait) or   *)
(* not (the hub takes it off the list).  Excluded are lists that were      *)
(* reordered under a patch: it removes whatever is at the index.           *)
ReferredFeedKept == api[Feed].phase = "gone" /\ ~shifted => kept = {}

=============================================================================
