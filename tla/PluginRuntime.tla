--------------------------- MODULE PluginRuntime ---------------------------
(***************************************************************************)
(* The scheduling framework: the plugins of a profile are run at every     *)
(* extension point of a cycle, and a cycle that permit plugins delay waits *)
(* in the map of waiting Subscriptions until it is allowed, rejected or    *)
(* timed out.                                                              *)
(*                                                                         *)
(* scheduleOne runs cycles one after the other up to RunPermitPlugins; the *)
(* rest of a cycle, from WaitOnPermit on, is a goroutine of its own, so    *)
(* that cycles of one Subscription overlap there.  The record a cycle      *)
(* waits on (waitingSubscription) is named by the cycle that made it.      *)
(***************************************************************************)
EXTENDS Integers, Sequences

CONSTANTS
  Sub,         \* Subscriptions, by UID
  MaxCycles,   \* bound: scheduling cycles in a behaviour
  Plugin,      \* names of plugins
  Registry,    \* the extension points every registered plugin implements
  Profile,     \* the plugins somebody may enable
  None

Cycle == 1..MaxCycles

ExtensionPoint == {"PreFilter", "PreScore", "Score", "Reserve", "Permit", "PreBind", "Bind"}

ASSUME PluginAssumption ==
  /\ DOMAIN Registry \subseteq Plugin
  /\ \A p \in DOMAIN Registry : Registry[p] \subseteq ExtensionPoint
  /\ \A f \in Profile : \A e \in ExtensionPoint : f[e] \in Seq(Plugin)
ASSUME BoundAssumption == MaxCycles \in Nat
ASSUME NoneAssumption == None \notin Cycle /\ None \notin {"success", "unschedulable"}

VARIABLES
  profile,               \* the lists of plugins of frameworkImpl
  cycle,                 \* subscription and progress of every cycle
  reserved,              \* the plugins that hold a reservation of the cycle
  record,                \* the waitingSubscription a cycle has made
  waitingSubscriptions,  \* waitingSubscriptionsMap
  raced                  \* history: cycles that met another at the map

vars == <<profile, cycle, reserved, record, waitingSubscriptions, raced>>

Code == {"success", "error", "unschedulable", "wait", "skip"}

(* the steps of a cycle before its goroutine starts, in it, and its ends *)
Serial == {"prefilter", "prescore", "score", "reserve", "permit"}
AtPermit == {"get", "receive", "remove"}
Step == {"idle", "bound", "failed", "prebind", "bind"} \cup Serial \cup AtPermit

Elements(list) == {list[i] : i \in DOMAIN list}

Cycles == [sub: Sub \cup {None}, step: Step, on: Cycle \cup {None},
           status: {"success", "unschedulable", None}]
(* timer: plugins whose timer runs; fired: timers that have gone off and   *)
(* whose call of Reject waits for the lock; s: the channel; first: the     *)
(* first status sent on it                                                 *)
Records == [pending: SUBSET Plugin, timer: SUBSET Plugin, fired: SUBSET Plugin,
            s: {"success", "unschedulable", None}, first: {"success", "unschedulable", None}]

TypeOK ==
  /\ profile \in Profile
  /\ cycle \in [Cycle -> Cycles]
  /\ reserved \in [Cycle -> SUBSET Plugin]
  /\ record \in [Cycle -> Records]
  /\ waitingSubscriptions \in [Sub -> Cycle \cup {None}]
  /\ raced \subseteq Cycle
  /\ \A c \in Cycle : record[c].timer \subseteq record[c].pending

-----------------------------------------------------------------------------
(* NewFramework: every enabled plugin exists, implements the extension     *)
(* point and is enabled once, and something can bind.                      *)

updatePluginList(list, e) ==
  /\ \A i \in DOMAIN list : list[i] \in DOMAIN Registry /\ e \in Registry[list[i]]
  /\ \A i, j \in DOMAIN list : list[i] = list[j] => i = j

NewFramework(f) ==
  /\ \A e \in ExtensionPoint : updatePluginList(f[e], e)
  /\ f["Bind"] # <<>>

NoRecord == [pending |-> {}, timer |-> {}, fired |-> {}, s |-> None, first |-> None]
Idle == [sub |-> None, step |-> "idle", on |-> None, status |-> None]

Init ==
  /\ profile \in {f \in Profile : NewFramework(f)}
  /\ cycle = [c \in Cycle |-> Idle]
  /\ reserved = [c \in Cycle |-> {}]
  /\ record = [c \in Cycle |-> NoRecord]
  /\ waitingSubscriptions = [s \in Sub |-> None]
  /\ raced = {}

-----------------------------------------------------------------------------
(* The scheduling cycle.                                                   *)

(* what the plugins enabled at e answer, each of them a member of codes *)
Answers(e, codes) == [Elements(profile[e]) -> codes]

AllSucceed(a) == \A p \in DOMAIN a : a[p] = "success"

At(c, step) == cycle[c].step = step
Goto(c, step) == cycle' = [cycle EXCEPT ![c].step = step]

(* scheduleOne takes the next key when the cycle before has called Done *)
StartCycle(c, s) ==
  /\ At(c, "idle")
  /\ \A d \in Cycle : cycle[d].step \notin Serial /\ (d < c => ~At(d, "idle"))
  /\ cycle' = [cycle EXCEPT ![c] = [Idle EXCEPT !.sub = s, !.step = "prefilter"]]
  /\ UNCHANGED <<profile, reserved, record, waitingSubscriptions, raced>>

(* An extension point whose plugins are called in turn until one fails; a  *)
(* failure ends the cycle, and its key is queued again.                    *)
RunPlugins(c, step, a, next) ==
  /\ At(c, step)
  /\ Goto(c, IF AllSucceed(a) THEN next ELSE "failed")
  /\ UNCHANGED <<profile, reserved, record, waitingSubscriptions, raced>>

RunPreFilterPlugins(c, a) == RunPlugins(c, "prefilter", a, "prescore")

(* prioritizeClusters only asks them when there are score plugins *)
RunPreScorePlugins(c, a) ==
  /\ RunPlugins(c, "prescore", a, "score")
  /\ profile["Score"] # <<>>

SkipScoring(c) ==
  /\ At(c, "prescore") /\ profile["Score"] = <<>>
  /\ Goto(c, "reserve")
  /\ UNCHANGED <<profile, reserved, record, waitingSubscriptions, raced>>

(* Scoring every cluster, normalising and weighing the scores: the three   *)
(* parallel loops fail together when one plugin fails in one of them, or   *)
(* leaves a score out of range.                                            *)
RunScorePlugins(c, a) == RunPlugins(c, "score", a, "reserve")

(* the plugins before the first that fails *)
Reserving(list, a) ==
  {list[i] : i \in {j \in DOMAIN list : \A k \in 1..j : a[list[k]] = "success"}}

(* mutant: only the first plugin is undone *)
UnreserveFirst(c) ==
  reserved' = [reserved EXCEPT ![c] = @ \ {p \in @ : p = profile["Reserve"][1]}]

RunReservePluginsUnreserve(c) ==
  reserved' = [reserved EXCEPT ![c] = @ \ Elements(profile["Reserve"])]

RunReservePluginsReserve(c, a) ==
  /\ At(c, "reserve")
  /\ IF AllSucceed(a)
     THEN /\ reserved' = [reserved EXCEPT ![c] = Reserving(profile["Reserve"], a)]
          /\ Goto(c, "permit")
     ELSE /\ reserved' = [reserved EXCEPT ![c] =
               Reserving(profile["Reserve"], a) \ Elements(profile["Reserve"])]
          /\ Goto(c, "failed")
  /\ UNCHANGED <<profile, record, waitingSubscriptions, raced>>

-----------------------------------------------------------------------------
(* The permit phase.                                                       *)

(* one timer for each plugin that asked to wait *)
newWaitingSubscription(ps) ==
  [pending |-> ps, timer |-> ps, fired |-> {}, s |-> None, first |-> None]

(* the other cycles of the Subscription that may still look at the map *)
Met(c) == {d \in Cycle \ {c} : cycle[d].sub = cycle[c].sub /\ cycle[d].step \in AtPermit}

(* A new record takes the place of the one that is there.  The cycle races *)
(* those it meets; of these, one that has not looked at the map yet may    *)
(* find the new record, and one that waits may lose its status to a cycle  *)
(* that has made none.                                                     *)
RunPermitPlugins(c, a) ==
  /\ At(c, "permit")
  /\ LET waits == {p \in DOMAIN a : a[p] = "wait"}
         passes == \A p \in DOMAIN a : a[p] \in {"success", "wait"} IN
       \/ /\ ~passes
          /\ RunReservePluginsUnreserve(c)
          /\ Goto(c, "failed")
          /\ UNCHANGED <<record, waitingSubscriptions, raced>>
       \/ /\ passes
          /\ Goto(c, "get")
          /\ record' = [record EXCEPT ![c] = newWaitingSubscription(waits)]
          /\ waitingSubscriptions' = IF waits = {} THEN waitingSubscriptions
               ELSE [waitingSubscriptions EXCEPT ![cycle[c].sub] = c]
          /\ raced' = raced \cup {d \in Met(c) : At(d, "get") \/ (At(d, "receive") /\ waits = {})}
                            \cup {d \in {c} : Met(c) # {}}
          /\ UNCHANGED reserved
  /\ UNCHANGED profile

(* WaitOnPermit, in the goroutine: the map is looked at, ... *)
GetWaitingSubscription(c) ==
  /\ At(c, "get")
  /\ LET w == waitingSubscriptions[cycle[c].sub] IN
       cycle' = [cycle EXCEPT ![c].on = w, ![c].step = IF w = None THEN "prebind" ELSE "receive"]
  /\ UNCHANGED <<profile, reserved, record, waitingSubscriptions, raced>>

(* ... a status is taken from the channel ... *)
ReceiveStatus(c) ==
  /\ At(c, "receive")
  /\ record[cycle[c].on].s # None
  /\ cycle' = [cycle EXCEPT ![c].step = "remove", ![c].status = record[cycle[c].on].s]
  /\ record' = [record EXCEPT ![cycle[c].on].s = None]
  /\ UNCHANGED <<profile, reserved, waitingSubscriptions, raced>>

(* ... and whatever record the Subscription now has is removed *)
RemoveWaitingSubscription(c) ==
  /\ At(c, "remove")
  /\ waitingSubscriptions' = [waitingSubscriptions EXCEPT ![cycle[c].sub] = None]
  /\ \/ /\ cycle[c].status = "success"
        /\ Goto(c, "prebind")
        /\ UNCHANGED reserved
     \/ /\ cycle[c].status # "success"
        /\ RunReservePluginsUnreserve(c)
        /\ Goto(c, "failed")
  /\ UNCHANGED <<profile, record, raced>>

(* mutant: the channel has no buffer *)
SendUnbuffered(r, w, code) ==
  IF \E c \in Cycle : At(c, "receive") /\ cycle[c].on = w THEN
    [r EXCEPT !.s = IF @ = None THEN code ELSE @, !.first = IF @ = None THEN code ELSE @]
  ELSE r

(* a send that does not block: a channel that is full keeps what it has *)
Send(r, w, code) ==
  [r EXCEPT !.s = IF @ = None THEN code ELSE @, !.first = IF @ = None THEN code ELSE @]

(* mutant: one plugin that allows is enough *)
AllowAlone(w, p) ==
  [record[w] EXCEPT !.pending = @ \ {p}, !.timer = @ \ {p},
                    !.s = IF @ = None THEN "success" ELSE @,
                    !.first = IF @ = None THEN "success" ELSE @]

(* mutant: the timer of a plugin that has allowed is left running *)
AllowKeepsTimer(w, p) ==
  LET r == [record[w] EXCEPT !.pending = @ \ {p}]
  IN  IF r.pending = {} THEN Send(r, w, "success") ELSE r

AfterAllow(w, p) ==
  LET r == [record[w] EXCEPT !.pending = @ \ {p}, !.timer = @ \ {p}]
  IN  IF r.pending = {} THEN Send(r, w, "success") ELSE r

(* A plugin that found the waiting Subscription in the map may keep it and *)
(* call Allow at any time, under its own name.                             *)
Allow(w, p) ==
  /\ record[w].pending # {} \/ record[w].first # None
  /\ record' = [record EXCEPT ![w] = AfterAllow(w, p)]
  /\ UNCHANGED <<profile, cycle, reserved, waitingSubscriptions, raced>>

(* every timer is stopped that has not gone off *)
AfterReject(r, w) == Send([r EXCEPT !.timer = {}], w, "unschedulable")

Reject(w) ==
  /\ record[w].pending # {} \/ record[w].first # None
  /\ record' = [record EXCEPT ![w] = AfterReject(record[w], w)]
  /\ UNCHANGED <<profile, cycle, reserved, waitingSubscriptions, raced>>

TimerFires(w, p) ==
  /\ p \in record[w].timer
  /\ record' = [record EXCEPT ![w].timer = @ \ {p}, ![w].fired = @ \cup {p}]
  /\ UNCHANGED <<profile, cycle, reserved, waitingSubscriptions, raced>>

(* the function given to time.AfterFunc *)
RejectOnTimeout(w, p) ==
  /\ p \in record[w].fired
  /\ record' = [record EXCEPT ![w] = AfterReject([record[w] EXCEPT !.fired = @ \ {p}], w)]
  /\ UNCHANGED <<profile, cycle, reserved, waitingSubscriptions, raced>>

-----------------------------------------------------------------------------
(* The binding cycle.                                                      *)

RunPreBindPlugins(c, a) ==
  /\ At(c, "prebind")
  /\ IF AllSucceed(a)
     THEN Goto(c, "bind") /\ UNCHANGED reserved
     ELSE Goto(c, "failed") /\ RunReservePluginsUnreserve(c)
  /\ UNCHANGED <<profile, record, waitingSubscriptions, raced>>

(* the answer of the first plugin that does not skip *)
RunBindPlugins(list, a) ==
  LET handling == {i \in DOMAIN list : a[list[i]] # "skip"} IN
  IF handling = {} THEN "skip"
  ELSE a[list[CHOOSE i \in handling : \A j \in handling : i <= j]]

(* bind, and RunPostBindPlugins, which cannot fail *)
Bind(c, a) ==
  /\ At(c, "bind")
  /\ IF RunBindPlugins(profile["Bind"], a) = "success"
     THEN Goto(c, "bound") /\ UNCHANGED reserved
     ELSE Goto(c, "failed") /\ RunReservePluginsUnreserve(c)
  /\ UNCHANGED <<profile, record, waitingSubscriptions, raced>>

-----------------------------------------------------------------------------
OkOrNot == {"success", "unschedulable", "error"}

CycleStep(c) ==
  \/ \E a \in Answers("PreFilter", OkOrNot) : RunPreFilterPlugins(c, a)
  \/ \E a \in Answers("PreScore", OkOrNot) : RunPreScorePlugins(c, a)
  \/ SkipScoring(c)
  \/ \E a \in Answers("Score", OkOrNot) : RunScorePlugins(c, a)
  \/ \E a \in Answers("Reserve", OkOrNot) : RunReservePluginsReserve(c, a)
  \/ \E a \in Answers("Permit", Code) : RunPermitPlugins(c, a)
  \/ GetWaitingSubscription(c)
  \/ ReceiveStatus(c)
  \/ RemoveWaitingSubscription(c)
  \/ \E a \in Answers("PreBind", OkOrNot) : RunPreBindPlugins(c, a)
  \/ \E a \in Answers("Bind", Code) : Bind(c, a)

TimerStep(w) == \E p \in Plugin : TimerFires(w, p) \/ RejectOnTimeout(w, p)

Next ==
  \/ \E c \in Cycle, s \in Sub : StartCycle(c, s)
  \/ \E c \in Cycle : CycleStep(c)
  \/ \E w \in Cycle, p \in Elements(profile["Permit"]) : Allow(w, p)
  \/ \E w \in Cycle : Reject(w)
  \/ \E w \in Cycle : TimerStep(w)

Spec == Init /\ [][Next]_vars

(* goroutines that can run do run, and timers go off; plugins owe nothing *)
FairSpec == Spec /\ \A c \in Cycle : WF_vars(CycleStep(c)) /\ WF_vars(TimerStep(c))

-----------------------------------------------------------------------------
(* Properties.                                                             *)

Phase(c) ==
  LET step == cycle[c].step IN
  IF step \in AtPermit THEN "waiting"
  ELSE IF step \in {"prebind", "bind"} THEN "binding"
  ELSE IF step \in {"bound", "failed"} THEN step
  ELSE "scheduling"

P == INSTANCE Permit WITH
       Undecided <- None,
       phase <- [c \in Cycle |-> Phase(c)],
       asked <- [c \in Cycle |-> record[c].pending],
       decision <- [c \in Cycle |-> record[c].first]

(* The framework implements the promise of the permit phase: whatever the  *)
(* order of Allow, Reject, timers and the goroutine's own steps, a cycle   *)
(* that does not race another of its Subscription is bound only with the   *)
(* consent of every plugin that asked it to wait.                          *)
PermitKept == P!Spec

(* A reservation outlives its cycle exactly when the cycle has bound: each *)
(* of the ways a cycle can fail, before and in the goroutine, calls        *)
(* Unreserve of every plugin that has reserved.                            *)
ReservationsReleased ==
  \A c \in Cycle :
    /\ At(c, "failed") => reserved[c] = {}
    /\ At(c, "bound") => reserved[c] = Elements(profile["Reserve"])

(* "It will block until the waiting subscription is rejected or allowed",  *)
(* and no longer: no status is lost between the plugins, the timers and    *)
(* the goroutine, even one that is sent before the goroutine receives.     *)
WaitEnds ==
  \A c \in Cycle : At(c, "receive") ~> At(c, "remove") \/ c \in raced
=============================================================================
