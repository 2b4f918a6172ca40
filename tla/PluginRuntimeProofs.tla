------------------------ MODULE PluginRuntimeProofs ------------------------
(***************************************************************************)
(* Proofs about PluginRuntime, for any profile, any plugins and any number *)
(* of Subscriptions and cycles: types, reservations, and the refinement of *)
(* Permit.                                                                 *)
(***************************************************************************)
EXTENDS PluginRuntime, TLAPS

-----------------------------------------------------------------------------
(* Type correctness.                                                       *)

(* A cycle that has started has a Subscription, and one that waits has a   *)
(* record to wait on.                                                      *)
Started(c) ==
  /\ cycle[c].step # "idle" => cycle[c].sub \in Sub
  /\ cycle[c].step = "receive" => cycle[c].on \in Cycle

TypeInv == TypeOK /\ \A c \in Cycle : Started(c)

(* The plugins of a profile are plugins. *)
LEMMA ProfileTypes ==
  ASSUME TypeOK, NEW e \in ExtensionPoint
  PROVE  profile[e] \in Seq(Plugin) /\ Elements(profile[e]) \subseteq Plugin
<1>1. profile[e] \in Seq(Plugin)
  BY PluginAssumption DEF TypeOK
<1> QED
  BY <1>1 DEF Elements

(* Advancing a cycle to a step changes nothing else of it or of others. *)
LEMMA GotoFacts ==
  ASSUME TypeOK, NEW c \in Cycle, NEW step \in Step, Goto(c, step)
  PROVE  /\ cycle' \in [Cycle -> Cycles]
         /\ cycle'[c].step = step /\ cycle'[c].sub = cycle[c].sub
         /\ cycle'[c].on = cycle[c].on /\ cycle'[c].status = cycle[c].status
         /\ \A d \in Cycle \ {c} : cycle'[d] = cycle[d]
BY DEF TypeOK, Goto, Cycles

(* A record whose update is a record leaves the other records alone. *)
LEMMA RecordFacts ==
  ASSUME TypeOK, NEW w \in Cycle, NEW r \in Records, record' = [record EXCEPT ![w] = r]
  PROVE  /\ record' \in [Cycle -> Records]
         /\ record'[w] = r
         /\ \A d \in Cycle \ {w} : record'[d] = record[d]
BY DEF TypeOK

(* What the plugins and the timers do to a record. *)
LEMMA SendFacts ==
  ASSUME NEW r \in Records, NEW w, NEW code \in {"success", "unschedulable"}
  PROVE  /\ Send(r, w, code) \in Records
         /\ Send(r, w, code).pending = r.pending
         /\ Send(r, w, code).timer = r.timer
         /\ Send(r, w, code).fired = r.fired
         /\ Send(r, w, code).s = IF r.s = None THEN code ELSE r.s
         /\ Send(r, w, code).first = IF r.first = None THEN code ELSE r.first
BY DEF Send, Records

LEMMA AllowFacts ==
  ASSUME TypeOK, NEW w \in Cycle, NEW p
  PROVE  LET r == AfterAllow(w, p)
             last == record[w].pending \ {p} = {} IN
         /\ r \in Records
         /\ r.pending = record[w].pending \ {p} /\ r.timer = record[w].timer \ {p}
         /\ r.fired = record[w].fired
         /\ r.s = IF last /\ record[w].s = None THEN "success" ELSE record[w].s
         /\ r.first = IF last /\ record[w].first = None THEN "success" ELSE record[w].first
<1> DEFINE q == [record[w] EXCEPT !.pending = @ \ {p}, !.timer = @ \ {p}]
<1>1. record[w] \in Records
  BY DEF TypeOK
<1>2. /\ q \in Records /\ q.pending = record[w].pending \ {p}
      /\ q.timer = record[w].timer \ {p} /\ q.fired = record[w].fired
      /\ q.s = record[w].s /\ q.first = record[w].first
  BY <1>1 DEF Records
<1>3. AfterAllow(w, p) = IF q.pending = {} THEN Send(q, w, "success") ELSE q
  BY DEF AfterAllow
<1> HIDE DEF q
<1> QED
  BY <1>2, <1>3, SendFacts

LEMMA RejectFacts ==
  ASSUME NEW r \in Records, NEW w
  PROVE  /\ AfterReject(r, w) \in Records
         /\ AfterReject(r, w).pending = r.pending
         /\ AfterReject(r, w).timer = {}
         /\ AfterReject(r, w).fired = r.fired
         /\ AfterReject(r, w).s = IF r.s = None THEN "unschedulable" ELSE r.s
         /\ AfterReject(r, w).first = IF r.first = None THEN "unschedulable" ELSE r.first
<1> DEFINE q == [r EXCEPT !.timer = {}]
<1>1. /\ q \in Records /\ q.pending = r.pending /\ q.timer = {}
      /\ q.fired = r.fired /\ q.s = r.s /\ q.first = r.first
  BY DEF Records
<1>2. AfterReject(r, w) = Send(q, w, "unschedulable")
  BY DEF AfterReject
<1> HIDE DEF q
<1> QED
  BY <1>1, <1>2, SendFacts

(* The initial state has the declared types. *)
LEMMA TypeInit == Init => TypeInv
BY DEF Init, TypeInv, TypeOK, Started, Idle, NoRecord, Cycles, Records, Step

(* The plugins that are reserved or that are undone are plugins. *)
LEMMA ReservedTypes ==
  ASSUME TypeOK, NEW c \in Cycle, RunReservePluginsUnreserve(c)
  PROVE  reserved' \in [Cycle -> SUBSET Plugin]
BY DEF TypeOK, RunReservePluginsUnreserve

(* A step of a cycle up to the permit phase keeps the types. *)
LEMMA TypeSerial ==
  ASSUME TypeInv, NEW c \in Cycle,
         \/ \E s \in Sub : StartCycle(c, s)
         \/ \E a \in Answers("PreFilter", OkOrNot) : RunPreFilterPlugins(c, a)
         \/ \E a \in Answers("PreScore", OkOrNot) : RunPreScorePlugins(c, a)
         \/ SkipScoring(c)
         \/ \E a \in Answers("Score", OkOrNot) : RunScorePlugins(c, a)
         \/ \E a \in Answers("Reserve", OkOrNot) : RunReservePluginsReserve(c, a)
  PROVE  TypeInv'
<1> USE DEF TypeInv
<1>1. ASSUME NEW s \in Sub, StartCycle(c, s) PROVE TypeInv'
  <2>1. [Idle EXCEPT !.sub = s, !.step = "prefilter"] \in Cycles
    BY DEF Idle, Cycles, Step, Serial
  <2>2. /\ cycle' \in [Cycle -> Cycles]
        /\ cycle'[c].step = "prefilter" /\ cycle'[c].sub = s
        /\ \A d \in Cycle \ {c} : cycle'[d] = cycle[d]
    BY <1>1, <2>1 DEF StartCycle, TypeOK, Idle
  <2>3. UNCHANGED <<profile, reserved, record, waitingSubscriptions, raced>>
    BY <1>1 DEF StartCycle
  <2>4. TypeOK'
    BY <2>2, <2>3 DEF TypeOK
  <2> QED
    BY <2>2, <2>4 DEF Started
<1>2. ASSUME NEW step \in Step, step # "receive", ~At(c, "idle"), Goto(c, step),
             UNCHANGED <<profile, record, waitingSubscriptions, raced>>,
             reserved' \in [Cycle -> SUBSET Plugin]
      PROVE  TypeInv'
  <2>1. TypeOK'
    BY <1>2, GotoFacts DEF TypeOK
  <2> QED
    BY <1>2, <2>1, GotoFacts DEF Started, At
<1>3. ASSUME NEW from, NEW a, NEW next \in Step, from # "idle", next # "receive",
             RunPlugins(c, from, a, next)
      PROVE  TypeInv'
  <2>1. (IF AllSucceed(a) THEN next ELSE "failed") \in Step
    BY DEF Step
  <2>2. (IF AllSucceed(a) THEN next ELSE "failed") # "receive"
    BY <1>3
  <2> QED
    BY <1>2, <1>3, <2>1, <2>2 DEF RunPlugins, At, TypeOK
<1>4. ASSUME NEW a \in Answers("Reserve", OkOrNot), RunReservePluginsReserve(c, a)
      PROVE  TypeInv'
  <2>1. Reserving(profile["Reserve"], a) \subseteq Plugin
    BY ProfileTypes DEF Reserving, Elements, ExtensionPoint
  <2>2. reserved' \in [Cycle -> SUBSET Plugin]
    BY <1>4, <2>1 DEF RunReservePluginsReserve, TypeOK
  <2>3. "permit" \in Step /\ "failed" \in Step
    BY DEF Step, Serial
  <2> QED
    BY <1>2, <1>4, <2>2, <2>3 DEF RunReservePluginsReserve, At
<1>5. SkipScoring(c) => TypeInv'
  <2>1. "reserve" \in Step
    BY DEF Step, Serial
  <2> QED
    BY <1>2, <2>1 DEF SkipScoring, At, TypeOK
<1>6. {"prescore", "score", "reserve"} \subseteq Step
  BY DEF Step, Serial
<1> QED
  BY <1>1, <1>3, <1>4, <1>5, <1>6 DEF RunPreFilterPlugins, RunPreScorePlugins, RunScorePlugins

(* So does calling the permit plugins ... *)
LEMMA TypePermit ==
  ASSUME TypeInv, NEW c \in Cycle, NEW a \in Answers("Permit", Code), RunPermitPlugins(c, a)
  PROVE  TypeInv'
<1> USE DEF TypeInv
<1> DEFINE waits == {p \in DOMAIN a : a[p] = "wait"}
           r == newWaitingSubscription(waits)
<1>1. waits \subseteq Plugin
  BY ProfileTypes DEF Answers, ExtensionPoint
<1>2. r \in Records /\ r.timer \subseteq r.pending
  BY <1>1 DEF newWaitingSubscription, Records
<1>3. "get" \in Step /\ "failed" \in Step
  BY DEF Step, AtPermit
<1>4. At(c, "permit") /\ profile' = profile
  BY DEF RunPermitPlugins
<1>5. CASE /\ RunReservePluginsUnreserve(c) /\ Goto(c, "failed")
           /\ UNCHANGED <<record, waitingSubscriptions, raced>>
  <2>1. TypeOK'
    BY <1>3, <1>4, <1>5, GotoFacts, ReservedTypes DEF TypeOK
  <2> QED
    BY <1>3, <1>4, <1>5, <2>1, GotoFacts DEF Started, At
<1>6. CASE /\ Goto(c, "get") /\ record' = [record EXCEPT ![c] = r]
           /\ waitingSubscriptions' = IF waits = {} THEN waitingSubscriptions
                ELSE [waitingSubscriptions EXCEPT ![cycle[c].sub] = c]
           /\ raced' \subseteq Cycle /\ UNCHANGED reserved
  <2> HIDE DEF waits, r
  <2>1. /\ record' \in [Cycle -> Records]
        /\ \A d \in Cycle : record'[d].timer \subseteq record'[d].pending
    BY <1>2, <1>6, RecordFacts DEF TypeOK
  <2>2. waitingSubscriptions' \in [Sub -> Cycle \cup {None}]
    BY <1>6 DEF TypeOK
  <2>3. TypeOK'
    BY <1>3, <1>4, <1>6, <2>1, <2>2, GotoFacts DEF TypeOK
  <2> QED
    BY <1>3, <1>4, <1>6, <2>3, GotoFacts DEF Started, At
<1>7. /\ Met(c) \subseteq Cycle
      /\ raced \subseteq Cycle
  BY DEF Met, TypeOK
<1> QED
  BY <1>5, <1>6, <1>7 DEF RunPermitPlugins

(* ... the goroutine of a cycle ... *)
LEMMA TypeGoroutine ==
  ASSUME TypeInv, NEW c \in Cycle,
         \/ GetWaitingSubscription(c) \/ ReceiveStatus(c) \/ RemoveWaitingSubscription(c)
         \/ \E a \in Answers("PreBind", OkOrNot) : RunPreBindPlugins(c, a)
         \/ \E a \in Answers("Bind", Code) : Bind(c, a)
  PROVE  TypeInv'
<1> USE DEF TypeInv
<1>1. ASSUME GetWaitingSubscription(c) PROVE TypeInv'
  <2> DEFINE w == waitingSubscriptions[cycle[c].sub]
             next == IF w = None THEN "prebind" ELSE "receive"
  <2>1. w \in Cycle \cup {None}
    BY <1>1 DEF TypeOK, Started, GetWaitingSubscription, At
  <2>2. cycle' = [cycle EXCEPT ![c].on = w, ![c].step = next]
    BY <1>1 DEF GetWaitingSubscription
  <2>3. next \in Step /\ (next = "receive" => w \in Cycle)
    BY <2>1 DEF Step, AtPermit
  <2> HIDE DEF w, next
  <2>4. /\ cycle' \in [Cycle -> Cycles] /\ cycle'[c].step = next
        /\ cycle'[c].on = w /\ cycle'[c].sub = cycle[c].sub
        /\ \A d \in Cycle \ {c} : cycle'[d] = cycle[d]
    BY <2>1, <2>2, <2>3 DEF TypeOK, Cycles
  <2>5. cycle[c].step # "idle" /\ TypeOK'
    BY <1>1, <2>4 DEF GetWaitingSubscription, TypeOK, At
  <2> QED
    BY <2>3, <2>4, <2>5 DEF Started
<1>2. ASSUME ReceiveStatus(c) PROVE TypeInv'
  <2> DEFINE w == cycle[c].on
             r == [record[w] EXCEPT !.s = None]
  <2>1. w \in Cycle /\ record[w] \in Records
    BY <1>2 DEF ReceiveStatus, Started, At, TypeOK
  <2>2. r \in Records /\ r.timer = record[w].timer /\ r.pending = record[w].pending
        /\ record[w].s \in {"success", "unschedulable"}
    BY <1>2, <2>1 DEF Records, ReceiveStatus
  <2>3. record' = [record EXCEPT ![w] = r]
    BY <1>2 DEF ReceiveStatus
  <2> HIDE DEF r
  <2>4. /\ record' \in [Cycle -> Records]
        /\ \A d \in Cycle : record'[d].timer \subseteq record'[d].pending
    BY <2>1, <2>2, <2>3, RecordFacts DEF TypeOK
  <2>5. "remove" \in Step
    BY DEF Step, AtPermit
  <2>6. /\ cycle' \in [Cycle -> Cycles] /\ cycle'[c].step = "remove"
        /\ cycle'[c].sub = cycle[c].sub
        /\ \A d \in Cycle \ {c} : cycle'[d] = cycle[d]
    <3> DEFINE k == [cycle[c] EXCEPT !.step = "remove", !.status = record[w].s]
    <3>1. k \in Cycles /\ k.step = "remove" /\ k.sub = cycle[c].sub
      BY <2>2, <2>5 DEF TypeOK, Cycles
    <3>2. cycle' = [cycle EXCEPT ![c] = k]
      BY <1>2 DEF ReceiveStatus
    <3> HIDE DEF k
    <3>. QED  BY <3>1, <3>2 DEF TypeOK
  <2>7. cycle[c].step # "idle" /\ TypeOK'
    BY <1>2, <2>4, <2>6 DEF ReceiveStatus, TypeOK, At
  <2> QED
    BY <2>6, <2>7 DEF Started
<1>3. ASSUME NEW step \in {"prebind", "bind", "bound", "failed"}, ~At(c, "idle"),
             Goto(c, step), UNCHANGED <<profile, record, raced>>,
             waitingSubscriptions' \in [Sub -> Cycle \cup {None}],
             UNCHANGED reserved \/ RunReservePluginsUnreserve(c)
      PROVE  TypeInv'
  <2>1. step \in Step
    BY DEF Step
  <2>2. TypeOK'
    BY <1>3, <2>1, GotoFacts, ReservedTypes DEF TypeOK
  <2> QED
    BY <1>3, <2>1, <2>2, GotoFacts DEF Started, At
<1>4. ASSUME RemoveWaitingSubscription(c) PROVE TypeInv'
  <2>1. waitingSubscriptions' \in [Sub -> Cycle \cup {None}]
    BY <1>4 DEF RemoveWaitingSubscription, TypeOK
  <2> QED
    BY <1>3, <1>4, <2>1 DEF RemoveWaitingSubscription, At
<1>5. ASSUME NEW a, RunPreBindPlugins(c, a) \/ Bind(c, a) PROVE TypeInv'
  BY <1>3, <1>5 DEF RunPreBindPlugins, Bind, At, TypeOK
<1> QED
  BY <1>1, <1>2, <1>4, <1>5

(* ... and the plugins and timers that decide on a record. *)
LEMMA TypeDecision ==
  ASSUME TypeInv, NEW w \in Cycle,
         (\E p \in Plugin : Allow(w, p)) \/ Reject(w) \/ TimerStep(w)
  PROVE  TypeInv'
<1> USE DEF TypeInv
<1>0. record[w] \in Records /\ record[w].timer \subseteq record[w].pending
  BY DEF TypeOK
<1>1. ASSUME NEW r \in Records, r.timer \subseteq r.pending,
             record' = [record EXCEPT ![w] = r],
             UNCHANGED <<profile, cycle, reserved, waitingSubscriptions, raced>>
      PROVE  TypeInv'
  <2>1. /\ record' \in [Cycle -> Records]
        /\ \A d \in Cycle : record'[d].timer \subseteq record'[d].pending
    BY <1>1, RecordFacts DEF TypeOK
  <2> QED
    BY <1>1, <2>1 DEF TypeOK, Started
<1>2. ASSUME NEW p \in Plugin, Allow(w, p) PROVE TypeInv'
  <2>1. AfterAllow(w, p) \in Records /\ AfterAllow(w, p).timer \subseteq AfterAllow(w, p).pending
    BY <1>0, AllowFacts
  <2> QED
    BY <1>1, <1>2, <2>1 DEF Allow
<1>3. ASSUME NEW r \in Records PROVE AfterReject(r, w) \in Records /\ AfterReject(r, w).timer = {}
  BY RejectFacts
<1>4. ASSUME Reject(w) PROVE TypeInv'
  BY <1>0, <1>1, <1>3, <1>4 DEF Reject
<1>5. ASSUME NEW p \in Plugin, TimerFires(w, p) PROVE TypeInv'
  <2> DEFINE r == [record[w] EXCEPT !.timer = @ \ {p}, !.fired = @ \cup {p}]
  <2>1. r \in Records /\ r.timer \subseteq r.pending
    BY <1>0 DEF Records
  <2>2. record' = [record EXCEPT ![w] = r]
    BY <1>5 DEF TimerFires
  <2> QED
    BY <1>1, <1>5, <2>1, <2>2 DEF TimerFires
<1>6. ASSUME NEW p \in Plugin, RejectOnTimeout(w, p) PROVE TypeInv'
  <2>1. [record[w] EXCEPT !.fired = @ \ {p}] \in Records
    BY <1>0 DEF Records
  <2> QED
    BY <1>1, <1>3, <1>6, <2>1 DEF RejectOnTimeout
<1> QED
  BY <1>2, <1>4, <1>5, <1>6 DEF TimerStep

(* Any step is one of four kinds. *)
LEMMA NextCases ==
  ASSUME TypeOK, Next
  PROVE  \/ \E c \in Cycle, s \in Sub : StartCycle(c, s)
         \/ \E c \in Cycle : CycleStep(c)
         \/ \E w \in Cycle : (\E p \in Plugin : Allow(w, p)) \/ Reject(w) \/ TimerStep(w)
BY ProfileTypes DEF Next, ExtensionPoint

LEMMA TypeNext == TypeInv /\ [Next]_vars => TypeInv'
<1>1. ASSUME TypeInv, UNCHANGED vars PROVE TypeInv'
  BY <1>1 DEF TypeInv, TypeOK, Started, vars
<1>2. ASSUME TypeInv, Next PROVE TypeInv'
  <2>1. ASSUME NEW c \in Cycle, CycleStep(c) PROVE TypeInv'
    BY <1>2, <2>1, TypeSerial, TypePermit, TypeGoroutine DEF CycleStep
  <2>2. TypeOK
    BY <1>2 DEF TypeInv
  <2> QED
    BY <1>2, <2>1, <2>2, NextCases, TypeSerial, TypeDecision
<1> QED
  BY <1>1, <1>2

(* All variables keep their types, whatever plugins a profile enables: the *)
(* records hold plugins of the profile only, no timer of a waiting         *)
(* Subscription runs for a plugin that is no longer pending, and a         *)
(* goroutine only ever waits on a record that exists (framework.go,        *)
(* waiting_subscriptions_map.go).                                          *)
THEOREM RuntimeTypeCorrect == Spec => []TypeOK
<1>1. TypeInv => TypeOK
  BY DEF TypeInv
<1> QED
  BY <1>1, TypeInit, TypeNext, PTL DEF Spec

-----------------------------------------------------------------------------
(* Reservations.                                                           *)

(* Before the Reserve phase has ended, and after a failure, a cycle holds  *)
(* nothing; from there on it holds what all plugins have reserved.         *)
Without == {"idle", "prefilter", "prescore", "score", "reserve", "failed"}
Holding == {"permit", "get", "receive", "remove", "prebind", "bind", "bound"}

Held(c) ==
  /\ cycle[c].step \in Without => reserved[c] = {}
  /\ cycle[c].step \in Holding => reserved[c] = Elements(profile["Reserve"])

ReserveInv == \A c \in Cycle : Held(c)

(* Undoing the reservations of a cycle that holds them all leaves none. *)
LEMMA UnreserveFacts ==
  ASSUME TypeOK, NEW c \in Cycle, Held(c), cycle[c].step \in Holding,
         RunReservePluginsUnreserve(c)
  PROVE  reserved'[c] = {} /\ \A d \in Cycle \ {c} : reserved'[d] = reserved[d]
BY DEF TypeOK, Held, RunReservePluginsUnreserve

(* A cycle that moves keeps or changes its reservations as its new step    *)
(* requires, and leaves those of the others alone.                         *)
LEMMA HeldMoves ==
  ASSUME TypeOK, ReserveInv, NEW c \in Cycle, UNCHANGED profile,
         \A d \in Cycle \ {c} : cycle'[d] = cycle[d] /\ reserved'[d] = reserved[d],
         cycle'[c].step \in Without => reserved'[c] = {},
         cycle'[c].step \in Holding => reserved'[c] = Elements(profile["Reserve"])
  PROVE  ReserveInv'
BY DEF ReserveInv, Held

(* All plugins succeed: all of them have reserved. *)
LEMMA ReservingAll ==
  ASSUME TypeOK, NEW a \in Answers("Reserve", OkOrNot)
  PROVE  /\ Reserving(profile["Reserve"], a) \subseteq Elements(profile["Reserve"])
         /\ AllSucceed(a) => Reserving(profile["Reserve"], a) = Elements(profile["Reserve"])
<1> DEFINE list == profile["Reserve"]
<1>1. list \in Seq(Plugin)
  BY ProfileTypes DEF ExtensionPoint
<1>2. DOMAIN a = Elements(list)
  BY DEF Answers
<1>3. \A j \in DOMAIN list : \A k \in 1..j : k \in DOMAIN list
  BY <1>1
<1>4. \A k \in DOMAIN list : list[k] \in DOMAIN a
  BY <1>2 DEF Elements
<1> HIDE DEF list
<1>5. Reserving(list, a) \subseteq Elements(list)
  BY DEF Reserving, Elements
<1>6. AllSucceed(a) => Elements(list) \subseteq Reserving(list, a)
  BY <1>3, <1>4 DEF Reserving, Elements, AllSucceed
<1> QED
  BY <1>5, <1>6 DEF list

LEMMA ReserveInit == Init => ReserveInv
BY DEF Init, ReserveInv, Held, Idle, Without, Holding

(* Cycles that neither reserve nor undo, in terms of where they go. *)
LEMMA ReserveCycle ==
  ASSUME TypeInv, ReserveInv, NEW c \in Cycle, CycleStep(c)
  PROVE  ReserveInv'
<1> USE DEF TypeInv
<1>0. Held(c)
  BY DEF ReserveInv
<1>1. ASSUME NEW step \in Step, Goto(c, step), UNCHANGED <<profile, reserved>>,
             step = "failed" => cycle[c].step \in Without,
             step \in Without => cycle[c].step \in Without,
             step \in Holding => cycle[c].step \in Holding
      PROVE  ReserveInv'
  BY <1>0, <1>1, GotoFacts, HeldMoves DEF Held
<1>2. ASSUME Goto(c, "failed"), RunReservePluginsUnreserve(c), UNCHANGED profile,
             cycle[c].step \in Holding
      PROVE  ReserveInv'
  <2>1. "failed" \in Step /\ "failed" \notin Holding
    BY DEF Step, Holding
  <2> QED
    BY <1>0, <1>2, <2>1, GotoFacts, UnreserveFacts, HeldMoves
<1>3. ASSUME NEW a, NEW from \in Without, NEW next \in {"prescore", "score", "reserve"},
             RunPlugins(c, from, a, next)
      PROVE  ReserveInv'
  BY <1>1, <1>3 DEF RunPlugins, At, Step, Serial, Without, Holding
<1>4. ASSUME NEW a \in Answers("Reserve", OkOrNot), RunReservePluginsReserve(c, a)
      PROVE  ReserveInv'
  <2>1. {"permit", "failed"} \subseteq Step /\ "permit" \notin Without /\ "failed" \notin Holding
    BY DEF Step, Serial, Without, Holding
  <2>2. ASSUME AllSucceed(a) PROVE ReserveInv'
    <3>1. reserved'[c] = Elements(profile["Reserve"])
          /\ \A d \in Cycle \ {c} : reserved'[d] = reserved[d]
      BY <1>4, <2>2, ReservingAll DEF RunReservePluginsReserve, TypeOK
    <3>2. Goto(c, "permit") /\ UNCHANGED profile
      BY <1>4, <2>2 DEF RunReservePluginsReserve
    <3> QED
      BY <2>1, <3>1, <3>2, GotoFacts, HeldMoves
  <2>3. ASSUME ~AllSucceed(a) PROVE ReserveInv'
    <3>1. reserved'[c] = {} /\ \A d \in Cycle \ {c} : reserved'[d] = reserved[d]
      BY <1>4, <2>3, ReservingAll DEF RunReservePluginsReserve, TypeOK
    <3>2. Goto(c, "failed") /\ UNCHANGED profile
      BY <1>4, <2>3 DEF RunReservePluginsReserve
    <3> QED
      BY <2>1, <3>1, <3>2, GotoFacts, HeldMoves
  <2> QED
    BY <2>2, <2>3
<1>5. ASSUME SkipScoring(c) PROVE ReserveInv'
  BY <1>1, <1>5 DEF SkipScoring, At, Step, Serial, Without, Holding
<1>6. ASSUME NEW a \in Answers("Permit", Code), RunPermitPlugins(c, a) PROVE ReserveInv'
  <2>1. cycle[c].step \in Holding /\ UNCHANGED profile
    BY <1>6 DEF RunPermitPlugins, At, Holding
  <2>2. "get" \in Step \ Without
    BY DEF Step, AtPermit, Without
  <2>3. \/ RunReservePluginsUnreserve(c) /\ Goto(c, "failed")
        \/ Goto(c, "get") /\ UNCHANGED reserved
    BY <1>6 DEF RunPermitPlugins
  <2> QED
    BY <1>1, <1>2, <2>1, <2>2, <2>3
<1>7. ASSUME GetWaitingSubscription(c) \/ ReceiveStatus(c) PROVE ReserveInv'
  <2>1. /\ cycle[c].step \in Holding
        /\ cycle'[c].step \in Holding \ Without
        /\ \A d \in Cycle \ {c} : cycle'[d] = cycle[d]
        /\ UNCHANGED <<profile, reserved>>
    BY <1>7 DEF GetWaitingSubscription, ReceiveStatus, At, TypeOK, Cycles, Holding, Without
  <2> QED
    BY <1>0, <2>1, HeldMoves DEF Held
<1>8. ASSUME RemoveWaitingSubscription(c) PROVE ReserveInv'
  BY <1>1, <1>2, <1>8 DEF RemoveWaitingSubscription, At, Step, Without, Holding
<1>9. ASSUME NEW a, RunPreBindPlugins(c, a) \/ Bind(c, a) PROVE ReserveInv'
  BY <1>1, <1>2, <1>9 DEF RunPreBindPlugins, Bind, At, Step, Without, Holding
<1>10. {"prefilter", "prescore", "score"} \subseteq Without
  BY DEF Without
<1> QED
  BY <1>3, <1>4, <1>5, <1>6, <1>7, <1>8, <1>9, <1>10
     DEF CycleStep, RunPreFilterPlugins, RunPreScorePlugins, RunScorePlugins

LEMMA ReserveNext == TypeInv /\ ReserveInv /\ [Next]_vars => ReserveInv'
<1>1. ASSUME TypeInv, ReserveInv, UNCHANGED vars PROVE ReserveInv'
  BY <1>1 DEF ReserveInv, Held, vars
<1>2. ASSUME TypeInv, ReserveInv, Next PROVE ReserveInv'
  <2> USE <1>2 DEF TypeInv
  <2>1. ASSUME NEW c \in Cycle, NEW s \in Sub, StartCycle(c, s) PROVE ReserveInv'
    <3>1. /\ cycle[c].step = "idle" /\ cycle'[c].step = "prefilter"
          /\ \A d \in Cycle \ {c} : cycle'[d] = cycle[d]
          /\ UNCHANGED <<profile, reserved>>
      BY <2>1 DEF StartCycle, At, TypeOK, Idle
    <3> QED
      BY <3>1, HeldMoves DEF ReserveInv, Held, Without, Holding
  <2>2. ASSUME NEW w \in Cycle,
               (\E p \in Plugin : Allow(w, p)) \/ Reject(w) \/ TimerStep(w)
        PROVE  ReserveInv'
    BY <2>2 DEF Allow, Reject, TimerStep, TimerFires, RejectOnTimeout, ReserveInv, Held
  <2> QED
    BY <2>1, <2>2, ReserveCycle, NextCases
<1> QED
  BY <1>1, <1>2

(* A cycle that failed holds no reservation, whichever of its steps has    *)
(* failed and in whichever of the two goroutines, and one that has bound   *)
(* holds those of all Reserve plugins.  The strengthening: from the end of *)
(* the Reserve phase on, a cycle holds all of them, so that Unreserve,     *)
(* which goes over the list of the profile, undoes them all                *)
(* (RunReservePluginsReserve, RunReservePluginsUnreserve, scheduleOne).    *)
THEOREM ReservationsAreReleased == Spec => []ReservationsReleased
<1>1. ReserveInv => ReservationsReleased
  BY DEF ReserveInv, Held, ReservationsReleased, At, Without, Holding
<1> QED
  BY <1>1, TypeInit, TypeNext, ReserveInit, ReserveNext, PTL DEF Spec

-----------------------------------------------------------------------------
(* The permit phase: what holds of the records, the map and the cycles.    *)

Early == {"idle"} \cup Serial

(* a record is made by RunPermitPlugins, ... *)
Fresh(c) == cycle[c].step \in Early => record[c] = NoRecord

(* ... no status has been sent on one that is not decided, whose timers    *)
(* only run, or have gone off, while a plugin is pending ...               *)
Pending(c) ==
  record[c].first = None =>
    record[c].s = None /\ (record[c].fired # {} => record[c].pending # {})

(* ... and a goroutine waits on a record that has been made *)
OnRecord(c) == cycle[c].step = "receive" => cycle[cycle[c].on].step \notin Early

(* the map only has records of cycles in the permit phase *)
Registered(s) ==
  waitingSubscriptions[s] # None =>
    /\ cycle[waitingSubscriptions[s]].sub = s
    /\ cycle[waitingSubscriptions[s]].step \in AtPermit

(* nothing has been taken from the channel of the cycle's record, and      *)
(* nobody else can                                                         *)
Own(c) ==
  /\ record[c].s = record[c].first
  /\ \A d \in Cycle \ {c} : cycle[d].step = "receive" => cycle[d].on # c

(* What a cycle relies on that no other has raced: it finds its own record *)
(* or has made none, waits on its own record, takes the status that was    *)
(* sent first.  A cycle that overwrites the map later does not find the    *)
(* record any more.                                                        *)
Alone(c) ==
  /\ cycle[c].step = "get" =>
       /\ Own(c) /\ Met(c) = {}
       /\ \/ waitingSubscriptions[cycle[c].sub] = c
          \/ /\ waitingSubscriptions[cycle[c].sub] = None
             /\ record[c].pending = {} /\ record[c].first = None
  /\ cycle[c].step = "receive" =>
       /\ Own(c) /\ cycle[c].on = c
       /\ waitingSubscriptions[cycle[c].sub] = c =>
            \A d \in Met(c) : cycle[d].step # "get"
  /\ cycle[c].step = "remove" =>
       cycle[c].status = record[c].first /\ record[c].first # None

PermitInv ==
  /\ \A c \in Cycle : Fresh(c) /\ Pending(c) /\ OnRecord(c)
  /\ \A s \in Sub : Registered(s)
  /\ \A c \in Cycle \ raced : Alone(c)

LEMMA PermitInit == Init => PermitInv
BY DEF Init, PermitInv, Fresh, Pending, OnRecord, Registered, Alone, NoRecord, Idle, Early

(* A cycle that moves outside the permit phase disturbs nothing. *)
LEMMA PermitOutside ==
  ASSUME TypeInv, PermitInv, NEW c \in Cycle,
         cycle[c].step \notin AtPermit, cycle'[c].step \notin AtPermit,
         cycle'[c].step \in Early => cycle[c].step \in Early,
         \A d \in Cycle \ {c} : cycle'[d] = cycle[d],
         UNCHANGED <<record, waitingSubscriptions, raced>>
  PROVE  PermitInv'
<1>1. /\ cycle[c].step \notin {"get", "receive", "remove"}
      /\ cycle'[c].step \notin {"get", "receive", "remove"}
  BY DEF AtPermit
<1>2. ASSUME NEW d \in Cycle PROVE Fresh(d)' /\ Pending(d)' /\ OnRecord(d)'
  <2>1. Fresh(d) /\ Pending(d) /\ OnRecord(d) /\ Started(d)
    BY DEF PermitInv, TypeInv
  <2> QED
    BY <1>1, <2>1 DEF Fresh, Pending, OnRecord, Started
<1>3. ASSUME NEW s \in Sub PROVE Registered(s)'
  <2>1. Registered(s) /\ waitingSubscriptions[s] \in Cycle \cup {None}
    BY DEF PermitInv, TypeInv, TypeOK
  <2> QED
    BY <2>1 DEF Registered
<1>4. ASSUME NEW d \in Cycle \ raced PROVE Alone(d)'
  <2>1. Alone(d)
    BY DEF PermitInv
  <2>2. d # c => Met(d)' = Met(d)
    BY DEF Met
  <2>3. Own(d) => Own(d)'
    BY <1>1 DEF Own
  <2>4. \A e \in Met(d) : cycle'[e] = cycle[e]
    BY DEF Met
  <2> QED
    BY <1>1, <2>1, <2>2, <2>3, <2>4 DEF Alone
<1> QED
  BY <1>2, <1>3, <1>4 DEF PermitInv

(* The permit plugins let a cycle through, some of them with a wait. *)
LEMMA PermitAsk ==
  ASSUME TypeInv, PermitInv, NEW c \in Cycle, NEW ps \in SUBSET Plugin,
         At(c, "permit"), Goto(c, "get"),
         record' = [record EXCEPT ![c] = newWaitingSubscription(ps)],
         waitingSubscriptions' = IF ps = {} THEN waitingSubscriptions
                                 ELSE [waitingSubscriptions EXCEPT ![cycle[c].sub] = c],
         raced' = raced \cup {d \in Met(c) : At(d, "get") \/ (At(d, "receive") /\ ps = {})}
                        \cup {d \in {c} : Met(c) # {}}
  PROVE  PermitInv'
<1> DEFINE r == newWaitingSubscription(ps)
           sub == cycle[c].sub
<1>1. /\ r \in Records /\ r.pending = ps /\ r.fired = {} /\ r.s = None /\ r.first = None
  BY DEF newWaitingSubscription, Records
<1>2. /\ cycle'[c].step = "get" /\ cycle'[c].sub = cycle[c].sub
      /\ \A d \in Cycle \ {c} : cycle'[d] = cycle[d]
  <2>1. "get" \in Step
    BY DEF Step, AtPermit
  <2> QED
    BY <2>1, GotoFacts DEF TypeInv
<1>3. record'[c] = r /\ \A d \in Cycle \ {c} : record'[d] = record[d]
  BY <1>1, RecordFacts DEF TypeInv
<1>4. cycle[c].step = "permit" /\ sub \in Sub
  BY DEF At, TypeInv, Started
<1>5. /\ "permit" \in Early /\ "permit" \notin AtPermit
      /\ "get" \notin Early /\ "get" \in AtPermit
  BY DEF Early, Serial, AtPermit
<1>6. \A s \in Sub : waitingSubscriptions'[s] =
        IF s = sub /\ ps # {} THEN c ELSE waitingSubscriptions[s]
  BY <1>4 DEF TypeInv, TypeOK
<1> HIDE DEF r
<1>7. ASSUME NEW d \in Cycle PROVE Fresh(d)' /\ Pending(d)' /\ OnRecord(d)'
  <2>1. Fresh(d) /\ Pending(d) /\ OnRecord(d) /\ Started(d)
    BY DEF PermitInv, TypeInv
  <2> QED
    BY <1>1, <1>2, <1>3, <1>4, <1>5, <2>1 DEF Fresh, Pending, OnRecord, Started
<1>8. ASSUME NEW s \in Sub PROVE Registered(s)'
  <2>1. Registered(s) /\ waitingSubscriptions[s] \in Cycle \cup {None}
    BY DEF PermitInv, TypeInv, TypeOK
  <2> QED
    BY <1>2, <1>4, <1>5, <1>6, <2>1 DEF Registered
<1>9. ASSUME c \notin raced' PROVE Alone(c)'
  <2>1. Met(c) = {}
    BY <1>9
  <2>2. Met(c)' = {}
    BY <1>2, <2>1 DEF Met
  <2>3. Own(c)'
    <3>1. ASSUME NEW d \in Cycle \ {c}, cycle[d].step = "receive" PROVE cycle[d].on # c
      BY <1>4, <1>5, <3>1 DEF PermitInv, OnRecord
    <3> QED
      BY <1>1, <1>2, <1>3, <3>1 DEF Own
  <2>4. ps = {} => waitingSubscriptions[sub] = None
    <3>1. Registered(sub) /\ waitingSubscriptions[sub] \in Cycle \cup {None}
      BY <1>4 DEF PermitInv, TypeInv, TypeOK
    <3> QED
      BY <1>4, <1>5, <2>1, <3>1 DEF Registered, Met
  <2> QED
    BY <1>1, <1>2, <1>3, <1>4, <1>6, <2>2, <2>3, <2>4 DEF Alone
<1>10. ASSUME NEW d \in Cycle \ {c}, d \notin raced' PROVE Alone(d)'
  <2>1. d \notin raced /\ Alone(d)
    BY <1>10 DEF PermitInv
  <2>2. Own(d) => Own(d)'
    BY <1>2, <1>3, <1>4 DEF Own
  <2>3. \A e \in Met(d)' : e = c \/ e \in Met(d)
    BY <1>2 DEF Met
  <2>4. cycle[d].sub = sub /\ cycle[d].step \in AtPermit => d \in Met(c)
    BY DEF Met
  <2>5. ASSUME cycle[d].step = "get" PROVE Alone(d)'
    <3>1. cycle[d].sub # sub
      BY <1>10, <2>4, <2>5 DEF At, AtPermit
    <3>2. Met(d)' = {}
      BY <1>2, <2>1, <2>3, <2>5, <3>1 DEF Alone, Met
    <3>3. waitingSubscriptions'[cycle[d].sub] = waitingSubscriptions[cycle[d].sub]
      BY <1>6, <2>5, <3>1 DEF TypeInv, Started
    <3> QED
      BY <1>2, <1>3, <2>1, <2>2, <2>5, <3>2, <3>3 DEF Alone
  <2>6. ASSUME cycle[d].step = "receive" PROVE Alone(d)'
    <3>1. cycle[d].sub \in Sub
      BY <2>6 DEF TypeInv, Started
    <3>2. ASSUME waitingSubscriptions'[cycle[d].sub] = d
          PROVE  \A e \in Met(d)' : cycle'[e].step # "get"
      <4>1. ps # {} => cycle[d].sub # sub
        BY <1>6, <3>1, <3>2
      <4>2. cycle[d].sub # sub
        BY <1>10, <2>4, <2>6, <4>1 DEF At, AtPermit
      <4>3. waitingSubscriptions[cycle[d].sub] = d
        BY <1>6, <3>1, <3>2, <4>2
      <4>4. c \notin Met(d)'
        BY <1>2, <4>2 DEF Met
      <4> QED
        BY <1>2, <2>1, <2>3, <2>6, <4>3, <4>4 DEF Alone, Met
    <3> QED
      BY <1>2, <1>3, <2>1, <2>2, <2>6, <3>2 DEF Alone
  <2> QED
    BY <1>2, <1>3, <2>1, <2>5, <2>6 DEF Alone
<1> QED
  BY <1>7, <1>8, <1>9, <1>10 DEF PermitInv

(* A goroutine looks at the map. *)
LEMMA PermitGet ==
  ASSUME TypeInv, PermitInv, NEW c \in Cycle, GetWaitingSubscription(c)
  PROVE  PermitInv'
<1> DEFINE w == waitingSubscriptions[cycle[c].sub]
<1>1. cycle[c].step = "get" /\ cycle[c].sub \in Sub
  BY DEF GetWaitingSubscription, At, TypeInv, Started
<1>2. /\ cycle'[c].step = IF w = None THEN "prebind" ELSE "receive"
      /\ cycle'[c].on = w /\ cycle'[c].sub = cycle[c].sub
      /\ \A d \in Cycle \ {c} : cycle'[d] = cycle[d]
      /\ UNCHANGED <<record, waitingSubscriptions, raced>>
  BY DEF GetWaitingSubscription, TypeInv, TypeOK, Cycles
<1>3. w \in Cycle \cup {None} /\ Registered(cycle[c].sub)
  BY <1>1 DEF TypeInv, TypeOK, PermitInv
<1>4. /\ {"get", "receive", "remove"} \cap Early = {} /\ "prebind" \notin Early
      /\ AtPermit = {"get", "receive", "remove"}
  BY DEF Early, Serial, AtPermit
<1> HIDE DEF w
<1>5. ASSUME NEW d \in Cycle PROVE Fresh(d)' /\ Pending(d)' /\ OnRecord(d)'
  <2>1. Fresh(d) /\ Pending(d) /\ OnRecord(d) /\ Started(d)
    BY DEF PermitInv, TypeInv
  <2>2. w # None => cycle[w].step \notin Early
    BY <1>3, <1>4 DEF Registered, w
  <2> QED
    BY <1>1, <1>2, <1>3, <1>4, <2>1, <2>2 DEF Fresh, Pending, OnRecord, Started
<1>6. ASSUME NEW s \in Sub PROVE Registered(s)'
  <2>1. Registered(s) /\ waitingSubscriptions[s] \in Cycle \cup {None}
    BY DEF PermitInv, TypeInv, TypeOK
  <2>2. waitingSubscriptions[s] = c => w = c
    BY <2>1, NoneAssumption DEF Registered, w
  <2> QED
    BY <1>1, <1>2, <1>4, <2>1, <2>2, NoneAssumption DEF Registered
<1>7. ASSUME NEW d \in Cycle \ {c}, d \notin raced PROVE Alone(d)'
  <2>1. Alone(d)
    BY <1>7 DEF PermitInv
  <2>2. cycle[d].sub = cycle[c].sub => c \in Met(d)
    BY <1>1, <1>4, <1>7 DEF Met
  <2>3. \A e \in Met(d)' : e \in Met(d) /\ (cycle'[e].step = "get" => cycle[e].step = "get")
    BY <1>1, <1>2, <1>4 DEF Met
  <2>4. cycle[d].step \in {"get", "receive"} => w # d
    <3>1. ASSUME w = d PROVE cycle[d].sub = cycle[c].sub /\ waitingSubscriptions[cycle[d].sub] = d
      BY <1>3, <3>1, NoneAssumption DEF Registered, w
    <3> QED
      BY <1>1, <2>1, <2>2, <3>1 DEF Alone
  <2>5. Own(d) /\ w # d => Own(d)'
    BY <1>1, <1>2 DEF Own
  <2> QED
    BY <1>2, <2>1, <2>3, <2>4, <2>5 DEF Alone
<1>8. ASSUME c \notin raced PROVE Alone(c)'
  <2>1. /\ Own(c) /\ Met(c) = {} /\ w \in {c, None}
    BY <1>1, <1>8 DEF PermitInv, Alone, w
  <2>2. Own(c)' /\ Met(c)' = {}
    BY <1>2, <2>1 DEF Own, Met
  <2> QED
    BY <1>2, <2>1, <2>2 DEF Alone
<1> QED
  BY <1>2, <1>5, <1>6, <1>7, <1>8 DEF PermitInv

(* A goroutine takes a status from the channel of the record it waits on. *)
LEMMA PermitReceive ==
  ASSUME TypeInv, PermitInv, NEW c \in Cycle, ReceiveStatus(c)
  PROVE  PermitInv'
<1> DEFINE w == cycle[c].on
<1>1. cycle[c].step = "receive" /\ w \in Cycle /\ record[w].s # None
  BY DEF ReceiveStatus, At, TypeInv, Started
<1>2. /\ cycle'[c].step = "remove" /\ cycle'[c].status = record[w].s
      /\ cycle'[c].sub = cycle[c].sub
      /\ \A d \in Cycle \ {c} : cycle'[d] = cycle[d]
      /\ UNCHANGED <<waitingSubscriptions, raced>>
  BY DEF ReceiveStatus, TypeInv, TypeOK, Cycles
<1>3. /\ record'[w].s = None /\ record'[w].first = record[w].first
      /\ record'[w].pending = record[w].pending /\ record'[w].fired = record[w].fired
      /\ \A d \in Cycle \ {w} : record'[d] = record[d]
  BY <1>1 DEF ReceiveStatus, TypeInv, TypeOK, Records
<1>4. /\ {"get", "receive", "remove"} \cap Early = {}
      /\ AtPermit = {"get", "receive", "remove"}
  BY DEF Early, Serial, AtPermit
<1> HIDE DEF w
<1>5. ASSUME NEW d \in Cycle PROVE Fresh(d)' /\ Pending(d)' /\ OnRecord(d)'
  <2>1. Fresh(d) /\ Pending(d) /\ OnRecord(d) /\ Started(d)
    BY DEF PermitInv, TypeInv
  <2>2. cycle[w].step \notin Early
    BY <1>1 DEF PermitInv, OnRecord, w
  <2> QED
    BY <1>1, <1>2, <1>3, <1>4, <2>1, <2>2 DEF Fresh, Pending, OnRecord, Started
<1>6. ASSUME NEW s \in Sub PROVE Registered(s)'
  <2>1. Registered(s) /\ waitingSubscriptions[s] \in Cycle \cup {None}
    BY DEF PermitInv, TypeInv, TypeOK
  <2> QED
    BY <1>1, <1>2, <1>4, <2>1 DEF Registered
<1>7. ASSUME NEW d \in Cycle \ {c}, d \notin raced PROVE Alone(d)'
  <2>1. Alone(d)
    BY <1>7 DEF PermitInv
  <2>2. \A e \in Met(d)' : e \in Met(d) /\ (cycle'[e].step = "get" => cycle[e].step = "get")
    BY <1>1, <1>2, <1>4 DEF Met
  <2>3. Own(d) => w # d
    BY <1>1, <1>7 DEF Own, w
  <2>4. Own(d) => Own(d)'
    BY <1>1, <1>2, <1>3, <2>3 DEF Own
  <2>5. record'[d].first = record[d].first /\ record'[d].pending = record[d].pending
    BY <1>3
  <2> QED
    BY <1>2, <2>1, <2>2, <2>4, <2>5 DEF Alone
<1>8. ASSUME c \notin raced PROVE Alone(c)'
  <2>1. w = c /\ record[c].s = record[c].first
    BY <1>1, <1>8 DEF PermitInv, Alone, Own, w
  <2> QED
    BY <1>1, <1>2, <1>3, <2>1 DEF Alone
<1> QED
  BY <1>2, <1>5, <1>6, <1>7, <1>8 DEF PermitInv

(* A goroutine removes the record of its Subscription and goes on, to      *)
(* binding or to failure.                                                  *)
LEMMA PermitRemove ==
  ASSUME TypeInv, PermitInv, NEW c \in Cycle, RemoveWaitingSubscription(c)
  PROVE  PermitInv'
<1>1. cycle[c].step = "remove" /\ cycle[c].sub \in Sub
  BY DEF RemoveWaitingSubscription, At, TypeInv, Started
<1>2. /\ cycle'[c].step \in {"prebind", "failed"} /\ cycle'[c].sub = cycle[c].sub
      /\ \A d \in Cycle \ {c} : cycle'[d] = cycle[d]
      /\ UNCHANGED <<record, raced>>
  <2>1. {"prebind", "failed"} \subseteq Step
    BY DEF Step
  <2> QED
    BY <2>1, GotoFacts DEF RemoveWaitingSubscription, TypeInv
<1>3. \A s \in Sub : waitingSubscriptions'[s] =
        IF s = cycle[c].sub THEN None ELSE waitingSubscriptions[s]
  BY DEF RemoveWaitingSubscription, TypeInv, TypeOK
<1>4. /\ {"prebind", "failed", "remove"} \cap Early = {}
      /\ AtPermit = {"get", "receive", "remove"}
  BY DEF Early, Serial, AtPermit
<1>5. ASSUME NEW d \in Cycle PROVE Fresh(d)' /\ Pending(d)' /\ OnRecord(d)'
  <2>1. Fresh(d) /\ Pending(d) /\ OnRecord(d) /\ Started(d)
    BY DEF PermitInv, TypeInv
  <2> QED
    BY <1>1, <1>2, <1>4, <2>1 DEF Fresh, Pending, OnRecord, Started
<1>6. ASSUME NEW s \in Sub PROVE Registered(s)'
  <2>1. Registered(s) /\ waitingSubscriptions[s] \in Cycle \cup {None}
    BY DEF PermitInv, TypeInv, TypeOK
  <2> QED
    BY <1>1, <1>2, <1>3, <1>4, <2>1 DEF Registered
<1>7. ASSUME NEW d \in Cycle \ {c}, d \notin raced PROVE Alone(d)'
  <2>1. Alone(d) /\ Started(d)
    BY <1>7 DEF PermitInv, TypeInv
  <2>2. \A e \in Met(d)' : e \in Met(d) /\ cycle'[e].step = cycle[e].step
    BY <1>2, <1>4 DEF Met
  <2>3. cycle[d].sub = cycle[c].sub => c \in Met(d)
    BY <1>1, <1>4, <1>7 DEF Met
  <2>4. Own(d) => Own(d)'
    BY <1>1, <1>2 DEF Own
  <2>5. cycle[d].step = "get" => Alone(d)'
    BY <1>2, <1>3, <2>1, <2>2, <2>3, <2>4 DEF Alone, Started
  <2>6. cycle[d].step = "receive" => Alone(d)'
    <3>1. cycle[d].step = "receive" /\ waitingSubscriptions'[cycle[d].sub] = d
            => waitingSubscriptions[cycle[d].sub] = d
      BY <1>3, <2>1, NoneAssumption DEF Started
    <3> QED
      BY <1>2, <2>1, <2>2, <2>4, <3>1 DEF Alone
  <2> QED
    BY <1>2, <2>1, <2>5, <2>6 DEF Alone
<1>8. Alone(c)'
  BY <1>2 DEF Alone
<1> QED
  BY <1>2, <1>5, <1>6, <1>7, <1>8 DEF PermitInv

(* A decision on a record: a plugin allows or rejects, a timer goes off or *)
(* rejects.  Status and first status change together, or not at all.       *)
LEMMA PermitDecides ==
  ASSUME TypeInv, PermitInv, NEW w \in Cycle, NEW r \in Records,
         record' = [record EXCEPT ![w] = r],
         UNCHANGED <<cycle, waitingSubscriptions, raced>>,
         record[w].pending # {} \/ record[w].first # None,
         record[w].first # None => r.first = record[w].first,
         record[w].s = record[w].first => r.s = r.first,
         r.first = None => r.s = None /\ r.pending # {}
  PROVE  PermitInv'
<1>1. record'[w] = r /\ \A d \in Cycle \ {w} : record'[d] = record[d]
  BY RecordFacts DEF TypeInv
<1>2. record[w] # NoRecord
  BY DEF NoRecord
<1>3. ASSUME NEW d \in Cycle PROVE Fresh(d)' /\ Pending(d)' /\ OnRecord(d)'
  <2>1. Fresh(d) /\ Pending(d) /\ OnRecord(d)
    BY DEF PermitInv
  <2> QED
    BY <1>1, <1>2, <2>1 DEF Fresh, Pending, OnRecord
<1>4. ASSUME NEW s \in Sub PROVE Registered(s)'
  BY DEF PermitInv, Registered
<1>5. ASSUME NEW d \in Cycle \ raced PROVE Alone(d)'
  <2>1. Alone(d)
    BY DEF PermitInv
  <2>2. Own(d) => Own(d)'
    BY <1>1 DEF Own
  <2>3. Met(d)' = Met(d)
    BY DEF Met
  <2> QED
    BY <1>1, <2>1, <2>2, <2>3 DEF Alone
<1> QED
  BY <1>3, <1>4, <1>5 DEF PermitInv

LEMMA PermitDecision ==
  ASSUME TypeInv, PermitInv, NEW w \in Cycle,
         (\E p \in Plugin : Allow(w, p)) \/ Reject(w) \/ TimerStep(w)
  PROVE  PermitInv'
<1>1. record[w] \in Records /\ record[w].timer \subseteq record[w].pending
  BY DEF TypeInv, TypeOK
<1>2. Pending(w)
  BY DEF PermitInv
<1>3. ASSUME NEW p \in Plugin, Allow(w, p) PROVE PermitInv'
  <2> DEFINE r == AfterAllow(w, p)
             last == record[w].pending \ {p} = {}
  <2>1. /\ r \in Records /\ r.pending = record[w].pending \ {p}
        /\ r.s = IF last /\ record[w].s = None THEN "success" ELSE record[w].s
        /\ r.first = IF last /\ record[w].first = None THEN "success" ELSE record[w].first
    BY AllowFacts DEF TypeInv
  <2>2. /\ record' = [record EXCEPT ![w] = r]
        /\ UNCHANGED <<cycle, waitingSubscriptions, raced>>
        /\ record[w].pending # {} \/ record[w].first # None
    BY <1>3 DEF Allow
  <2> HIDE DEF r
  <2> QED
    BY <1>2, <2>1, <2>2, PermitDecides, NoneAssumption DEF Pending
<1>4. ASSUME NEW q \in Records, q.pending = record[w].pending,
             q.first = record[w].first, q.s = record[w].s,
             record' = [record EXCEPT ![w] = AfterReject(q, w)],
             UNCHANGED <<cycle, waitingSubscriptions, raced>>,
             record[w].pending # {} \/ record[w].first # None
      PROVE  PermitInv'
  <2> DEFINE r == AfterReject(q, w)
  <2>1. /\ r \in Records /\ r.pending = q.pending
        /\ r.s = IF q.s = None THEN "unschedulable" ELSE q.s
        /\ r.first = IF q.first = None THEN "unschedulable" ELSE q.first
    BY RejectFacts
  <2> HIDE DEF r
  <2> QED
    BY <1>2, <1>4, <2>1, PermitDecides, NoneAssumption DEF Pending, r
<1>5. ASSUME Reject(w) PROVE PermitInv'
  BY <1>1, <1>4, <1>5 DEF Reject
<1>6. ASSUME NEW p \in Plugin, TimerFires(w, p) PROVE PermitInv'
  <2> DEFINE r == [record[w] EXCEPT !.timer = @ \ {p}, !.fired = @ \cup {p}]
  <2>1. /\ r \in Records /\ r.pending = record[w].pending
        /\ r.s = record[w].s /\ r.first = record[w].first
    BY <1>1 DEF Records
  <2>2. /\ record' = [record EXCEPT ![w] = r]
        /\ UNCHANGED <<cycle, waitingSubscriptions, raced>>
        /\ record[w].pending # {}
    BY <1>1, <1>6 DEF TimerFires
  <2> HIDE DEF r
  <2> QED
    BY <1>2, <2>1, <2>2, PermitDecides DEF Pending
<1>7. ASSUME NEW p \in Plugin, RejectOnTimeout(w, p) PROVE PermitInv'
  <2> DEFINE q == [record[w] EXCEPT !.fired = @ \ {p}]
  <2>1. /\ q \in Records /\ q.pending = record[w].pending
        /\ q.s = record[w].s /\ q.first = record[w].first
    BY <1>1 DEF Records
  <2>2. /\ record' = [record EXCEPT ![w] = AfterReject(q, w)]
        /\ UNCHANGED <<cycle, waitingSubscriptions, raced>>
        /\ record[w].pending # {} \/ record[w].first # None
    BY <1>2, <1>7 DEF RejectOnTimeout, Pending
  <2> HIDE DEF q
  <2> QED
    BY <1>4, <2>1, <2>2
<1> QED
  BY <1>3, <1>5, <1>6, <1>7 DEF TimerStep

(* What a step of a cycle outside the permit phase looks like. *)
Outside(c) ==
  /\ cycle[c].step \notin AtPermit \cup {"bound", "failed"}
  /\ cycle'[c].step \notin AtPermit
  /\ \/ cycle[c].step \in Early /\ cycle'[c].step \in Early \cup {"failed"}
     \/ cycle[c].step \in {"prebind", "bind"} /\ cycle'[c].step \in {"bind", "bound", "failed"}
  /\ \A d \in Cycle \ {c} : cycle'[d] = cycle[d]
  /\ UNCHANGED <<record, waitingSubscriptions, raced>>

(* ... and what calling the permit plugins does when they let it through. *)
Asks(c, ps) ==
  /\ At(c, "permit") /\ Goto(c, "get")
  /\ record' = [record EXCEPT ![c] = newWaitingSubscription(ps)]
  /\ waitingSubscriptions' = IF ps = {} THEN waitingSubscriptions
                             ELSE [waitingSubscriptions EXCEPT ![cycle[c].sub] = c]
  /\ raced' = raced \cup {d \in Met(c) : At(d, "get") \/ (At(d, "receive") /\ ps = {})}
                   \cup {d \in {c} : Met(c) # {}}

LEMMA StartOutside ==
  ASSUME TypeInv, NEW c \in Cycle, NEW s \in Sub, StartCycle(c, s)
  PROVE  Outside(c)
BY DEF TypeInv, TypeOK, StartCycle, At, Idle, Outside, Early, Serial, AtPermit

LEMMA CycleCases ==
  ASSUME TypeInv, NEW c \in Cycle, CycleStep(c)
  PROVE  \/ Outside(c) \/ \E ps \in SUBSET Plugin : Asks(c, ps)
         \/ GetWaitingSubscription(c) \/ ReceiveStatus(c) \/ RemoveWaitingSubscription(c)
<1> USE DEF TypeInv
<1>1. ASSUME NEW from \in Serial, NEW step \in Serial \cup {"failed"}, At(c, from),
             Goto(c, step), UNCHANGED <<record, waitingSubscriptions, raced>>
      PROVE  Outside(c)
  <2>1. step \in Step
    BY DEF Step
  <2> QED
    BY <1>1, <2>1, GotoFacts DEF Outside, At, Early, Serial, AtPermit
<1>2. ASSUME NEW a, NEW from \in Serial, NEW next \in Serial, RunPlugins(c, from, a, next)
      PROVE  Outside(c)
  BY <1>1, <1>2 DEF RunPlugins
<1>3. ASSUME NEW a, RunReservePluginsReserve(c, a) PROVE Outside(c)
  BY <1>1, <1>3 DEF RunReservePluginsReserve, Serial
<1>4. ASSUME SkipScoring(c) PROVE Outside(c)
  BY <1>1, <1>4 DEF SkipScoring, Serial
<1>5. ASSUME NEW a \in Answers("Permit", Code), RunPermitPlugins(c, a)
      PROVE  Outside(c) \/ \E ps \in SUBSET Plugin : Asks(c, ps)
  <2> DEFINE waits == {p \in DOMAIN a : a[p] = "wait"}
  <2>1. waits \in SUBSET Plugin
    BY ProfileTypes DEF Answers, ExtensionPoint
  <2>2. ASSUME At(c, "permit"), Goto(c, "failed"),
               UNCHANGED <<record, waitingSubscriptions, raced>>
        PROVE  Outside(c)
    BY <1>1, <2>2 DEF Serial
  <2>3. \/ At(c, "permit") /\ Goto(c, "failed") /\ UNCHANGED <<record, waitingSubscriptions, raced>>
        \/ Asks(c, waits)
    BY <1>5 DEF RunPermitPlugins, Asks
  <2> QED
    BY <2>1, <2>2, <2>3
<1>6. ASSUME NEW a, RunPreBindPlugins(c, a) \/ Bind(c, a) PROVE Outside(c)
  <2>1. {"bind", "bound", "failed"} \subseteq Step
    BY DEF Step
  <2> QED
    BY <1>6, <2>1, GotoFacts DEF RunPreBindPlugins, Bind, Outside, At, AtPermit, Early, Serial
<1>7. {"prefilter", "prescore", "score", "reserve"} \subseteq Serial
  BY DEF Serial
<1> QED
  BY <1>2, <1>3, <1>4, <1>5, <1>6, <1>7
     DEF CycleStep, RunPreFilterPlugins, RunPreScorePlugins, RunScorePlugins

LEMMA PermitNext == TypeInv /\ PermitInv /\ [Next]_vars => PermitInv'
<1>1. ASSUME TypeInv, PermitInv, UNCHANGED vars PROVE PermitInv'
  BY <1>1 DEF PermitInv, Fresh, Pending, OnRecord, Registered, Alone, Own, Met, vars
<1>2. ASSUME TypeInv, PermitInv, Next PROVE PermitInv'
  <2> USE <1>2
  <2>1. ASSUME NEW c \in Cycle, Outside(c) PROVE PermitInv'
    BY <2>1, PermitOutside DEF Outside, Early, Serial
  <2>2. ASSUME NEW c \in Cycle, NEW ps \in SUBSET Plugin, Asks(c, ps) PROVE PermitInv'
    BY <2>2, PermitAsk DEF Asks
  <2>3. ASSUME NEW c \in Cycle, CycleStep(c) PROVE PermitInv'
    BY <2>1, <2>2, <2>3, CycleCases, PermitGet, PermitReceive, PermitRemove
  <2>4. TypeOK
    BY DEF TypeInv
  <2> QED
    BY <2>1, <2>3, <2>4, NextCases, StartOutside, PermitDecision
<1> QED
  BY <1>1, <1>2

-----------------------------------------------------------------------------
(* The refinement of Permit.                                               *)

phaseBar    == [c \in Cycle |-> Phase(c)]
askedBar    == [c \in Cycle |-> record[c].pending]
decisionBar == [c \in Cycle |-> record[c].first]

SameRecords == \A d \in Cycle : record'[d].pending = record[d].pending
                                /\ record'[d].first = record[d].first

LEMMA PhaseMoves ==
  ASSUME NEW c \in Cycle, \A d \in Cycle \ {c} : cycle'[d] = cycle[d]
  PROVE  phaseBar' = [phaseBar EXCEPT ![c] = Phase(c)']
BY DEF phaseBar, Phase

LEMMA RecordsStay ==
  ASSUME SameRecords PROVE askedBar' = askedBar /\ decisionBar' = decisionBar
BY DEF SameRecords, askedBar, decisionBar

(* Outside the permit phase a cycle stands still, gives up or binds. *)
LEMMA SimOutside ==
  ASSUME TypeInv, NEW c \in Cycle, Outside(c)
  PROVE  P!Next \/ UNCHANGED P!vars
<1>1. /\ phaseBar' = [phaseBar EXCEPT ![c] = Phase(c)'] /\ phaseBar[c] = Phase(c)
      /\ phaseBar \in [Cycle -> {phaseBar[d] : d \in Cycle}]
  BY PhaseMoves DEF Outside, phaseBar
<1>2. askedBar' = askedBar /\ decisionBar' = decisionBar /\ raced' = raced
  <2>1. SameRecords
    BY DEF Outside, SameRecords
  <2> QED
    BY <2>1, RecordsStay DEF Outside
<1>3. CASE Phase(c)' = Phase(c)
  <2>1. phaseBar' = phaseBar
    BY <1>1, <1>3
  <2> QED
    BY <1>2, <2>1 DEF P!vars, phaseBar, askedBar, decisionBar
<1>4. CASE Phase(c)' = "failed" /\ Phase(c) \notin {"waiting", "bound", "failed"}
  <2>1. P!GiveUp(c)
    BY <1>1, <1>2, <1>4 DEF P!GiveUp, phaseBar, askedBar, decisionBar
  <2> QED
    BY <2>1 DEF P!Next
<1>5. CASE Phase(c)' = "bound" /\ Phase(c) = "binding"
  <2>1. P!Bind(c)
    BY <1>1, <1>2, <1>5 DEF P!Bind, phaseBar, askedBar, decisionBar
  <2> QED
    BY <2>1 DEF P!Next
<1> QED
  BY <1>3, <1>4, <1>5 DEF Outside, Phase, Early, Serial, AtPermit

(* Calling the permit plugins is to ask, and to meet other cycles. *)
LEMMA SimAsk ==
  ASSUME TypeInv, PermitInv, NEW c \in Cycle, NEW ps \in SUBSET Plugin, Asks(c, ps)
  PROVE  P!Next
<1>1. /\ cycle[c].step = "permit" /\ cycle'[c].step = "get"
      /\ \A d \in Cycle \ {c} : cycle'[d] = cycle[d]
  <2>1. "get" \in Step
    BY DEF Step, AtPermit
  <2> QED
    BY <2>1, GotoFacts DEF Asks, At, TypeInv
<1>2. /\ phaseBar' = [phaseBar EXCEPT ![c] = "waiting"] /\ phaseBar[c] = "scheduling"
      /\ \A d \in Cycle : cycle'[d].step \in AtPermit => phaseBar'[d] = "waiting"
  BY <1>1, PhaseMoves DEF Phase, phaseBar, AtPermit
<1>3. /\ record[c] = NoRecord
      /\ newWaitingSubscription(ps).pending = ps /\ newWaitingSubscription(ps).first = None
      /\ newWaitingSubscription(ps) \in Records
  BY <1>1 DEF PermitInv, Fresh, newWaitingSubscription, Records, Early, Serial
<1>4. /\ record'[c] = newWaitingSubscription(ps)
      /\ \A d \in Cycle \ {c} : record'[d] = record[d]
  BY <1>3, RecordFacts DEF Asks, TypeInv
<1>5. /\ askedBar' = [askedBar EXCEPT ![c] = ps]
      /\ decisionBar' = decisionBar
  <2>1. record[c].first = None
    BY <1>3 DEF NoRecord
  <2>2. \A d \in Cycle : /\ record'[d].pending = IF d = c THEN ps ELSE record[d].pending
                         /\ record'[d].first = record[d].first
    BY <1>3, <1>4, <2>1
  <2> QED
    BY <2>2 DEF askedBar, decisionBar
<1>6. \E met \in SUBSET {d \in Cycle : phaseBar'[d] = "waiting"} : raced' = raced \cup met
  <2> DEFINE met == {d \in Met(c) : At(d, "get") \/ (At(d, "receive") /\ ps = {})}
                    \cup {d \in {c} : Met(c) # {}}
  <2>1. raced' = raced \cup met
    BY DEF Asks
  <2>2. ASSUME NEW d \in met PROVE d \in Cycle /\ phaseBar'[d] = "waiting"
    BY <1>1, <1>2 DEF Met, AtPermit
  <2> QED
    BY <2>1, <2>2
<1>7. P!Ask(c)
  BY <1>2, <1>5, <1>6 DEF P!Ask, phaseBar, askedBar, decisionBar
<1> QED
  BY <1>7 DEF P!Next

(* A goroutine that finds no record goes on: it has nothing to wait for. *)
LEMMA SimGet ==
  ASSUME TypeInv, PermitInv, NEW c \in Cycle, GetWaitingSubscription(c)
  PROVE  P!Next \/ UNCHANGED P!vars
<1> DEFINE w == waitingSubscriptions[cycle[c].sub]
<1>1. /\ cycle[c].step = "get"
      /\ cycle'[c].step = IF w = None THEN "prebind" ELSE "receive"
      /\ \A d \in Cycle \ {c} : cycle'[d] = cycle[d]
      /\ UNCHANGED <<record, raced>>
  BY DEF GetWaitingSubscription, At, TypeInv, TypeOK, Cycles
<1>2. askedBar' = askedBar /\ decisionBar' = decisionBar
  BY <1>1 DEF askedBar, decisionBar
<1>3. CASE w = None
  <2>1. /\ phaseBar' = [phaseBar EXCEPT ![c] = "binding"] /\ phaseBar[c] = "waiting"
    BY <1>1, <1>3, PhaseMoves DEF Phase, phaseBar, AtPermit
  <2>2. c \in raced \/ (askedBar[c] = {} /\ decisionBar[c] = None)
    BY <1>1, <1>3, NoneAssumption DEF PermitInv, Alone, askedBar, decisionBar
  <2>3. P!GoOn(c)
    BY <1>1, <1>2, <2>1, <2>2 DEF P!GoOn, phaseBar, askedBar, decisionBar
  <2> QED
    BY <2>3 DEF P!Next
<1>4. CASE w # None
  <2>1. phaseBar' = phaseBar
    BY <1>1, <1>4 DEF Phase, phaseBar, AtPermit
  <2> QED
    BY <1>1, <1>2, <2>1 DEF P!vars, phaseBar, askedBar, decisionBar
<1> QED
  BY <1>3, <1>4

(* Taking the status from the channel is not visible ... *)
LEMMA SimReceive ==
  ASSUME TypeInv, NEW c \in Cycle, ReceiveStatus(c)
  PROVE  UNCHANGED P!vars
<1>1. cycle[c].on \in Cycle /\ cycle[c].step = "receive"
  BY DEF ReceiveStatus, At, TypeInv, Started
<1>2. SameRecords /\ raced' = raced
  BY <1>1 DEF ReceiveStatus, TypeInv, TypeOK, Records, SameRecords
<1>3. cycle'[c].step = "remove" /\ \A d \in Cycle \ {c} : cycle'[d] = cycle[d]
  BY DEF ReceiveStatus, TypeInv, TypeOK, Cycles
<1>4. phaseBar' = phaseBar
  BY <1>1, <1>3 DEF phaseBar, Phase, AtPermit
<1> QED
  BY <1>2, <1>4, RecordsStay DEF P!vars, phaseBar, askedBar, decisionBar

(* ... and what follows from it is what was decided first. *)
LEMMA SimRemove ==
  ASSUME TypeInv, PermitInv, NEW c \in Cycle, RemoveWaitingSubscription(c)
  PROVE  P!Next
<1>1. /\ cycle[c].step = "remove" /\ UNCHANGED <<record, raced>>
      /\ \A d \in Cycle \ {c} : cycle'[d] = cycle[d]
      /\ cycle'[c].step = IF cycle[c].status = "success" THEN "prebind" ELSE "failed"
  <2>1. {"prebind", "failed"} \subseteq Step
    BY DEF Step
  <2> QED
    BY <2>1, GotoFacts DEF RemoveWaitingSubscription, At, TypeInv
<1>2. askedBar' = askedBar /\ decisionBar' = decisionBar
  BY <1>1 DEF askedBar, decisionBar
<1>3. /\ phaseBar' = [phaseBar EXCEPT ![c] = IF cycle[c].status = "success" THEN "binding" ELSE "failed"]
      /\ phaseBar[c] = "waiting"
  BY <1>1, PhaseMoves DEF Phase, phaseBar, AtPermit
<1>4. c \in raced \/ (decisionBar[c] = cycle[c].status /\ decisionBar[c] \in {"success", "unschedulable"})
  <2>1. record[c].first \in {"success", "unschedulable", None}
    BY DEF TypeInv, TypeOK, Records
  <2> QED
    BY <1>1, <2>1 DEF PermitInv, Alone, decisionBar
<1>5. P!GoOn(c) \/ P!GiveUp(c)
  BY <1>1, <1>2, <1>3, <1>4 DEF P!GoOn, P!GiveUp, phaseBar, askedBar, decisionBar
<1> QED
  BY <1>5 DEF P!Next

(* Allow is to allow, or has no effect when the plugin is not pending. *)
LEMMA SimAllow ==
  ASSUME TypeInv, NEW w \in Cycle, NEW p \in Plugin, Allow(w, p)
  PROVE  P!Next \/ UNCHANGED P!vars
<1> DEFINE last == record[w].pending \ {p} = {}
<1>1. /\ record'[w].pending = record[w].pending \ {p}
      /\ record'[w].first = IF last /\ record[w].first = None THEN "success" ELSE record[w].first
      /\ \A d \in Cycle \ {w} : record'[d] = record[d]
  <2>1. AfterAllow(w, p) \in Records
    BY AllowFacts DEF TypeInv
  <2>2. record'[w] = AfterAllow(w, p) /\ \A d \in Cycle \ {w} : record'[d] = record[d]
    BY <2>1, RecordFacts DEF Allow, TypeInv
  <2> QED
    BY <2>2, AllowFacts DEF TypeInv
<1>2. phaseBar' = phaseBar /\ raced' = raced
  BY DEF Allow, phaseBar, Phase
<1>3. CASE p \in record[w].pending
  <2>1. last <=> record[w].pending = {p}
    BY <1>3
  <2>2. askedBar' = [askedBar EXCEPT ![w] = @ \ {p}] /\ p \in askedBar[w]
    BY <1>1, <1>3 DEF askedBar
  <2>3. decisionBar' = [decisionBar EXCEPT ![w] =
          IF @ = None /\ askedBar[w] = {p} THEN "success" ELSE @]
    BY <1>1, <2>1 DEF askedBar, decisionBar
  <2>4. P!Allow(w, p)
    BY <1>2, <2>2, <2>3 DEF P!Allow, phaseBar, askedBar, decisionBar
  <2> QED
    BY <2>4 DEF P!Next
<1>4. CASE p \notin record[w].pending
  <2>1. record[w].pending # {} \/ record[w].first # None
    BY DEF Allow
  <2>2. SameRecords
    BY <1>1, <1>4, <2>1 DEF SameRecords
  <2> QED
    BY <1>2, <2>2, RecordsStay DEF P!vars, phaseBar, askedBar, decisionBar
<1> QED
  BY <1>3, <1>4

(* A rejection, by a plugin or by a timer, is one if nothing was decided. *)
LEMMA SimReject ==
  ASSUME TypeInv, NEW w \in Cycle, NEW q \in Records,
         q.pending = record[w].pending, q.first = record[w].first,
         record' = [record EXCEPT ![w] = AfterReject(q, w)],
         UNCHANGED <<cycle, raced>>,
         record[w].pending # {} \/ record[w].first # None
  PROVE  P!Next \/ UNCHANGED P!vars
<1>1. /\ record'[w].pending = record[w].pending
      /\ record'[w].first = IF record[w].first = None THEN "unschedulable" ELSE record[w].first
      /\ \A d \in Cycle \ {w} : record'[d] = record[d]
  <2>1. AfterReject(q, w) \in Records
    BY RejectFacts
  <2>2. record'[w] = AfterReject(q, w) /\ \A d \in Cycle \ {w} : record'[d] = record[d]
    BY <2>1, RecordFacts DEF TypeInv
  <2> QED
    BY <2>2, RejectFacts
<1>2. phaseBar' = phaseBar
  BY DEF phaseBar, Phase
<1>3. CASE record[w].first = None
  <2>1. askedBar' = askedBar /\ askedBar[w] # {} /\ decisionBar[w] = None
    BY <1>1, <1>3 DEF askedBar, decisionBar
  <2>2. decisionBar' = [decisionBar EXCEPT ![w] = "unschedulable"]
    <3>1. \A d \in Cycle : record'[d].first = IF d = w THEN "unschedulable" ELSE record[d].first
      BY <1>1, <1>3
    <3> QED
      BY <3>1 DEF decisionBar
  <2>3. P!Reject(w)
    BY <1>2, <2>1, <2>2 DEF P!Reject, phaseBar, askedBar, decisionBar
  <2> QED
    BY <2>3 DEF P!Next
<1>4. CASE record[w].first # None
  <2>1. SameRecords
    BY <1>1, <1>4 DEF SameRecords
  <2> QED
    BY <1>2, <2>1, RecordsStay DEF P!vars, phaseBar, askedBar, decisionBar
<1> QED
  BY <1>3, <1>4

LEMMA SimTimer ==
  ASSUME TypeInv, PermitInv, NEW w \in Cycle, Reject(w) \/ TimerStep(w)
  PROVE  P!Next \/ UNCHANGED P!vars
<1>1. record[w] \in Records /\ Pending(w)
  BY DEF TypeInv, TypeOK, PermitInv
<1>2. ASSUME Reject(w) PROVE P!Next \/ UNCHANGED P!vars
  BY <1>1, <1>2, SimReject DEF Reject
<1>3. ASSUME NEW p \in Plugin, TimerFires(w, p) PROVE UNCHANGED P!vars
  <2>1. SameRecords
    BY <1>3 DEF TimerFires, SameRecords, TypeInv, TypeOK, Records
  <2>2. phaseBar' = phaseBar /\ raced' = raced
    BY <1>3 DEF TimerFires, phaseBar, Phase
  <2> QED
    BY <2>1, <2>2, RecordsStay DEF P!vars, phaseBar, askedBar, decisionBar
<1>4. ASSUME NEW p \in Plugin, RejectOnTimeout(w, p) PROVE P!Next \/ UNCHANGED P!vars
  <2> DEFINE q == [record[w] EXCEPT !.fired = @ \ {p}]
  <2>1. q \in Records /\ q.pending = record[w].pending /\ q.first = record[w].first
    BY <1>1 DEF Records
  <2>2. /\ record' = [record EXCEPT ![w] = AfterReject(q, w)] /\ UNCHANGED <<cycle, raced>>
        /\ record[w].pending # {} \/ record[w].first # None
    BY <1>1, <1>4 DEF RejectOnTimeout, Pending
  <2> HIDE DEF q
  <2> QED
    BY <2>1, <2>2, SimReject
<1> QED
  BY <1>2, <1>3, <1>4 DEF TimerStep

(* Every step is one of Permit, or invisible there. *)
LEMMA SimNext == TypeInv /\ PermitInv /\ [Next]_vars => [P!Next]_(P!vars)
<1>1. ASSUME TypeInv, PermitInv, UNCHANGED vars PROVE UNCHANGED P!vars
  <2>1. phaseBar' = phaseBar /\ askedBar' = askedBar /\ decisionBar' = decisionBar /\ raced' = raced
    BY <1>1 DEF vars, phaseBar, Phase, askedBar, decisionBar
  <2> QED
    BY <2>1 DEF P!vars, phaseBar, askedBar, decisionBar
<1>2. ASSUME TypeInv, PermitInv, Next PROVE P!Next \/ UNCHANGED P!vars
  <2> USE <1>2
  <2>1. ASSUME NEW c \in Cycle, CycleStep(c) PROVE P!Next \/ UNCHANGED P!vars
    BY <2>1, CycleCases, SimOutside, SimAsk, SimGet, SimReceive, SimRemove
  <2>2. ASSUME NEW c \in Cycle, NEW s \in Sub, StartCycle(c, s)
        PROVE  P!Next \/ UNCHANGED P!vars
    BY <2>2, StartOutside, SimOutside
  <2>3. TypeOK
    BY DEF TypeInv
  <2> QED
    BY <2>1, <2>2, <2>3, NextCases, SimAllow, SimTimer
<1> QED
  BY <1>1, <1>2

LEMMA SimInit == Init => P!Init
BY DEF Init, P!Init, Phase, Idle, NoRecord, AtPermit

(* The framework keeps the promise of the permit phase, for any plugins,   *)
(* any number of cycles and any interleaving of Allow, Reject, timers and  *)
(* goroutines: every step is a step of Permit or invisible there.  The     *)
(* strengthening says why a cycle that no other has raced can rely on the  *)
(* map: it finds its own record, nobody else can take the status from its  *)
(* channel, and the first status sent is the one it takes                  *)
(* (RunPermitPlugins, WaitOnPermit, waiting_subscriptions_map.go).         *)
THEOREM PermitIsKept == Spec => PermitKept
<1> QED
  BY TypeInit, TypeNext, PermitInit, PermitNext, SimInit, SimNext, PTL
     DEF Spec, PermitKept, P!Spec
=============================================================================
