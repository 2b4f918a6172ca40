--------------------------- MODULE FeedSyncProofs ---------------------------
(***************************************************************************)
(* What FeedSync guarantees for any number of overrides, Subscriptions and *)
(* events: type correctness, that no feed is taken away under a            *)
(* Subscription, that an override takes its value along, and that no       *)
(* change of a template or of an override is lost on its way to the        *)
(* Description.                                                            *)
(***************************************************************************)
EXTENDS FeedSync, FiniteSetTheorems, SequenceTheorems, TLAPS

ScenarioType == [kind: {"Manifest", "HelmChart"}, gate: BOOLEAN,
                 adopted: BOOLEAN, overrides: SUBSET Override,
                 ready: SUBSET Override, later: SUBSET Override,
                 kinds: SUBSET EventKind, left: 0..MaxEvents]

(* The parts of the type invariant. *)
StoreOK ==
  /\ DOMAIN api = Object /\ DOMAIN cache = Object /\ DOMAIN watch = Object
  /\ \A k \in Object : /\ api[k] \in OfKind(k) /\ cache[k] \in OfKind(k)
                       /\ watch[k] \in Seq(OfKind(k))

JobOK(k, j) ==
  /\ j \in JobRecord /\ j.obj \in OfKind(k)
  /\ j.pc \in {"inject", "label", "release"} => k # Feed

WorkOK ==
  /\ queue \subseteq Key /\ DOMAIN job = Key
  /\ \A k \in Key : job[k] # None => JobOK(k, job[k])

HistOK == outdated \in BOOLEAN /\ shifted \in BOOLEAN /\ kept \subseteq Sub

(* An edit uses up an event, so revisions stay in their range. *)
EventsOK ==
  /\ scenario \in ScenarioType
  /\ \A k \in Key : api[k].rev + scenario.left <= MaxEvents + 1

TypeInv == StoreOK /\ WorkOK /\ HistOK /\ EventsOK

-----------------------------------------------------------------------------
(* The feed and its Subscriptions.                                         *)

(* Nobody knows of a deletion of the feed before there is one. *)
FeedJob(k) ==
  job[k] # None => /\ job[k].pc \notin {"protect", "unlist", "unfeed"}
                   /\ k = Feed => job[k].obj.phase = "live"

FeedInv ==
  /\ api[Feed].phase # "absent" /\ cache[Feed].phase # "absent"
  /\ \A i \in DOMAIN watch[Feed] : watch[Feed][i].phase # "absent"
  /\ api[Feed].phase = "live" =>
       /\ cache[Feed].phase = "live"
       /\ \A i \in DOMAIN watch[Feed] : watch[Feed][i].phase = "live"
       /\ \A k \in Key : FeedJob(k)

(* Whoever works for a deleted feed has come to, or will come to, every    *)
(* Subscription that is known to list it, or must start over.              *)
Listed(s) == /\ Lists(api[s]) /\ Lists(cache[s])
             /\ \A i \in DOMAIN watch[s] : Lists(watch[s][i])

KeptJob(k) ==
  job[k] # None =>
    /\ job[k].todo # {} => job[k].pc = "unlist"
    /\ \A t \in job[k].todo : Feed \in ToSet(t.list)
    /\ job[k].pc = "unlist" /\ ~job[k].failed /\ ~shifted =>
         \A s \in kept : \E t \in job[k].todo : t.sub = s
    /\ job[k].pc = "unfeed" /\ ~shifted => kept = {}

KeptInv ==
  /\ \A s \in kept : Listed(s)
  /\ \A k \in Key : KeptJob(k)
  /\ ReferredFeedKept

-----------------------------------------------------------------------------
(* The overrides.                                                          *)

Past(o) == o.phase \notin {"absent", "live"}
Ended(o) == o.phase \in {"gone", "escaped"}
Behind(o, p) == /\ o.lab => p.lab
                /\ Past(o) => Past(p)
                /\ Ended(o) => p.phase = o.phase
                /\ p.phase = "absent" => o.phase = "absent"

(* Versions of an override go forward, from the cache to the API server. *)
Forward(o) ==
  /\ Behind(cache[o], api[o])
  /\ api[o].phase = "gone" => Past(cache[o])
  /\ \A i \in DOMAIN watch[o] :
       /\ watch[o][i].phase # "absent"
       /\ Behind(cache[o], watch[o][i]) /\ Behind(watch[o][i], api[o])
       /\ \A j \in DOMAIN watch[o] : i < j => Behind(watch[o][i], watch[o][j])

ForwardJob(o) ==
  job[o] # None =>
    /\ Exists(job[o].obj) /\ Behind(job[o].obj, api[o])
    /\ cache[o].phase # "absent"
    /\ job[o].pc = "release" => job[o].obj.phase = "deleting"
    /\ job[o].origin = "lister" => Behind(job[o].obj, cache[o])
    /\ job[o].pc = "inject" => job[o].origin = "lister"

ForwardInv == \A o \in Override : Forward(o) /\ ForwardJob(o)

(* What the informers have yet to deliver ends in what is stored. *)
Agree(o, p) == o.phase = p.phase /\ o.rev = p.rev
LastInv ==
  /\ \A k \in Key : IF watch[k] = <<>> THEN Agree(cache[k], api[k])
                    ELSE Agree(watch[k][Len(watch[k])], api[k])
  /\ \A o \in Override : IF watch[o] = <<>> THEN cache[o].lab = api[o].lab
                         ELSE watch[o][Len(watch[o])].lab = api[o].lab

(* A live override is labelled, or will be. *)
LabelAt(o) ==
  api[o].phase = "live" /\ ~api[o].lab =>
    \/ cache[o].phase = "absent"
    \/ o \in queue
    \/ job[o] # None /\ job[o].pc \in {"inject", "label"}

LabelInv == \A o \in Override : LabelAt(o)

-----------------------------------------------------------------------------
(* The Description.                                                        *)

Shown(o) == {e \in ToSet(api[Desc].value.ovs) : e.ov = o}

(* What the resync with the present caches leaves of o. *)
Due(o) == IF cache[o].phase = "live" /\ cache[o].lab
          THEN {[ov |-> o, rev |-> cache[o].rev]} ELSE {}

InOrder(ovs) ==
  \A i, j \in DOMAIN ovs : i < j =>
    \/ ovs[i].ov \in Glob /\ ovs[j].ov \in Loc
    \/ /\ Priority[ovs[i].ov] < Priority[ovs[j].ov]
       /\ \E kind \in {Glob, Loc} : {ovs[i].ov, ovs[j].ov} \subseteq kind

OrderInv ==
  /\ InOrder(api[Desc].value.ovs)
  /\ \A k \in Key : job[k] # None => InOrder(job[k].want.ovs)

(* An override that is about to be released, or has been, is in no         *)
(* Description that the caches account for.                                *)
LeaveAt(o) ==
  ApplyNow(o) =>
    /\ api[o].phase = "gone" => Shown(o) = {}
    /\ job[o] # None /\ job[o].pc = "release" /\ job[o].origin = "lister" => Shown(o) = {}

LeaveInv == api[Feed].phase = "live" /\ ~outdated => \A o \in Override : LeaveAt(o)

(* The Description has what the caches have, or somebody will see to it. *)
FreshFeed ==
  \/ api[Desc].value.rev = Plain(cache[Feed]).rev
  \/ Feed \in queue \/ job[Feed] # None

FreshAt(o) ==
  ApplyNow(o) => \/ Shown(o) = Due(o)
                 \/ o \in queue /\ Exists(cache[o])
                 \/ job[o] # None /\ job[o].pc # "release"

NoEscape == \A o \in Override : api[o].phase # "escaped"

FreshInv == api[Feed].phase = "live" /\ ~outdated /\ NoEscape =>
              FreshFeed /\ \A o \in Override : FreshAt(o)

OverridesInv == ForwardInv /\ LastInv /\ LabelInv /\ OrderInv /\ LeaveInv /\ FreshInv

IInv == TypeInv /\ FeedInv /\ KeptInv /\ OverridesInv

-----------------------------------------------------------------------------
(* What the operators of the model return.                                 *)

LEMMA KindFacts ==
  /\ Feed \in Key /\ Feed \in Object /\ Desc \in Object /\ Desc \notin Key
  /\ Override \subseteq Key /\ Key \subseteq Object /\ Sub \subseteq Object
  /\ \A k \in Key : k # Feed => k \in Override
  /\ \A o \in Override : o # Feed /\ o # Desc /\ o \notin Sub
  /\ \A s \in Sub : s # Feed /\ s # Desc /\ s \notin Key
  /\ Feed # Desc /\ Feed # Other
  /\ OfKind(Feed) = FeedRecord /\ OfKind(Desc) = DescRecord
  /\ \A o \in Override : OfKind(o) = OverrideRecord
  /\ \A s \in Sub : OfKind(s) = SubRecord
  /\ \A k \in Object : k = Feed \/ k \in Override \/ k \in Sub \/ k = Desc
BY ObjectAssumption DEF Override, Key, Object, OfKind

(* A list has the feed at most once. *)
LEMMA ListFacts ==
  ASSUME NEW l \in List
  PROVE  /\ l \in Seq({Feed, Other}) /\ Len(l) \in 0..2
         /\ \A i, j \in DOMAIN l : l[i] = l[j] => i = j
<1> USE KindFacts
<1>1. CASE l = <<>>
  BY <1>1
<1>2. CASE l = <<Feed>>
  BY <1>2
<1>3. CASE l = <<Other>>
  BY <1>3
<1>4. CASE l = <<Feed, Other>>
  BY <1>4
<1>5. CASE l = <<Other, Feed>>
  BY <1>5
<1>. QED  BY <1>1, <1>2, <1>3, <1>4, <1>5 DEF List

LEMMA IndexFacts ==
  ASSUME NEW l \in List, Feed \in ToSet(l)
  PROVE  FeedIndex(l) \in 1..Len(l) /\ l[FeedIndex(l)] = Feed
<1>1. PICK i \in DOMAIN l : l[i] = Feed
  BY DEF ToSet
<1>2. l \in Seq({Feed, Other}) /\ Len(l) \in 0..2
  BY ListFacts
<1> DEFINE I == {j \in 1..Len(l) : l[j] = Feed}
<1>3. FeedIndex(l) = Min(I)
  BY <1>1, <1>2 DEF FeedIndex, SelectInSeq
<1>4. I \subseteq {1, 2} /\ I # {}
  BY <1>1, <1>2
<1>5. \E m \in I : \A j \in I : m <= j
  BY <1>4
<1>. QED  BY <1>3, <1>5 DEF Min

LEMMA OneOf ==
  ASSUME NEW S, NEW s \in Seq(S), NEW i \in 1..Len(s)
  PROVE  SubSeq(s, i, i) = <<s[i]>>
<1> DEFINE t == SubSeq(s, i, i)
<1>1. s[i] \in S /\ i \in Int /\ \A j \in i..i : s[j] \in S
  BY ElementOfSeq
<1>2. t \in Seq(S) /\ Len(t) = 1 /\ t[1] = s[i]
  BY <1>1, SubSeqProperties
<1> HIDE DEF t
<1>3. t = <<s[i]>>
  BY <1>1, <1>2
<1>. QED  BY <1>3 DEF t

(* ... and has lost it once it is removed there. *)
LEMMA RemoveFacts ==
  ASSUME NEW l \in List, NEW i \in DOMAIN l
  PROVE  /\ RemoveAt(l, i) \in List
         /\ l[i] = Feed => Feed \notin ToSet(RemoveAt(l, i))
<1> USE KindFacts
<1>1. l \in Seq({Feed, Other}) /\ Len(l) \in 0..2 /\ i \in 1..Len(l)
  BY ListFacts
<1>2. CASE l = <<>>
  BY <1>1, <1>2
<1>3. CASE \E e \in {Feed, Other} : l = <<e>>
  <2>1. RemoveAt(l, i) = <<>>
    BY <1>1, <1>3 DEF RemoveAt
  <2>. QED  BY <2>1 DEF List, ToSet
<1>4. CASE \E e, f \in {Feed, Other} : e # f /\ l = <<e, f>>
  <2>1. PICK e, f \in {Feed, Other} : e # f /\ l = <<e, f>>
    BY <1>4
  <2>2. Len(l) = 2 /\ l[1] = e /\ l[2] = f
    BY <2>1
  <2>3. SubSeq(l, 1, 1) = <<e>> /\ SubSeq(l, 2, 2) = <<f>>
    BY <1>1, <2>2, OneOf
  <2>4. CASE i = 1
    <3>1. SubSeq(l, 1, i-1) = <<>>
      BY <2>4, SubSeqEmpty
    <3>2. SubSeq(l, i+1, Len(l)) = <<f>>
      <4>1. i + 1 = 2
        BY <2>4
      <4>. QED  BY <4>1, <2>2, <2>3
    <3>3. RemoveAt(l, i) = <<f>>
      <4>1. \A x \in {Feed, Other} : <<x>> \in Seq({Feed, Other})
        OBVIOUS
      <4>. QED  BY <3>1, <3>2, <4>1, ConcatEmptySeq, <2>1 DEF RemoveAt
    <3>. QED  BY <2>1, <2>4, <3>3 DEF List, ToSet
  <2>5. CASE i = 2
    <3>1. SubSeq(l, i+1, Len(l)) = <<>>
      BY <1>1, <2>1, <2>5, SubSeqEmpty
    <3>2. SubSeq(l, 1, i-1) = <<e>>
      <4>1. i - 1 = 1
        BY <2>5
      <4>. QED  BY <4>1, <2>3
    <3>3. RemoveAt(l, i) = <<e>>
      <4>1. \A x \in {Feed, Other} : <<x>> \in Seq({Feed, Other})
        OBVIOUS
      <4>. QED  BY <3>1, <3>2, <4>1, ConcatEmptySeq, <2>1 DEF RemoveAt
    <3>. QED  BY <2>1, <2>5, <3>3 DEF List, ToSet
  <2>. QED  BY <1>1, <2>2, <2>4, <2>5
<1>. QED  BY <1>2, <1>3, <1>4 DEF List

(* Precedes is a strict order in which no two overrides are equal. *)
LEMMA PrecedesFacts ==
  /\ \A a \in Override : ~Precedes(a, a)
  /\ \A a, b \in Override : a # b => Precedes(a, b) \/ Precedes(b, a)
  /\ \A a, b, c \in Override : Precedes(a, b) /\ Precedes(b, c) => Precedes(a, c)
<1>1. \A a \in Override : Priority[a] \in Nat /\ ((a \in Glob) # (a \in Loc))
  BY ConfigAssumption, ObjectAssumption DEF Override
<1>2. \A a, b \in Override : Priority[a] = Priority[b] /\ a # b => (a \in Glob) # (b \in Glob)
  BY ConfigAssumption
<1>. QED  BY <1>1, <1>2 DEF Precedes

(* Hence a set of overrides can be sorted: each goes to the place that     *)
(* those before it leave.                                                  *)
LEMMA SortFacts ==
  ASSUME NEW os \in SUBSET Override
  PROVE  /\ Cardinality(os) \in Nat
         /\ Sorted(os) \in [1..Cardinality(os) -> os]
         /\ \A o \in os : \E i \in 1..Cardinality(os) : Sorted(os)[i] = o
         /\ \A i, j \in 1..Cardinality(os) : i < j => Precedes(Sorted(os)[i], Sorted(os)[j])
<1> DEFINE n == Cardinality(os)
           before(o) == {p \in os : Precedes(p, o)}
           rank == [o \in os |-> Cardinality(before(o)) + 1]
           s == [i \in 1..n |-> CHOOSE o \in os : rank[o] = i]
<1>1. IsFiniteSet(os) /\ n \in Nat
  <2>1. IsFiniteSet(Override)
    BY ObjectAssumption, FS_Union DEF Override
  <2>. QED  BY <2>1, FS_Subset, FS_CardinalityType
<1>2. \A o \in os : IsFiniteSet(before(o)) /\ Cardinality(before(o)) \in Nat
  BY <1>1, FS_Subset, FS_CardinalityType
<1>3. ASSUME NEW o \in os PROVE rank[o] \in 1..n
  <2>1. before(o) \in SUBSET os /\ before(o) # os
    BY PrecedesFacts
  <2>2. Cardinality(before(o)) <= n /\ Cardinality(before(o)) # n
    BY <1>1, <2>1, FS_Subset
  <2>. QED  BY <1>1, <1>2, <2>2
<1>4. ASSUME NEW a \in os, NEW b \in os, Precedes(a, b) PROVE rank[a] < rank[b]
  <2>1. before(a) \in SUBSET before(b) /\ a \in before(b) /\ a \notin before(a)
    BY <1>4, PrecedesFacts
  <2>2. Cardinality(before(a)) <= Cardinality(before(b))
        /\ Cardinality(before(a)) # Cardinality(before(b))
    BY <1>2, <2>1, FS_Subset
  <2>. QED  BY <1>2, <2>2
<1> HIDE DEF rank, before
<1>5. rank \in [os -> 1..n] /\ \A a, b \in os : rank[a] = rank[b] => a = b
  <2>1. rank \in [os -> 1..n]
    BY <1>3 DEF rank
  <2>. QED  BY <1>1, <1>3, <1>4, <2>1, PrecedesFacts
<1>6. \A i \in 1..n : \E o \in os : rank[o] = i
  <2>1. rank \in Injection(os, 1..n)
    BY <1>5 DEF Injection, IsInjective
  <2>2. IsFiniteSet(1..n) /\ Cardinality(1..n) = n
    BY <1>1, FS_Interval
  <2>3. rank \in Surjection(os, 1..n)
    BY <2>1, <2>2, FS_Injection
  <2>. QED  BY <2>3 DEF Surjection
<1>7. \A i \in 1..n : s[i] \in os /\ rank[s[i]] = i
  BY <1>6
<1>8. s \in SetToSeqs(os)
  BY <1>1, <1>7 DEF SetToSeqs
<1>9. \A i, j \in DOMAIN s : i < j => Precedes(s[i], s[j])
  <2> SUFFICES ASSUME NEW i \in 1..n, NEW j \in 1..n, i < j PROVE Precedes(s[i], s[j])
    OBVIOUS
  <2>1. s[i] \in os /\ s[j] \in os /\ rank[s[i]] = i /\ rank[s[j]] = j
    BY <1>7
  <2>2. s[i] # s[j] /\ ~Precedes(s[j], s[i])
    BY <1>4, <2>1
  <2>. QED  BY <2>1, <2>2, PrecedesFacts
<1> DEFINE t == Sorted(os)
<1> HIDE DEF s
<1>10. t \in SetToSeqs(os) /\ \A i, j \in DOMAIN t : i < j => Precedes(t[i], t[j])
  BY <1>8, <1>9 DEF Sorted
<1> HIDE DEF t
<1>11. t \in [1..n -> os] /\ \A i, j \in 1..n : i # j => t[i] # t[j]
  BY <1>10 DEF SetToSeqs
<1>12. \A o \in os : \E i \in 1..n : t[i] = o
  <2>1. t \in Injection(1..n, os)
    BY <1>11 DEF Injection, IsInjective
  <2>2. Cardinality(1..n) = n
    BY <1>1, FS_Interval
  <2>3. t \in Surjection(1..n, os)
    BY <1>1, <2>1, <2>2, FS_Injection
  <2>. QED  BY <2>3 DEF Surjection
<1>. QED  BY <1>1, <1>10, <1>11, <1>12 DEF t

LEMMA SeqFacts ==
  ASSUME NEW S, NEW k \in Nat, NEW f \in [1..k -> S]
  PROVE  f \in Seq(S) /\ Len(f) = k /\ DOMAIN f = 1..k
OBVIOUS

(* A sorted sequence of overrides with their values. *)
LEMMA AppliedFacts ==
  ASSUME NEW os \in SUBSET Override, NEW revs \in [Override -> Rev]
  PROVE  /\ Applied(os, revs) \in Seq([ov: Override, rev: Rev])
         /\ \A e : e \in ToSet(Applied(os, revs)) <=>
                   \E o \in os : e = [ov |-> o, rev |-> revs[o]]
         /\ InOrder(Applied(os, revs))
<1> DEFINE n == Cardinality(os)
           s == Sorted(os)
           a == Applied(os, revs)
<1>1. /\ n \in Nat /\ s \in [1..n -> os] /\ \A o \in os : \E i \in 1..n : s[i] = o
      /\ \A i, j \in 1..n : i < j => Precedes(s[i], s[j])
  BY SortFacts
<1>2. a = [i \in 1..n |-> [ov |-> s[i], rev |-> revs[s[i]]]]
  BY <1>1 DEF Applied
<1> HIDE DEF n, s, a
<1>3. \A i \in 1..n : a[i] = [ov |-> s[i], rev |-> revs[s[i]]] /\ s[i] \in os /\ s[i] \in Override
  BY <1>1, <1>2
<1>4. a \in [1..n -> [ov: Override, rev: Rev]]
  BY <1>2, <1>3
<1>5. a \in Seq([ov: Override, rev: Rev]) /\ DOMAIN a = 1..n
  BY <1>1, <1>4, SeqFacts
<1>6. \A e : e \in ToSet(a) <=> \E o \in os : e = [ov |-> o, rev |-> revs[o]]
  <2>1. ToSet(a) = {a[i] : i \in 1..n}
    BY <1>5 DEF ToSet
  <2>2. ASSUME NEW e, e \in ToSet(a) PROVE \E o \in os : e = [ov |-> o, rev |-> revs[o]]
    <3>1. PICK i \in 1..n : e = a[i]
      BY <2>1, <2>2
    <3>. QED  BY <1>3, <3>1
  <2>3. ASSUME NEW e, NEW o \in os, e = [ov |-> o, rev |-> revs[o]] PROVE e \in ToSet(a)
    <3>1. PICK i \in 1..n : s[i] = o
      BY <1>1
    <3>2. e = a[i]
      BY <1>3, <2>3, <3>1
    <3>. QED  BY <2>1, <3>2
  <2>. QED  BY <2>2, <2>3
<1>7. InOrder(a)
  <2>1. \A x, y \in Override : Precedes(x, y) =>
          \/ x \in Glob /\ y \in Loc
          \/ Priority[x] < Priority[y] /\ \E kind \in {Glob, Loc} : {x, y} \subseteq kind
    <3> SUFFICES ASSUME NEW x \in Override, NEW y \in Override, Precedes(x, y),
                        ~(x \in Glob /\ y \in Loc)
                 PROVE  Priority[x] < Priority[y] /\ \E kind \in {Glob, Loc} : {x, y} \subseteq kind
      OBVIOUS
    <3>1. Priority[x] < Priority[y] /\ (x \in Glob) = (y \in Glob)
      BY DEF Precedes
    <3>2. CASE x \in Glob
      <4>1. y \in Glob
        BY <3>1, <3>2
      <4>. QED  BY <3>1, <3>2, <4>1
    <3>3. CASE x \notin Glob
      <4>1. y \notin Glob
        BY <3>1, <3>3
      <4>2. x \in Loc /\ y \in Loc
        BY <3>3, <4>1 DEF Override
      <4>. QED  BY <3>1, <4>2
    <3>. QED  BY <3>2, <3>3
  <2>2. ASSUME NEW i \in 1..n PROVE a[i].ov = s[i]
    <3>1. a[i] = [ov |-> s[i], rev |-> revs[s[i]]]
      BY <1>3
    <3>. QED  BY <3>1
  <2>. QED  BY <1>1, <1>3, <1>5, <2>1, <2>2 DEF InOrder
<1>. QED  BY <1>5, <1>6, <1>7 DEF a

-----------------------------------------------------------------------------
(* The parts of a step.                                                    *)

LEMMA TypeInvTypeOK == TypeInv => TypeOK
<1> SUFFICES ASSUME TypeInv PROVE TypeOK
  OBVIOUS
<1>1. \A k \in Object : \A i \in DOMAIN watch[k] : watch[k][i] \in OfKind(k)
  BY ElementOfSeq, LenProperties DEF TypeInv, StoreOK
<1>2. scenario.left \in 0..MaxEvents
  BY DEF TypeInv, EventsOK, ScenarioType
<1>3. \A k \in Key : job[k] # None =>
        /\ job[k].pc \in Step /\ job[k].target \in FeedRecord /\ job[k].obj \in OfKind(k)
        /\ job[k].todo \subseteq [sub: Sub, list: List]
  BY DEF TypeInv, WorkOK, JobOK, JobRecord
<1>. QED  BY <1>1, <1>2, <1>3 DEF TypeInv, StoreOK, WorkOK, HistOK, TypeOK

(* A new version differs only in its number. *)
Bumped(o) == [o EXCEPT !.rv = @ + 1]

LEMMA FeedVersion ==
  ASSUME NEW o \in FeedRecord
  PROVE  LET p == Bumped(o) IN
         /\ p \in FeedRecord /\ p.rv = o.rv + 1 /\ p.phase = o.phase /\ p.rev = o.rev
         /\ p.fin = o.fin /\ p.prot = o.prot /\ p.status = o.status /\ p.note = o.note
<1> DEFINE p == Bumped(o)
<1>1. o.rv \in Nat /\ o.rv + 1 \in Nat
  BY DEF FeedRecord
<1>2. p \in FeedRecord
  BY <1>1 DEF FeedRecord, Bumped
<1>3. p.rv = o.rv + 1 /\ p.phase = o.phase /\ p.rev = o.rev
  BY <1>1 DEF FeedRecord, Bumped
<1>4. p.fin = o.fin /\ p.prot = o.prot /\ p.status = o.status /\ p.note = o.note
  BY <1>1 DEF FeedRecord, Bumped
<1>. QED  BY <1>2, <1>3, <1>4

LEMMA OverrideVersion ==
  ASSUME NEW o \in OverrideRecord
  PROVE  LET p == Bumped(o) IN
         /\ p \in OverrideRecord /\ p.rv = o.rv + 1 /\ p.phase = o.phase /\ p.rev = o.rev
         /\ p.fin = o.fin /\ p.lab = o.lab /\ p.valid = o.valid
BY DEF OverrideRecord, Bumped

LEMMA SubVersion ==
  ASSUME NEW o \in SubRecord
  PROVE  LET p == Bumped(o) IN
         /\ p \in SubRecord /\ p.rv = o.rv + 1 /\ p.phase = o.phase /\ p.list = o.list
BY DEF SubRecord, Bumped

LEMMA DescVersion ==
  ASSUME NEW o \in DescRecord
  PROVE  LET p == Bumped(o) IN
         p \in DescRecord /\ p.rv = o.rv + 1 /\ p.value = o.value
BY DEF DescRecord, Bumped

LEMMA VersionTyped ==
  ASSUME NEW k \in Object, NEW o \in OfKind(k)
  PROVE  Bumped(o) \in OfKind(k)
BY KindFacts, FeedVersion, OverrideVersion, SubVersion, DescVersion

(* What Write does: nothing, or a new version that is watched. *)
Untouched(K) == \A j \in K : api'[j] = api[j] /\ watch'[j] = watch[j]

LEMMA WriteFacts ==
  ASSUME StoreOK, NEW k \in Object, NEW o \in OfKind(k), Write(k, o)
  PROVE  /\ Untouched(Object \ {k})
         /\ DOMAIN api' = Object /\ DOMAIN watch' = Object
         /\ api'[k] \in OfKind(k) /\ watch'[k] \in Seq(OfKind(k))
         /\ \/ api'[k] = api[k] /\ watch'[k] = watch[k] /\ o = api[k]
            \/ api'[k] = Bumped(o) /\ watch'[k] = Append(watch[k], api'[k])
<1>1. CASE o = api[k]
  BY <1>1 DEF Write, apiVars, StoreOK, Untouched
<1>2. CASE o # api[k]
  <2> DEFINE p == Bumped(o)
  <2>1. p \in OfKind(k)
    BY VersionTyped
  <2>2. api' = [api EXCEPT ![k] = p] /\ watch' = [watch EXCEPT ![k] = Append(@, api'[k])]
    BY <1>2 DEF Write, Bumped
  <2> HIDE DEF p
  <2>3. api'[k] = p /\ watch'[k] = Append(watch[k], p) /\ Untouched(Object \ {k})
        /\ DOMAIN api' = Object /\ DOMAIN watch' = Object
    BY <2>2 DEF StoreOK, Untouched
  <2>4. watch'[k] \in Seq(OfKind(k))
    BY <2>1, <2>3 DEF StoreOK
  <2>. QED  BY <2>1, <2>3, <2>4 DEF p
<1>. QED  BY <1>1, <1>2

LEMMA StoreFrame ==
  ASSUME StoreOK, NEW k \in Object, Untouched(Object \ {k}),
         DOMAIN api' = Object, DOMAIN watch' = Object,
         api'[k] \in OfKind(k), watch'[k] \in Seq(OfKind(k)),
         DOMAIN cache' = Object, \A j \in Object : cache'[j] \in OfKind(j)
  PROVE  StoreOK'
<1>1. \A j \in Object : api'[j] \in OfKind(j) /\ watch'[j] \in Seq(OfKind(j))
  BY DEF StoreOK, Untouched
<1>. QED  BY <1>1 DEF StoreOK

(* What becomes of the work of the others: nothing. *)
Others(k) ==
  /\ DOMAIN job' = Key /\ queue' \subseteq Key
  /\ \A j \in Key \ {k} : job'[j] = job[j] /\ (j \in queue' <=> j \in queue)

LEMMA RequeueFacts ==
  ASSUME WorkOK, NEW k \in Key, Requeue(k)
  PROVE  Others(k) /\ job'[k] = None /\ k \in queue'
BY DEF WorkOK, Requeue, Others

LEMMA GoToFacts ==
  ASSUME WorkOK, NEW k \in Key, NEW j, GoTo(k, j)
  PROVE  Others(k) /\ job'[k] = j /\ queue' = queue
BY DEF WorkOK, GoTo, Others

LEMMA WorkFrame ==
  ASSUME WorkOK, NEW k \in Key, Others(k),
         job'[k] # None => JobOK(k, job'[k])
  PROVE  WorkOK'
BY DEF WorkOK, Others

LEMMA JobFields ==
  ASSUME NEW j \in JobRecord
  PROVE  /\ j # None /\ j.pc \in Step /\ j.obj \in FeedRecord \cup OverrideRecord
         /\ j.target \in FeedRecord /\ j.origin \in {"lister", "answer"}
         /\ j.want \in Value /\ j.todo \in SUBSET [sub: Sub, list: List]
         /\ j.failed \in BOOLEAN
BY NoneAssumption DEF JobRecord

(* The next step of a job ... *)
LEMMA NextStep ==
  ASSUME NEW j \in JobRecord, NEW p \in Step
  PROVE  LET i == [j EXCEPT !.pc = p] IN
         /\ i \in JobRecord /\ i # None /\ i.pc = p /\ i.obj = j.obj /\ i.origin = j.origin
         /\ i.want = j.want /\ i.todo = j.todo /\ i.failed = j.failed /\ i.target = j.target
<1> DEFINE i == [j EXCEPT !.pc = p]
<1>1. i \in JobRecord
  BY DEF JobRecord
<1>2. i.pc = p /\ i.obj = j.obj /\ i.origin = j.origin
  BY DEF JobRecord
<1>3. i.want = j.want /\ i.todo = j.todo /\ i.failed = j.failed /\ i.target = j.target
  BY DEF JobRecord
<1>. QED  BY <1>1, <1>2, <1>3, NoneAssumption

(* ... with the answer to a request, ... *)
Answered(j, p, o) == [j EXCEPT !.pc = p, !.obj = o, !.origin = "answer"]

LEMMA AnswerStep ==
  ASSUME NEW j \in JobRecord, NEW p \in Step, NEW o \in FeedRecord \cup OverrideRecord
  PROVE  LET i == Answered(j, p, o) IN
         /\ i \in JobRecord /\ i # None /\ i.pc = p /\ i.obj = o /\ i.origin = "answer"
         /\ i.want = j.want /\ i.todo = j.todo /\ i.failed = j.failed
<1> DEFINE i == Answered(j, p, o)
<1>1. i \in JobRecord
  BY DEF JobRecord, Answered
<1>2. i.pc = p /\ i.obj = o /\ i.origin = "answer"
  BY DEF JobRecord, Answered
<1>3. i.want = j.want /\ i.todo = j.todo /\ i.failed = j.failed
  BY DEF JobRecord, Answered
<1>. QED  BY <1>1, <1>2, <1>3, NoneAssumption

(* ... for this version of the feed, ... *)
Handling(j, p, f) == [j EXCEPT !.pc = p, !.target = f]

LEMMA TargetStep ==
  ASSUME NEW j \in JobRecord, NEW p \in Step, NEW f \in FeedRecord
  PROVE  LET i == Handling(j, p, f) IN
         /\ i \in JobRecord /\ i # None /\ i.pc = p /\ i.obj = j.obj /\ i.origin = j.origin
         /\ i.want = j.want /\ i.todo = j.todo /\ i.failed = j.failed
<1> DEFINE i == Handling(j, p, f)
<1>1. i \in JobRecord
  BY DEF JobRecord, Handling
<1>2. i.pc = p /\ i.obj = j.obj /\ i.origin = j.origin
  BY DEF JobRecord, Handling
<1>3. i.want = j.want /\ i.todo = j.todo /\ i.failed = j.failed
  BY DEF JobRecord, Handling
<1>. QED  BY <1>1, <1>2, <1>3, NoneAssumption

(* ... to retry with this status, ... *)
Retrying(j, v) == [j EXCEPT !.pc = "restatus", !.target.status = v]

LEMMA StatusStep ==
  ASSUME NEW j \in JobRecord, NEW v \in {"Found", "NotFound"}
  PROVE  LET i == Retrying(j, v)
             p == "restatus" IN
         /\ i \in JobRecord /\ i # None /\ i.pc = p /\ i.obj = j.obj /\ i.origin = j.origin
         /\ i.want = j.want /\ i.todo = j.todo /\ i.failed = j.failed
<1> DEFINE f == [j.target EXCEPT !.status = v]
           p == "restatus"
           i == Retrying(j, v)
<1>1. f \in FeedRecord
  BY JobFields DEF FeedRecord
<1>2. i = [j EXCEPT !.pc = p, !.target = f]
  BY DEF JobRecord, Retrying
<1> DEFINE h == [j EXCEPT !.pc = p, !.target = f]
<1> HIDE DEF f
<1>3. h \in JobRecord
  BY <1>1 DEF JobRecord, Step
<1>4. h.pc = p /\ h.obj = j.obj /\ h.origin = j.origin
  BY DEF JobRecord
<1>5. h.want = j.want /\ h.todo = j.todo /\ h.failed = j.failed
  BY DEF JobRecord
<1>. QED  BY <1>2, <1>3, <1>4, <1>5, NoneAssumption

(* ... with a result, ... *)
Wanting(j, p, v) == [j EXCEPT !.pc = p, !.want = v]

LEMMA WantStep ==
  ASSUME NEW j \in JobRecord, NEW p \in Step, NEW v \in Value
  PROVE  LET i == Wanting(j, p, v) IN
         /\ i \in JobRecord /\ i # None /\ i.pc = p /\ i.obj = j.obj /\ i.origin = j.origin
         /\ i.want = v /\ i.todo = j.todo /\ i.failed = j.failed
<1> DEFINE i == Wanting(j, p, v)
<1>1. i \in JobRecord
  BY DEF JobRecord, Wanting
<1>2. i.pc = p /\ i.obj = j.obj /\ i.origin = j.origin
  BY DEF JobRecord, Wanting
<1>3. i.want = v /\ i.todo = j.todo /\ i.failed = j.failed
  BY DEF JobRecord, Wanting
<1>. QED  BY <1>1, <1>2, <1>3, NoneAssumption

(* ... with Subscriptions to patch, ... *)
TodoType == SUBSET [sub: Sub, list: List]
Doing(j, p, d) == [j EXCEPT !.pc = p, !.failed = FALSE, !.todo = d]

LEMMA TodoStep ==
  ASSUME NEW j \in JobRecord, NEW p \in Step, NEW d \in TodoType
  PROVE  LET i == Doing(j, p, d) IN
         /\ i \in JobRecord /\ i # None /\ i.pc = p /\ i.obj = j.obj /\ i.origin = j.origin
         /\ i.want = j.want /\ i.todo = d
<1> DEFINE i == Doing(j, p, d)
<1>1. i \in JobRecord
  BY DEF TodoType, JobRecord, Doing
<1>2. i.pc = p /\ i.obj = j.obj /\ i.origin = j.origin
  BY DEF TodoType, JobRecord, Doing
<1>3. i.want = j.want /\ i.todo = d
  BY DEF TodoType, JobRecord, Doing
<1>. QED  BY <1>1, <1>2, <1>3, NoneAssumption

(* ... and one of them done. *)
LEMMA UnlistedFacts ==
  ASSUME NEW k \in Key, job[k] \in JobRecord, NEW t, NEW ok \in BOOLEAN
  PROVE  LET i == Unlisted(k, t, ok)
             j == job[k] IN
         /\ i \in JobRecord /\ i # None /\ i.pc = j.pc /\ i.obj = j.obj /\ i.origin = j.origin
         /\ i.want = j.want /\ i.todo = j.todo \ {t} /\ i.failed = (j.failed \/ ~ok)
<1> DEFINE j == job[k]
           d == j.todo \ {t}
           f == j.failed \/ ~ok
           i == [j EXCEPT !.todo = d, !.failed = f]
<1>1. d \in SUBSET [sub: Sub, list: List] /\ f \in BOOLEAN
  BY JobFields
<1> HIDE DEF d, f
<1>2. i \in JobRecord
  BY <1>1 DEF JobRecord
<1>3. i.pc = j.pc /\ i.obj = j.obj /\ i.origin = j.origin
  BY DEF JobRecord
<1>4. i.want = j.want /\ i.todo = d /\ i.failed = f
  BY DEF JobRecord
<1>5. Unlisted(k, t, ok) = i
  BY DEF Unlisted, JobRecord, d, f
<1>. QED  BY <1>2, <1>3, <1>4, <1>5, NoneAssumption DEF d, f

(* The end of a callback. *)
Returned(k) ==
  \/ job'[k] = None
  \/ /\ k \in Override /\ job[k].obj.phase = "deleting"
     /\ job'[k] \in JobRecord /\ job'[k] # None /\ job'[k].pc = "release"
     /\ job'[k].obj = job[k].obj /\ job'[k].origin = job[k].origin
     /\ job'[k].want = job[k].want /\ job'[k].todo = job[k].todo

LEMMA ReturnFacts ==
  ASSUME WorkOK, NEW k \in Key, job[k] # None, Return(k)
  PROVE  Others(k) /\ queue' = queue /\ Returned(k)
<1>1. job[k] \in JobRecord
  BY DEF WorkOK, JobOK
<1>2. CASE k # Feed /\ job[k].obj.phase = "deleting"
  <2> DEFINE i == [job[k] EXCEPT !.pc = "release"]
  <2>1. GoTo(k, i)
    BY <1>2 DEF Return
  <2>2. /\ i \in JobRecord /\ i # None /\ i.pc = "release" /\ i.obj = job[k].obj
        /\ i.origin = job[k].origin /\ i.want = job[k].want /\ i.todo = job[k].todo
    BY <1>1, NextStep DEF Step
  <2> HIDE DEF i
  <2>. QED  BY <1>2, <2>1, <2>2, GoToFacts, KindFacts DEF Returned
<1>3. CASE ~(k # Feed /\ job[k].obj.phase = "deleting")
  <2>1. GoTo(k, None)
    BY <1>3 DEF Return
  <2>. QED  BY <2>1, GoToFacts DEF Returned
<1>. QED  BY <1>2, <1>3

-----------------------------------------------------------------------------
(* Every step keeps the types.                                             *)

LEMMA EventFacts ==
  ASSUME EventsOK, NEW kind, Event(kind)
  PROVE  /\ scenario' \in ScenarioType /\ scenario'.left = scenario.left - 1
         /\ scenario.left \in Nat /\ scenario'.left \in Nat
         /\ scenario'.kind = scenario.kind /\ scenario'.later = scenario.later
<1>1. scenario \in ScenarioType /\ scenario.left \in 0..MaxEvents /\ scenario.left > 0
  BY DEF EventsOK, Event, ScenarioType
<1>2. scenario.left - 1 \in 0..MaxEvents
  BY <1>1, ConfigAssumption
<1>3. scenario' = [scenario EXCEPT !.left = scenario.left - 1]
  BY DEF Event
<1>4. scenario' \in ScenarioType
  BY <1>1, <1>2, <1>3 DEF ScenarioType
<1>5. scenario'.left = scenario.left - 1 /\ scenario'.kind = scenario.kind
      /\ scenario'.later = scenario.later
  BY <1>1, <1>3 DEF ScenarioType
<1>. QED  BY <1>1, <1>2, <1>4, <1>5, ConfigAssumption

(* What is stored, spelled out. *)
LEMMA StoredFacts ==
  ASSUME StoreOK
  PROVE  /\ api[Feed] \in FeedRecord /\ cache[Feed] \in FeedRecord
         /\ watch[Feed] \in Seq(FeedRecord)
         /\ \A o \in Override : /\ api[o] \in OverrideRecord /\ cache[o] \in OverrideRecord
                                /\ watch[o] \in Seq(OverrideRecord)
         /\ \A s \in Sub : /\ api[s] \in SubRecord /\ cache[s] \in SubRecord
                           /\ watch[s] \in Seq(SubRecord)
         /\ api[Desc] \in DescRecord /\ cache[Desc] \in DescRecord
         /\ watch[Desc] \in Seq(DescRecord)
BY KindFacts DEF StoreOK

LEMMA RevFacts ==
  ASSUME StoreOK
  PROVE  \A k \in Key : api[k].rev \in Nat /\ cache[k].rev \in Rev
<1>1. \A k \in Key : api[k].rev \in Rev /\ cache[k].rev \in Rev
  BY StoredFacts, KindFacts DEF FeedRecord, OverrideRecord
<1>. QED  BY <1>1, ConfigAssumption DEF Rev

(* What is written to a feed, ... *)
LEMMA WriteFeedFacts ==
  ASSUME StoreOK, NEW o \in FeedRecord, Write(Feed, o)
  PROVE  /\ Untouched(Object \ {Feed})
         /\ DOMAIN api' = Object /\ DOMAIN watch' = Object
         /\ api'[Feed] \in FeedRecord /\ watch'[Feed] \in Seq(FeedRecord)
         /\ api'[Feed].phase = o.phase /\ api'[Feed].rev = o.rev
         /\ \/ api'[Feed] = api[Feed] /\ watch'[Feed] = watch[Feed]
            \/ watch'[Feed] = Append(watch[Feed], api'[Feed])
<1>1. o \in OfKind(Feed) /\ Feed \in Object
  BY KindFacts
<1> DEFINE p == Bumped(o)
<1>2. p.phase = o.phase /\ p.rev = o.rev
  BY FeedVersion
<1>3. \/ api'[Feed] = api[Feed] /\ watch'[Feed] = watch[Feed] /\ o = api[Feed]
      \/ api'[Feed] = p /\ watch'[Feed] = Append(watch[Feed], api'[Feed])
  BY <1>1, WriteFacts
<1> HIDE DEF p
<1>4. api'[Feed].phase = o.phase /\ api'[Feed].rev = o.rev
  BY <1>2, <1>3
<1>. QED  BY <1>1, <1>3, <1>4, WriteFacts, KindFacts

(* ... to an override, ... *)
LEMMA WriteOverrideFacts ==
  ASSUME StoreOK, NEW k \in Override, NEW o \in OverrideRecord, Write(k, o)
  PROVE  /\ Untouched(Object \ {k})
         /\ DOMAIN api' = Object /\ DOMAIN watch' = Object
         /\ api'[k] \in OverrideRecord /\ watch'[k] \in Seq(OverrideRecord)
         /\ api'[k].phase = o.phase /\ api'[k].rev = o.rev /\ api'[k].lab = o.lab
         /\ \/ api'[k] = api[k] /\ watch'[k] = watch[k]
            \/ watch'[k] = Append(watch[k], api'[k])
<1>1. o \in OfKind(k) /\ k \in Object
  BY KindFacts
<1> DEFINE p == Bumped(o)
<1>2. p.phase = o.phase /\ p.rev = o.rev /\ p.lab = o.lab
  BY OverrideVersion
<1>3. \/ api'[k] = api[k] /\ watch'[k] = watch[k] /\ o = api[k]
      \/ api'[k] = p /\ watch'[k] = Append(watch[k], api'[k])
  BY <1>1, WriteFacts
<1> HIDE DEF p
<1>4. api'[k].phase = o.phase /\ api'[k].rev = o.rev /\ api'[k].lab = o.lab
  BY <1>2, <1>3
<1>. QED  BY <1>1, <1>3, <1>4, WriteFacts, KindFacts, ZenonT(60)

(* ... to a Subscription ... *)
LEMMA WriteSubFacts ==
  ASSUME StoreOK, NEW k \in Sub, NEW o \in SubRecord, Write(k, o)
  PROVE  /\ Untouched(Object \ {k})
         /\ DOMAIN api' = Object /\ DOMAIN watch' = Object
         /\ api'[k] \in SubRecord /\ watch'[k] \in Seq(SubRecord)
         /\ api'[k].phase = o.phase /\ api'[k].list = o.list
         /\ \/ api'[k] = api[k] /\ watch'[k] = watch[k]
            \/ watch'[k] = Append(watch[k], api'[k])
<1>1. o \in OfKind(k) /\ k \in Object
  BY KindFacts
<1> DEFINE p == Bumped(o)
<1>2. p.phase = o.phase /\ p.list = o.list
  BY SubVersion
<1>3. \/ api'[k] = api[k] /\ watch'[k] = watch[k] /\ o = api[k]
      \/ api'[k] = p /\ watch'[k] = Append(watch[k], api'[k])
  BY <1>1, WriteFacts
<1> HIDE DEF p
<1>4. api'[k].phase = o.phase /\ api'[k].list = o.list
  BY <1>2, <1>3
<1>. QED  BY <1>1, <1>3, <1>4, WriteFacts, KindFacts

(* ... and to the Description. *)
LEMMA WriteDescFacts ==
  ASSUME StoreOK, NEW o \in DescRecord, Write(Desc, o)
  PROVE  /\ Untouched(Object \ {Desc})
         /\ DOMAIN api' = Object /\ DOMAIN watch' = Object
         /\ api'[Desc] \in DescRecord /\ watch'[Desc] \in Seq(DescRecord)
         /\ api'[Desc].value = o.value
<1>1. o \in OfKind(Desc) /\ Desc \in Object
  BY KindFacts
<1> DEFINE p == Bumped(o)
<1>2. p.value = o.value
  BY DescVersion
<1>3. \/ api'[Desc] = api[Desc] /\ o = api[Desc]
      \/ api'[Desc] = p
  BY <1>1, WriteFacts
<1> HIDE DEF p
<1>4. api'[Desc].value = o.value
  BY <1>2, <1>3
<1>. QED  BY <1>1, <1>4, WriteFacts, KindFacts

-----------------------------------------------------------------------------
(* A step that delivers nothing: what it writes is on its way to the       *)
(* caches, and these keep what matters.                                    *)
Logged ==
  \A j \in Object : \/ api'[j] = api[j] /\ watch'[j] = watch[j]
                    \/ watch'[j] = Append(watch[j], api'[j])

StoreTyped ==
  /\ DOMAIN api' = Object /\ DOMAIN watch' = Object
  /\ \A j \in Object : api'[j] \in OfKind(j) /\ watch'[j] \in Seq(OfKind(j))

Cosmetic ==
  /\ DOMAIN cache' = Object /\ \A j \in Object : cache'[j] \in OfKind(j)
  /\ \A j \in Key : Agree(cache'[j], cache[j])
  /\ \A o \in Override : cache'[o].lab = cache[o].lab
  /\ \A s \in Sub : cache'[s] = cache[s]

SamePlan == scenario'.kind = scenario.kind /\ scenario'.later = scenario.later

Tick == scenario' = scenario \/ \E kind \in EventKind : Event(kind)

Quiet == TypeInv' /\ Logged /\ Cosmetic /\ SamePlan

FeedStays == api'[Feed].phase = api[Feed].phase
OverrideStays(o) ==
  /\ api'[o].phase = api[o].phase /\ api'[o].lab = api[o].lab
  /\ api[o].phase = "absent" => api'[o] = api[o] /\ watch'[o] = watch[o]
OverridesStay == \A o \in Override : OverrideStays(o)
SubsStay == \A s \in Sub : api'[s] = api[s] /\ watch'[s] = watch[s]
DescStays == api'[Desc].value = api[Desc].value
RevsStay == \A k \in Key : api'[k].rev = api[k].rev

Steady == StoreTyped /\ Logged /\ FeedStays /\ OverridesStay /\ SubsStay /\ DescStays /\ RevsStay
Calm == Quiet /\ FeedStays /\ OverridesStay /\ SubsStay /\ DescStays

WorkPart(k) == Others(k) /\ (job'[k] # None => JobOK(k, job'[k]))

LEMMA SamePart ==
  ASSUME TypeInv, UNCHANGED workVars, NEW k \in Key
  PROVE  WorkPart(k) /\ queue' = queue /\ job' = job
BY DEF TypeInv, WorkOK, workVars, WorkPart, Others

LEMMA TickFacts ==
  ASSUME TypeInv, Tick
  PROVE  /\ scenario' \in ScenarioType /\ SamePlan
         /\ scenario'.left \in Nat /\ scenario.left \in Nat /\ scenario'.left <= scenario.left
<1>1. scenario \in ScenarioType /\ scenario.left \in Nat
  BY ConfigAssumption DEF TypeInv, EventsOK, ScenarioType
<1>2. CASE scenario' = scenario
  BY <1>1, <1>2 DEF SamePlan
<1>3. CASE \E kind \in EventKind : Event(kind)
  <2>1. PICK kind : Event(kind)
    BY <1>3
  <2>. QED  BY <2>1, EventFacts DEF SamePlan, TypeInv
<1>. QED  BY <1>2, <1>3 DEF Tick

LEMMA QuietStep ==
  ASSUME TypeInv, StoreTyped, Logged, Cosmetic, NEW k \in Key, WorkPart(k), HistOK', EventsOK',
         SamePlan
  PROVE  Quiet
<1>1. StoreOK'
  BY DEF StoreTyped, Cosmetic, StoreOK
<1>2. WorkOK'
  BY WorkFrame DEF TypeInv, WorkPart
<1>. QED  BY <1>1, <1>2 DEF Quiet, TypeInv

LEMMA SteadyCalm ==
  ASSUME TypeInv, Steady, Cosmetic, NEW k \in Key, WorkPart(k), Tick, HistOK'
  PROVE  Calm
<1>1. EventsOK'
  <2>1. \A j \in Key : api'[j].rev + scenario'.left <= MaxEvents + 1
    BY TickFacts, RevFacts, ConfigAssumption DEF TypeInv, EventsOK, Steady, RevsStay
  <2>. QED  BY <2>1, TickFacts DEF EventsOK
<1>2. Quiet
  BY <1>1, QuietStep, TickFacts DEF Steady
<1>. QED  BY <1>2 DEF Calm, Steady

LEMMA CosmeticSame ==
  ASSUME TypeInv, UNCHANGED cache
  PROVE  Cosmetic
BY DEF TypeInv, StoreOK, Cosmetic, Agree

LEMMA SteadySame ==
  ASSUME TypeInv, UNCHANGED apiVars
  PROVE  Steady
BY DEF TypeInv, StoreOK, apiVars, Steady, StoreTyped, Logged, FeedStays, OverridesStay, OverrideStays, SubsStay,
       DescStays, RevsStay

LEMMA SteadyFeed ==
  ASSUME TypeInv, NEW o \in FeedRecord, Write(Feed, o),
         o.phase = api[Feed].phase, o.rev = api[Feed].rev
  PROVE  Steady
<1>1. StoreOK
  BY DEF TypeInv
<1>2. /\ Untouched(Object \ {Feed}) /\ DOMAIN api' = Object /\ DOMAIN watch' = Object
      /\ api'[Feed] \in FeedRecord /\ watch'[Feed] \in Seq(FeedRecord)
      /\ api'[Feed].phase = o.phase /\ api'[Feed].rev = o.rev
      /\ \/ api'[Feed] = api[Feed] /\ watch'[Feed] = watch[Feed]
         \/ watch'[Feed] = Append(watch[Feed], api'[Feed])
  BY <1>1, WriteFeedFacts
<1>3. StoreTyped
  BY <1>1, <1>2, KindFacts DEF StoreTyped, Untouched, StoreOK
<1>4. Logged
  BY <1>2 DEF Logged, Untouched
<1>5. FeedStays /\ OverridesStay /\ SubsStay /\ DescStays /\ RevsStay
  BY <1>2, KindFacts DEF Untouched, FeedStays, OverridesStay, OverrideStays, SubsStay, DescStays, RevsStay
<1>. QED  BY <1>3, <1>4, <1>5 DEF Steady

LEMMA SteadyOverride ==
  ASSUME TypeInv, NEW k \in Override, NEW o \in OverrideRecord, Write(k, o),
         o.phase = api[k].phase, o.rev = api[k].rev, o.lab = api[k].lab, api[k].phase # "absent"
  PROVE  Steady
<1>1. StoreOK
  BY DEF TypeInv
<1>2. /\ Untouched(Object \ {k}) /\ DOMAIN api' = Object /\ DOMAIN watch' = Object
      /\ api'[k] \in OverrideRecord /\ watch'[k] \in Seq(OverrideRecord)
      /\ api'[k].phase = o.phase /\ api'[k].rev = o.rev /\ api'[k].lab = o.lab
      /\ \/ api'[k] = api[k] /\ watch'[k] = watch[k]
         \/ watch'[k] = Append(watch[k], api'[k])
  BY <1>1, WriteOverrideFacts
<1>3. StoreTyped
  BY <1>1, <1>2, KindFacts DEF StoreTyped, Untouched, StoreOK
<1>4. Logged
  BY <1>2 DEF Logged, Untouched
<1>5. FeedStays /\ OverridesStay /\ SubsStay /\ DescStays /\ RevsStay
  BY <1>2, KindFacts DEF Untouched, FeedStays, OverridesStay, OverrideStays, SubsStay, DescStays, RevsStay
<1>. QED  BY <1>3, <1>4, <1>5 DEF Steady

(* What the hub does to an object in its cache touches neither. *)
LEMMA CosmeticFeed ==
  ASSUME TypeInv, NEW f \in FeedRecord, Agree(f, cache[Feed]), cache' = [cache EXCEPT ![Feed] = f]
  PROVE  Cosmetic
<1>1. cache'[Feed] = f /\ \A j \in Object \ {Feed} : cache'[j] = cache[j]
  BY KindFacts DEF TypeInv, StoreOK
<1>2. DOMAIN cache' = Object /\ \A j \in Object : cache'[j] \in OfKind(j)
  BY <1>1, KindFacts DEF TypeInv, StoreOK
<1>. QED  BY <1>1, <1>2, KindFacts DEF Cosmetic, Agree

LEMMA MutateChartFacts ==
  ASSUME TypeInv, NEW k, NEW v \in {"Found", "NotFound"}, MutateChart(k, v)
  PROVE  Cosmetic
<1>1. CASE cache' = cache
  BY <1>1, CosmeticSame
<1>2. CASE cache' # cache
  <2> DEFINE f == [cache[Feed] EXCEPT !.status = v]
  <2>1. cache[Feed] \in FeedRecord
    BY StoredFacts DEF TypeInv
  <2>2. f \in FeedRecord /\ Agree(f, cache[Feed])
    BY <2>1 DEF FeedRecord, Agree
  <2>3. cache' = [cache EXCEPT ![Feed] = f]
    BY <1>2 DEF MutateChart
  <2> HIDE DEF f
  <2>. QED  BY <2>2, <2>3, CosmeticFeed
<1>. QED  BY <1>1, <1>2

LEMMA MutateFinalizersFacts ==
  ASSUME TypeInv, NEW k, MutateFinalizers(k)
  PROVE  Cosmetic
<1>1. CASE cache' = cache
  BY <1>1, CosmeticSame
<1>2. CASE cache' # cache
  <2> DEFINE f == [cache[Feed] EXCEPT !.fin = FALSE, !.prot = FALSE]
  <2>1. cache[Feed] \in FeedRecord
    BY StoredFacts DEF TypeInv
  <2>2. f \in FeedRecord /\ Agree(f, cache[Feed])
    BY <2>1 DEF FeedRecord, Agree
  <2>3. cache' = [cache EXCEPT ![Feed] = f]
    BY <1>2, KindFacts DEF MutateFinalizers, TypeInv, StoreOK
  <2> HIDE DEF f
  <2>. QED  BY <2>2, <2>3, CosmeticFeed
<1>. QED  BY <1>1, <1>2

LEMMA MutateOverrideFacts ==
  ASSUME TypeInv, NEW k \in Override, MutateOverride(k)
  PROVE  Cosmetic
<1>1. CASE cache' = cache
  BY <1>1, CosmeticSame
<1>2. CASE cache' # cache
  <2> DEFINE f == [cache[k] EXCEPT !.fin = TRUE]
  <2>1. cache[k] \in OverrideRecord
    BY StoredFacts DEF TypeInv
  <2>2. f \in OverrideRecord /\ Agree(f, cache[k]) /\ f.lab = cache[k].lab
    BY <2>1 DEF OverrideRecord, Agree
  <2>3. cache' = [cache EXCEPT ![k] = f]
    BY <1>2 DEF MutateOverride
  <2> HIDE DEF f
  <2>4. cache'[k] = f /\ \A j \in Object \ {k} : cache'[j] = cache[j]
    BY <2>3, KindFacts DEF TypeInv, StoreOK
  <2>5. DOMAIN cache' = Object /\ \A j \in Object : cache'[j] \in OfKind(j)
    BY <2>2, <2>3, <2>4, KindFacts DEF TypeInv, StoreOK
  <2>. QED  BY <2>2, <2>4, <2>5, KindFacts DEF Cosmetic, Agree
<1>. QED  BY <1>1, <1>2

(* What the hub writes to the feed, short of removing it. *)
LEMMA StatusWrite ==
  ASSUME TypeInv, NEW v \in {"unset", "Found", "NotFound"}, WriteStatus(v)
  PROVE  Steady
<1> DEFINE o == [api[Feed] EXCEPT !.status = v]
<1>1. api[Feed] \in FeedRecord
  BY StoredFacts DEF TypeInv
<1>2. o \in FeedRecord /\ o.phase = api[Feed].phase /\ o.rev = api[Feed].rev
  BY <1>1 DEF FeedRecord
<1>3. Write(Feed, o)
  BY DEF WriteStatus
<1> HIDE DEF o
<1>. QED  BY <1>2, <1>3, SteadyFeed

LEMMA NoteWrite ==
  ASSUME TypeInv, NEW n \in SUBSET Sub, Write(Feed, [api[Feed] EXCEPT !.note = n])
  PROVE  Steady
<1> DEFINE o == [api[Feed] EXCEPT !.note = n]
<1>1. api[Feed] \in FeedRecord
  BY StoredFacts DEF TypeInv
<1>2. o \in FeedRecord /\ o.phase = api[Feed].phase /\ o.rev = api[Feed].rev
  BY <1>1 DEF FeedRecord
<1>3. Write(Feed, o)
  OBVIOUS
<1> HIDE DEF o
<1>. QED  BY <1>2, <1>3, SteadyFeed

LEMMA AdoptWrite ==
  ASSUME TypeInv, Write(Feed, [api[Feed] EXCEPT !.fin = TRUE, !.prot = @ \/ scenario.gate])
  PROVE  Steady
<1> DEFINE p == api[Feed].prot \/ scenario.gate
           o == [api[Feed] EXCEPT !.fin = TRUE, !.prot = p]
<1>1. api[Feed] \in FeedRecord /\ p \in BOOLEAN
  BY StoredFacts DEF TypeInv
<1>2. Write(Feed, o)
  OBVIOUS
<1> HIDE DEF p
<1>3. o \in FeedRecord /\ o.phase = api[Feed].phase /\ o.rev = api[Feed].rev
  BY <1>1 DEF FeedRecord
<1> HIDE DEF o
<1>. QED  BY <1>2, <1>3, SteadyFeed

LEMMA FinalizerWrite ==
  ASSUME TypeInv, NEW k \in Override, Exists(api[k]), Write(k, [api[k] EXCEPT !.fin = TRUE])
  PROVE  Steady
<1> DEFINE o == [api[k] EXCEPT !.fin = TRUE]
<1>1. api[k] \in OverrideRecord
  BY StoredFacts DEF TypeInv
<1>2. o \in OverrideRecord /\ o.phase = api[k].phase /\ o.rev = api[k].rev /\ o.lab = api[k].lab
  BY <1>1 DEF OverrideRecord
<1>3. Write(k, o) /\ api[k].phase # "absent"
  BY DEF Exists
<1> HIDE DEF o
<1>. QED  BY <1>2, <1>3, SteadyOverride

-----------------------------------------------------------------------------
(* The steps that leave what is stored alone, and those of the workers.    *)
Requeued(k) == Others(k) /\ job'[k] = None /\ k \in queue'

Onward(k) ==
  /\ Others(k) /\ queue' = queue /\ job'[k] # None
  /\ job[k].pc \notin {"inject", "label"}
  /\ job'[k].pc \notin {"inject", "label", "release"}
  /\ k \in Override => job'[k].obj = job[k].obj /\ job'[k].origin = job[k].origin
  /\ job'[k].want = job[k].want \/ InOrder(job'[k].want.ovs)

SameTodo(k) == /\ job'[k].todo = job[k].todo
               /\ job'[k].pc \notin {"unlist", "unfeed"} /\ job[k].pc # "unlist"

LEMMA AtFacts ==
  ASSUME TypeInv, NEW k \in Key, job[k] # None
  PROVE  /\ job[k] \in JobRecord /\ job[k].obj \in OfKind(k)
         /\ job[k].pc \in {"inject", "label", "release"} => k \in Override
BY KindFacts DEF TypeInv, WorkOK, JobOK

LEMMA RequeuePart ==
  ASSUME TypeInv, NEW k \in Key, Requeue(k)
  PROVE  WorkPart(k) /\ Requeued(k)
BY RequeueFacts DEF TypeInv, WorkPart, Requeued

LEMMA GoToPart ==
  ASSUME TypeInv, NEW k \in Key, NEW j, GoTo(k, j), j # None => JobOK(k, j)
  PROVE  WorkPart(k) /\ Others(k) /\ job'[k] = j /\ queue' = queue
BY GoToFacts DEF TypeInv, WorkPart

LEMMA ReturnPart ==
  ASSUME TypeInv, NEW k \in Key, job[k] # None, Return(k)
  PROVE  WorkPart(k) /\ Others(k) /\ queue' = queue /\ Returned(k)
<1>1. Others(k) /\ queue' = queue /\ Returned(k)
  BY ReturnFacts DEF TypeInv
<1>2. job[k].obj \in OfKind(k)
  BY AtFacts
<1>. QED  BY <1>1, <1>2, KindFacts DEF WorkPart, JobOK, Returned

LEMMA HistSame ==
  ASSUME TypeInv, UNCHANGED histVars
  PROVE  HistOK' /\ outdated' = outdated /\ kept' = kept /\ shifted' = shifted
BY DEF TypeInv, HistOK, histVars

LEMMA UpdateChartStatusFacts ==
  ASSUME TypeInv, NEW k \in Key, NEW v \in {"Found", "NotFound"}, UpdateChartStatus(k, v)
  PROVE  /\ Calm /\ UNCHANGED histVars
         /\ job[k] # None /\ job[k].pc = "status" /\ Onward(k) /\ SameTodo(k)
         /\ job'[k].obj = job[k].obj /\ job'[k].pc \in {"compute", "restatus"}
<1> DEFINE j == job[k]
           b == [j EXCEPT !.pc = "compute"]
           c == Retrying(j, v)
<1>1. /\ j # None /\ j.pc = "status" /\ UNCHANGED histVars /\ MutateChart(k, v)
      /\ \/ WriteStatus(v) /\ GoTo(k, b)
         \/ UNCHANGED apiVars /\ GoTo(k, c)
  BY DEF UpdateChartStatus, At, Retrying
<1>2. Tick
  BY DEF UpdateChartStatus, Tick, EventKind
<1>3. j \in JobRecord /\ j.obj \in OfKind(k)
  BY <1>1, AtFacts
<1>4. /\ b \in JobRecord /\ b # None /\ b.pc = "compute" /\ b.obj = j.obj /\ b.origin = j.origin
      /\ b.want = j.want /\ b.todo = j.todo
  BY <1>3, NextStep, ZenonT(60) DEF Step
<1>5. /\ c \in JobRecord /\ c # None /\ c.pc = "restatus" /\ c.obj = j.obj /\ c.origin = j.origin
      /\ c.want = j.want /\ c.todo = j.todo
  BY <1>3, StatusStep
<1> HIDE DEF b, c
<1>6. JobOK(k, b) /\ JobOK(k, c)
  BY <1>3, <1>4, <1>5 DEF JobOK
<1>7. Steady
  BY <1>1, StatusWrite, SteadySame
<1>8. WorkPart(k) /\ Others(k) /\ queue' = queue /\ job'[k] \in {b, c}
  BY <1>1, <1>6, GoToPart
<1>9. Calm
  BY <1>1, <1>2, <1>7, <1>8, MutateChartFacts, HistSame, SteadyCalm
<1>. QED  BY <1>1, <1>4, <1>5, <1>8, <1>9 DEF Onward, SameTodo

LEMMA RetryChartStatusFacts ==
  ASSUME TypeInv, NEW k \in Key, RetryChartStatus(k)
  PROVE  /\ Calm /\ UNCHANGED histVars
         /\ job[k] # None /\ job[k].pc = "restatus"
         /\ \/ Requeued(k)
            \/ Onward(k) /\ SameTodo(k) /\ job'[k].obj = job[k].obj /\ job'[k].pc = "compute"
<1> DEFINE j == job[k]
           b == [j EXCEPT !.pc = "compute"]
<1>1. /\ j # None /\ j.pc = "restatus" /\ UNCHANGED <<cache, histVars, scenario>>
      /\ \/ WriteStatus(j.target.status) /\ GoTo(k, b)
         \/ UNCHANGED apiVars /\ Requeue(k)
  BY DEF RetryChartStatus, At
<1>2. Tick
  BY <1>1 DEF Tick
<1>3. j \in JobRecord /\ j.obj \in OfKind(k)
  BY <1>1, AtFacts
<1>4. /\ b \in JobRecord /\ b # None /\ b.pc = "compute" /\ b.obj = j.obj /\ b.origin = j.origin
      /\ b.want = j.want /\ b.todo = j.todo
  BY <1>3, NextStep DEF Step
<1> HIDE DEF b
<1>5. JobOK(k, b)
  BY <1>3, <1>4 DEF JobOK
<1>6. Steady
  <2>1. j.target.status \in {"unset", "Found", "NotFound"}
    BY <1>3, JobFields DEF FeedRecord
  <2>. QED  BY <1>1, <2>1, StatusWrite, SteadySame
<1>7. WorkPart(k) /\ (Requeued(k) \/ (Others(k) /\ queue' = queue /\ job'[k] = b))
  BY <1>1, <1>5, GoToPart, RequeuePart
<1>8. Calm
  BY <1>1, <1>2, <1>6, <1>7, CosmeticSame, HistSame, SteadyCalm
<1>. QED  BY <1>1, <1>4, <1>7, <1>8 DEF Onward, SameTodo

(* What is rendered: the feed without overrides ... *)
LEMMA PlainFacts ==
  ASSUME NEW f \in FeedRecord
  PROVE  Plain(f) \in Value /\ Plain(f).ovs = <<>> /\ InOrder(Plain(f).ovs)
<1>1. f.rev \in Rev
  BY DEF FeedRecord
<1>2. Plain(f) \in Value /\ Plain(f).ovs = <<>>
  BY <1>1 DEF Plain, Value
<1>. QED  BY <1>2 DEF InOrder

(* ... and with those that the caches have. *)
LEMMA RenderedFacts ==
  ASSUME TypeInv
  PROVE  /\ Rendered \in Value /\ Rendered.rev = Plain(cache[Feed]).rev /\ InOrder(Rendered.ovs)
         /\ \A o \in Override : {e \in ToSet(Rendered.ovs) : e.ov = o} = Due(o)
<1> DEFINE revs == [o \in Override |-> cache[o].rev]
           ovs == Applied(GetOverrides, revs)
           p == Plain(cache[Feed])
<1>1. revs \in [Override -> Rev] /\ GetOverrides \in SUBSET Override
  BY RevFacts, KindFacts DEF TypeInv, GetOverrides
<1>2. \A o \in Override : revs[o] = cache[o].rev
  OBVIOUS
<1>3. Rendered = [p EXCEPT !.ovs = ovs]
  BY DEF Rendered
<1>4. cache[Feed] \in FeedRecord
  BY StoredFacts DEF TypeInv
<1>5. p \in Value
  BY <1>4, PlainFacts
<1> HIDE DEF revs, p
<1>6. /\ ovs \in Seq([ov: Override, rev: Rev]) /\ InOrder(ovs)
      /\ \A e : e \in ToSet(ovs) <=> \E o \in GetOverrides : e = [ov |-> o, rev |-> revs[o]]
  BY <1>1, AppliedFacts
<1> HIDE DEF ovs
<1>7. Rendered \in Value /\ Rendered.rev = p.rev /\ Rendered.ovs = ovs
  BY <1>3, <1>5, <1>6 DEF Value
<1>8. ASSUME NEW o \in Override PROVE {e \in ToSet(ovs) : e.ov = o} = Due(o)
  <2> DEFINE x == [ov |-> o, rev |-> cache[o].rev]
  <2>1. ASSUME NEW e \in ToSet(ovs), e.ov = o PROVE o \in GetOverrides /\ e = x
    <3>1. PICK q \in GetOverrides : e = [ov |-> q, rev |-> revs[q]]
      BY <1>6
    <3>2. q = o
      BY <2>1, <3>1
    <3>. QED  BY <1>2, <3>1, <3>2
  <2>2. ASSUME o \in GetOverrides PROVE x \in ToSet(ovs) /\ x.ov = o
    BY <1>2, <1>6, <2>2
  <2>3. Due(o) = IF o \in GetOverrides THEN {x} ELSE {}
    BY DEF Due, GetOverrides
  <2> HIDE DEF x
  <2>. QED  BY <2>1, <2>2, <2>3
<1>. QED  BY <1>6, <1>7, <1>8 DEF p

LEMMA GetItemFacts ==
  ASSUME TypeInv, NEW k \in Key, GetItem(k)
  PROVE  /\ Calm /\ UNCHANGED histVars /\ cache' = cache
         /\ Others(k) /\ job[k] = None /\ k \in queue /\ k \notin queue'
         /\ \/ ~Exists(cache[k]) /\ job'[k] = None
            \/ /\ Exists(cache[k]) /\ job'[k] # None
               /\ job'[k].obj = cache[k] /\ job'[k].origin = "lister"
               /\ job'[k].pc = FirstStep(k, cache[k]) /\ job'[k].todo = {}
               /\ InOrder(job'[k].want.ovs)
<1> DEFINE i == [pc |-> FirstStep(k, cache[k]), obj |-> cache[k], target |-> cache[Feed],
                 origin |-> "lister", want |-> Plain(cache[Feed]), todo |-> {}, failed |-> FALSE]
<1>1. /\ job[k] = None /\ k \in queue /\ queue' = queue \ {k}
      /\ UNCHANGED <<apiVars, cache, histVars, scenario>>
      /\ job' = [job EXCEPT ![k] = IF ~Exists(cache[k]) THEN None ELSE i]
  BY DEF GetItem
<1>2. cache[Feed] \in FeedRecord /\ cache[k] \in OfKind(k) /\ OfKind(k) \in {FeedRecord, OverrideRecord}
  BY KindFacts DEF TypeInv, StoreOK
<1>3. FirstStep(k, cache[k]) \in Step /\ (FirstStep(k, cache[k]) \in {"inject", "label", "release"} => k # Feed)
  BY DEF FirstStep, Step
<1>4. Plain(cache[Feed]) \in Value /\ InOrder(Plain(cache[Feed]).ovs)
  BY <1>2, PlainFacts
<1>5. JobOK(k, i) /\ i # None
  <2>1. i \in JobRecord
    BY <1>2, <1>3, <1>4 DEF JobRecord
  <2>. QED  BY <1>2, <1>3, <2>1, NoneAssumption DEF JobOK
<1>6. /\ i.pc = FirstStep(k, cache[k]) /\ i.obj = cache[k] /\ i.origin = "lister" /\ i.todo = {}
      /\ InOrder(i.want.ovs)
  BY <1>4
<1> HIDE DEF i
<1>7. job'[k] = IF ~Exists(cache[k]) THEN None ELSE i
  BY <1>1 DEF TypeInv, WorkOK
<1>8. WorkPart(k) /\ Others(k)
  BY <1>1, <1>5, <1>7 DEF TypeInv, WorkOK, WorkPart, Others
<1>9. Calm
  BY <1>1, <1>8, CosmeticSame, HistSame, SteadySame, SteadyCalm DEF Tick
<1>. QED  BY <1>1, <1>5, <1>6, <1>7, <1>8, <1>9

LEMMA ApplyFacts ==
  ASSUME TypeInv, NEW k \in Key, Apply(k)
  PROVE  /\ Calm /\ UNCHANGED histVars /\ cache' = cache
         /\ job[k] # None /\ job[k].pc = "apply"
         /\ \/ /\ Others(k) /\ queue' = queue /\ Returned(k)
               /\ k \in Override /\ (~ApplyNow(k) \/ ~Exists(cache[Feed]))
            \/ /\ Onward(k) /\ SameTodo(k) /\ job'[k].obj = job[k].obj
               /\ job'[k].pc \in {"protect", "status", "compute"}
               /\ job'[k].pc = "protect" =>
                    (IF k = Feed THEN job[k].obj ELSE cache[Feed]).phase = "deleting"
<1> DEFINE j == job[k]
           f == IF k = Feed THEN j.obj ELSE cache[Feed]
           h == IF f.phase = "deleting" THEN "protect" ELSE IF IsChart THEN "status" ELSE "compute"
           b == Handling(j, h, f)
<1>1. j # None /\ j.pc = "apply" /\ UNCHANGED <<apiVars, cache, histVars, scenario>>
  BY DEF Apply, At
<1>2. \/ k # Feed /\ (~ApplyNow(k) \/ ~Exists(cache[Feed])) /\ Return(k)
      \/ GoTo(k, b)
  BY DEF Apply, Handling
<1>3. j \in JobRecord /\ j.obj \in OfKind(k)
  BY <1>1, AtFacts
<1>4. f \in FeedRecord /\ h \in {"protect", "status", "compute"} /\ (h = "protect" => f.phase = "deleting")
  BY <1>3, StoredFacts, KindFacts DEF TypeInv
<1> HIDE DEF f, h
<1>5. /\ b \in JobRecord /\ b # None /\ b.pc = h /\ b.obj = j.obj /\ b.origin = j.origin
      /\ b.want = j.want /\ b.todo = j.todo
  <2>1. h \in Step
    BY <1>4 DEF Step
  <2>. QED  BY <1>3, <1>4, <2>1, TargetStep
<1> HIDE DEF b
<1>6. JobOK(k, b)
  BY <1>3, <1>4, <1>5 DEF JobOK
<1>7. /\ WorkPart(k) /\ Others(k) /\ queue' = queue
      /\ \/ k # Feed /\ (~ApplyNow(k) \/ ~Exists(cache[Feed])) /\ Returned(k)
         \/ job'[k] = b
  BY <1>1, <1>2, <1>6, ReturnPart, GoToPart
<1>8. Calm
  BY <1>1, <1>7, CosmeticSame, HistSame, SteadySame, SteadyCalm DEF Tick
<1>. QED  BY <1>1, <1>4, <1>5, <1>7, <1>8, KindFacts DEF Onward, SameTodo, f

LEMMA ComputeFacts ==
  ASSUME TypeInv, NEW k \in Key, Compute(k)
  PROVE  /\ Calm /\ cache' = cache /\ kept' = kept /\ shifted' = shifted
         /\ outdated => outdated'
         /\ job[k] # None /\ job[k].pc = "compute"
         /\ \/ Requeued(k)
            \/ Others(k) /\ queue' = queue /\ Returned(k) /\ outdated'
            \/ /\ Onward(k) /\ SameTodo(k) /\ job'[k].obj = job[k].obj /\ job'[k].pc = "sync"
<1> DEFINE j == job[k]
           v == Rendered
           b == Wanting(j, "sync", v)
<1>1. /\ j # None /\ j.pc = "compute" /\ UNCHANGED <<apiVars, cache, kept, shifted, scenario>>
      /\ outdated' = (outdated \/ (IsChart /\ cache[Feed].status = "NotFound"))
  BY DEF Compute, At
<1>2. \/ Requeue(k)
      \/ IsChart /\ cache[Feed].status = "NotFound" /\ Return(k)
      \/ GoTo(k, b)
  BY DEF Compute, Wanting
<1>3. j \in JobRecord /\ j.obj \in OfKind(k)
  BY <1>1, AtFacts
<1>4. v \in Value /\ InOrder(v.ovs)
  BY RenderedFacts
<1> HIDE DEF v
<1>5. /\ b \in JobRecord /\ b # None /\ b.pc = "sync" /\ b.obj = j.obj /\ b.origin = j.origin
      /\ b.want = v /\ b.todo = j.todo
  <2>1. "sync" \in Step
    BY DEF Step
  <2>. QED  BY <1>3, <1>4, <2>1, WantStep
<1> HIDE DEF b
<1>6. JobOK(k, b)
  BY <1>3, <1>5 DEF JobOK
<1>7. /\ WorkPart(k)
      /\ \/ Requeued(k)
         \/ Others(k) /\ queue' = queue /\ Returned(k) /\ IsChart /\ cache[Feed].status = "NotFound"
         \/ Others(k) /\ queue' = queue /\ job'[k] = b
  BY <1>1, <1>2, <1>6, ReturnPart, GoToPart, RequeuePart
<1>8. HistOK' /\ (outdated => outdated') /\ (IsChart /\ cache[Feed].status = "NotFound" => outdated')
  BY <1>1 DEF TypeInv, HistOK
<1>9. Calm
  BY <1>1, <1>7, <1>8, CosmeticSame, SteadySame, SteadyCalm DEF Tick
<1>. QED  BY <1>1, <1>4, <1>5, <1>7, <1>8, <1>9 DEF Onward, SameTodo

LEMMA ProtectFeedFacts ==
  ASSUME TypeInv, NEW k \in Key, ProtectFeed(k)
  PROVE  /\ Calm /\ UNCHANGED histVars /\ cache' = cache
         /\ job[k] # None /\ job[k].pc = "protect"
         /\ \/ Requeued(k)
            \/ /\ Onward(k) /\ job'[k].obj = job[k].obj /\ job'[k].pc = "unlist"
               /\ job'[k].todo = {[sub |-> s, list |-> cache[s].list] : s \in {s \in Sub : Lists(cache[s])}}
<1> DEFINE j == job[k]
           m == {s \in Sub : Lists(cache[s])}
           d == {[sub |-> s, list |-> cache[s].list] : s \in m}
           b == Doing(j, "unlist", d)
<1>1. j # None /\ j.pc = "protect" /\ UNCHANGED <<cache, histVars, scenario>>
  BY DEF ProtectFeed, At
<1>2. \/ Write(Feed, [api[Feed] EXCEPT !.note = m]) /\ Requeue(k)
      \/ UNCHANGED apiVars /\ Requeue(k)
      \/ UNCHANGED apiVars /\ GoTo(k, b)
  BY DEF ProtectFeed, FindAllMatchingSubscriptions, Doing
<1>3. j \in JobRecord /\ j.obj \in OfKind(k)
  BY <1>1, AtFacts
<1>4. m \in SUBSET Sub /\ d \in SUBSET [sub: Sub, list: List]
  <2>1. \A s \in Sub : cache[s].list \in List
    BY StoredFacts DEF TypeInv, SubRecord
  <2>. QED  BY <2>1
<1> HIDE DEF m, d
<1>5. /\ b \in JobRecord /\ b # None /\ b.pc = "unlist" /\ b.obj = j.obj /\ b.origin = j.origin
      /\ b.want = j.want /\ b.todo = d
  <2>1. "unlist" \in Step
    BY DEF Step
  <2>2. d \in TodoType
    BY <1>4 DEF TodoType
  <2>. QED  BY <1>3, <2>1, <2>2, TodoStep
<1> HIDE DEF b
<1>6. JobOK(k, b)
  BY <1>3, <1>5 DEF JobOK
<1>7. WorkPart(k) /\ (Requeued(k) \/ (Others(k) /\ queue' = queue /\ job'[k] = b))
  BY <1>1, <1>2, <1>6, GoToPart, RequeuePart
<1>8. Steady
  BY <1>2, <1>4, NoteWrite, SteadySame
<1>9. Calm
  BY <1>1, <1>7, <1>8, CosmeticSame, HistSame, SteadyCalm DEF Tick
<1>. QED  BY <1>1, <1>5, <1>7, <1>9 DEF Onward, d, m

LEMMA RemovalEndsFacts ==
  ASSUME TypeInv, NEW k \in Key, RemovalEnds(k)
  PROVE  /\ Calm /\ UNCHANGED histVars /\ cache' = cache
         /\ job[k] # None /\ job[k].pc = "unlist" /\ job[k].todo = {}
         /\ \/ Requeued(k)
            \/ /\ Onward(k) /\ job'[k].obj = job[k].obj /\ job'[k].pc = "unfeed"
               /\ job'[k].todo = {} /\ ~job[k].failed
<1> DEFINE j == job[k]
           b == [j EXCEPT !.pc = "unfeed"]
<1>1. /\ j # None /\ j.pc = "unlist" /\ j.todo = {}
      /\ UNCHANGED <<apiVars, cache, histVars, scenario>>
      /\ Requeue(k) \/ (~j.failed /\ GoTo(k, b))
  BY DEF RemovalEnds, At
<1>2. j \in JobRecord /\ j.obj \in OfKind(k)
  BY <1>1, AtFacts
<1>3. /\ b \in JobRecord /\ b # None /\ b.pc = "unfeed" /\ b.obj = j.obj /\ b.origin = j.origin
      /\ b.want = j.want /\ b.todo = j.todo
  <2>1. "unfeed" \in Step
    BY DEF Step
  <2>. QED  BY <1>2, <2>1, NextStep
<1> HIDE DEF b
<1>4. JobOK(k, b)
  BY <1>2, <1>3 DEF JobOK
<1>5. WorkPart(k) /\ (Requeued(k) \/ (Others(k) /\ queue' = queue /\ job'[k] = b /\ ~j.failed))
  BY <1>1, <1>4, GoToPart, RequeuePart
<1>6. Calm
  BY <1>1, <1>5, CosmeticSame, HistSame, SteadySame, SteadyCalm DEF Tick
<1>. QED  BY <1>1, <1>3, <1>5, <1>6 DEF Onward

LEMMA RequestFailsFacts ==
  ASSUME TypeInv, KeptInv, NEW k \in Key, RequestFails(k)
  PROVE  /\ Calm /\ UNCHANGED histVars /\ job[k] # None
         /\ \/ Requeued(k)
            \/ /\ Onward(k) /\ job'[k].obj = job[k].obj /\ job[k].pc = "unlist"
               /\ job'[k].pc = "unlist" /\ job'[k].todo \subseteq job[k].todo /\ job'[k].failed
<1> DEFINE j == job[k]
<1>1. /\ j # None /\ UNCHANGED <<apiVars, histVars>> /\ Tick
      /\ Requeue(k) \/ \E t \in j.todo : GoTo(k, Unlisted(k, t, FALSE))
  BY DEF RequestFails, Tick, EventKind
<1>2. j \in JobRecord /\ j.obj \in OfKind(k) /\ (j.pc = "inject" => k \in Override)
  BY <1>1, AtFacts
<1>3. Cosmetic
  <2>1. CASE j.pc = "inject"
    BY <1>1, <1>2, <2>1, MutateOverrideFacts DEF RequestFails, At
  <2>2. CASE j.pc = "unfeed"
    BY <1>1, <2>2, MutateFinalizersFacts DEF RequestFails, At
  <2>3. CASE j.pc \notin {"inject", "unfeed"}
    BY <1>1, <2>3, CosmeticSame DEF RequestFails, At
  <2>. QED  BY <2>1, <2>2, <2>3
<1>4. CASE Requeue(k)
  <2>1. WorkPart(k) /\ Requeued(k)
    BY <1>4, RequeuePart
  <2>. QED  BY <1>1, <1>3, <2>1, HistSame, SteadySame, SteadyCalm
<1>5. CASE \E t \in j.todo : GoTo(k, Unlisted(k, t, FALSE))
  <2>1. PICK t \in j.todo : GoTo(k, Unlisted(k, t, FALSE))
    BY <1>5
  <2> DEFINE b == Unlisted(k, t, FALSE)
  <2>2. /\ b \in JobRecord /\ b # None /\ b.pc = j.pc /\ b.obj = j.obj /\ b.origin = j.origin
        /\ b.want = j.want /\ b.todo = j.todo \ {t} /\ b.failed = (j.failed \/ ~FALSE)
    BY <1>2, UnlistedFacts
  <2>3. j.pc = "unlist"
    BY <1>1 DEF KeptInv, KeptJob
  <2> HIDE DEF b
  <2>4. JobOK(k, b)
    BY <1>2, <2>2, <2>3 DEF JobOK
  <2>5. WorkPart(k) /\ Others(k) /\ queue' = queue /\ job'[k] = b
    BY <2>1, <2>4, GoToPart DEF b
  <2>6. Calm
    BY <1>1, <1>3, <2>5, HistSame, SteadySame, SteadyCalm
  <2>. QED  BY <1>1, <2>2, <2>3, <2>5, <2>6 DEF Onward
<1>. QED  BY <1>1, <1>4, <1>5

LEMMA InjectFeedFinalizersFacts ==
  ASSUME TypeInv, InjectFeedFinalizers
  PROVE  /\ Calm /\ UNCHANGED histVars /\ job[Feed] # None /\ job[Feed].pc = "adopt"
         /\ \/ Requeued(Feed)
            \/ /\ Onward(Feed) /\ SameTodo(Feed)
               /\ job'[Feed].obj = api'[Feed] /\ job'[Feed].pc = "apply"
<1> DEFINE j == job[Feed]
           o == api'[Feed]
           b == Answered(j, "apply", o)
           w == Write(Feed, [api[Feed] EXCEPT !.fin = TRUE, !.prot = @ \/ scenario.gate])
<1>1. /\ j # None /\ j.pc = "adopt" /\ UNCHANGED <<cache, histVars, scenario>>
      /\ (w /\ GoTo(Feed, b)) \/ (UNCHANGED apiVars /\ Requeue(Feed))
  BY DEF InjectFeedFinalizers, At, Answered
<1>2. j \in JobRecord /\ Feed \in Key
  BY <1>1, AtFacts, KindFacts
<1>3. Steady
  BY <1>1, AdoptWrite, SteadySame
<1>4. o \in FeedRecord
  BY <1>3, KindFacts DEF Steady, StoreTyped
<1> HIDE DEF o, w
<1>5. /\ b \in JobRecord /\ b # None /\ b.pc = "apply" /\ b.obj = o
      /\ b.want = j.want /\ b.todo = j.todo
  <2>1. "apply" \in Step
    BY DEF Step
  <2>. QED  BY <1>2, <1>4, <2>1, AnswerStep
<1> HIDE DEF b
<1>6. JobOK(Feed, b)
  BY <1>4, <1>5, KindFacts DEF JobOK
<1>7. WorkPart(Feed) /\ (Requeued(Feed) \/ (Others(Feed) /\ queue' = queue /\ job'[Feed] = b))
  BY <1>1, <1>2, <1>6, GoToPart, RequeuePart
<1>8. Calm
  BY <1>1, <1>2, <1>3, <1>7, CosmeticSame, HistSame, SteadyCalm DEF Tick
<1>. QED  BY <1>1, <1>5, <1>7, <1>8, KindFacts DEF Onward, SameTodo, o

LEMMA InjectFinalizerFacts ==
  ASSUME TypeInv, NEW k \in Key, InjectFinalizer(k)
  PROVE  /\ Calm /\ UNCHANGED histVars /\ job[k] # None /\ job[k].pc = "inject" /\ k \in Override
         /\ \/ Requeued(k)
            \/ /\ Others(k) /\ queue' = queue /\ job'[k] # None /\ Exists(api[k])
               /\ job'[k].pc = "label" /\ job'[k].obj = api'[k] /\ job'[k].origin = "answer"
               /\ job'[k].want = job[k].want /\ job'[k].todo = job[k].todo
<1> DEFINE j == job[k]
           o == api'[k]
           b == Answered(j, "label", o)
           w == Write(k, [api[k] EXCEPT !.fin = TRUE])
<1>1. /\ j # None /\ j.pc = "inject" /\ UNCHANGED <<histVars, scenario>> /\ MutateOverride(k)
      /\ (w /\ Exists(api[k]) /\ GoTo(k, b)) \/ (UNCHANGED apiVars /\ Requeue(k))
  BY DEF InjectFinalizer, At, Accepts, Answered
<1>2. j \in JobRecord /\ k \in Override
  BY <1>1, AtFacts
<1>3. Steady
  BY <1>1, <1>2, FinalizerWrite, SteadySame
<1>4. o \in OverrideRecord
  BY <1>2, <1>3, KindFacts DEF Steady, StoreTyped
<1> HIDE DEF o, w
<1>5. /\ b \in JobRecord /\ b # None /\ b.pc = "label" /\ b.obj = o /\ b.origin = "answer"
      /\ b.want = j.want /\ b.todo = j.todo
  <2>1. "label" \in Step
    BY DEF Step
  <2>. QED  BY <1>2, <1>4, <2>1, AnswerStep
<1> HIDE DEF b
<1>6. JobOK(k, b)
  BY <1>2, <1>4, <1>5, KindFacts DEF JobOK
<1>7. WorkPart(k) /\ (Requeued(k) \/ (Others(k) /\ queue' = queue /\ job'[k] = b /\ Exists(api[k])))
  BY <1>1, <1>6, GoToPart, RequeuePart
<1>8. Calm
  BY <1>1, <1>2, <1>3, <1>7, MutateOverrideFacts, HistSame, SteadyCalm DEF Tick
<1>. QED  BY <1>1, <1>2, <1>5, <1>7, <1>8 DEF o

-----------------------------------------------------------------------------
(* The steps that write something else: to an override, ...                *)
OnlyOverride(k) ==
  /\ FeedStays /\ SubsStay /\ DescStays
  /\ \A o \in Override \ {k} : api'[o] = api[o] /\ watch'[o] = watch[o]

LEMMA OverrideWritten ==
  ASSUME TypeInv, NEW k \in Override, NEW o \in OverrideRecord, Write(k, o)
  PROVE  /\ StoreTyped /\ Logged /\ OnlyOverride(k)
         /\ api'[k].phase = o.phase /\ api'[k].rev = o.rev /\ api'[k].lab = o.lab
         /\ \A j \in Key \ {k} : api'[j].rev = api[j].rev
<1>1. StoreOK
  BY DEF TypeInv
<1>2. /\ Untouched(Object \ {k}) /\ DOMAIN api' = Object /\ DOMAIN watch' = Object
      /\ api'[k] \in OverrideRecord /\ watch'[k] \in Seq(OverrideRecord)
      /\ api'[k].phase = o.phase /\ api'[k].rev = o.rev /\ api'[k].lab = o.lab
      /\ \/ api'[k] = api[k] /\ watch'[k] = watch[k]
         \/ watch'[k] = Append(watch[k], api'[k])
  BY <1>1, WriteOverrideFacts
<1>3. StoreTyped
  BY <1>1, <1>2, KindFacts DEF StoreTyped, Untouched, StoreOK
<1>4. Logged
  BY <1>2 DEF Logged, Untouched
<1>5. OnlyOverride(k) /\ \A j \in Key \ {k} : api'[j].rev = api[j].rev
  BY <1>2, KindFacts DEF OnlyOverride, Untouched, FeedStays, SubsStay, DescStays
<1>. QED  BY <1>2, <1>3, <1>4, <1>5

LEMMA RevStep ==
  ASSUME TypeInv, NEW k \in Key, \A j \in Key \ {k} : api'[j].rev = api[j].rev,
         api'[k].rev + scenario'.left <= api[k].rev + scenario.left, api'[k].rev \in Nat, Tick
  PROVE  EventsOK'
<1>1. scenario' \in ScenarioType /\ scenario'.left \in Nat /\ scenario.left \in Nat
      /\ scenario'.left <= scenario.left
  BY TickFacts
<1>2. \A j \in Key : api[j].rev \in Nat /\ api[j].rev + scenario.left <= MaxEvents + 1
  BY RevFacts DEF TypeInv, EventsOK
<1>3. ASSUME NEW j \in Key PROVE api'[j].rev + scenario'.left <= MaxEvents + 1
  <2>1. CASE j = k
    BY <1>1, <1>2, <2>1, ConfigAssumption
  <2>2. CASE j # k
    BY <1>1, <1>2, <2>2, ConfigAssumption
  <2>. QED  BY <2>1, <2>2
<1>. QED  BY <1>1, <1>3 DEF EventsOK

LEMMA OverrideQuiet ==
  ASSUME TypeInv, NEW k \in Override, NEW o \in OverrideRecord, Write(k, o),
         o.rev = api[k].rev, Cosmetic, NEW j \in Key, WorkPart(j), Tick, HistOK'
  PROVE  Quiet /\ OnlyOverride(k) /\ api'[k].phase = o.phase /\ api'[k].lab = o.lab
<1>1. /\ StoreTyped /\ Logged /\ OnlyOverride(k)
      /\ api'[k].phase = o.phase /\ api'[k].rev = o.rev /\ api'[k].lab = o.lab
      /\ \A i \in Key \ {k} : api'[i].rev = api[i].rev
  BY OverrideWritten
<1>2. k \in Key /\ api[k].rev \in Nat
  BY KindFacts, RevFacts DEF TypeInv
<1>3. api'[k].rev = api[k].rev /\ scenario'.left \in Nat /\ scenario.left \in Nat
      /\ scenario'.left <= scenario.left /\ SamePlan
  BY <1>1, TickFacts
<1>4. api'[k].rev + scenario'.left <= api[k].rev + scenario.left /\ api'[k].rev \in Nat
  BY <1>2, <1>3
<1>5. EventsOK'
  BY <1>1, <1>2, <1>4, RevStep
<1>6. Quiet
  BY <1>1, <1>3, <1>5, QuietStep
<1>. QED  BY <1>1, <1>6

LEMMA PatchLabelsFacts ==
  ASSUME TypeInv, NEW k \in Key, PatchLabels(k)
  PROVE  /\ Quiet /\ UNCHANGED histVars /\ cache' = cache
         /\ job[k] # None /\ job[k].pc = "label" /\ k \in Override
         /\ OnlyOverride(k) /\ api'[k].phase = api[k].phase /\ (api[k].lab => api'[k].lab)
         /\ \/ Requeued(k) /\ OverridesStay
            \/ /\ Others(k) /\ queue' = queue /\ job'[k] # None /\ job'[k].pc = "apply"
               /\ job'[k].want = job[k].want /\ job'[k].todo = job[k].todo
               /\ \/ /\ job[k].obj.lab
                     /\ job'[k].obj = job[k].obj /\ job'[k].origin = job[k].origin
                  \/ /\ api'[k].lab /\ Exists(api[k])
                     /\ job'[k].obj = api'[k] /\ job'[k].origin = "answer"
<1> DEFINE j == job[k]
           o == [api[k] EXCEPT !.lab = TRUE]
           p == api'[k]
           b == [j EXCEPT !.pc = "apply"]
           c == Answered(j, "apply", p)
<1>1. /\ j # None /\ j.pc = "label" /\ UNCHANGED <<cache, histVars, scenario>>
      /\ \/ UNCHANGED apiVars /\ Requeue(k)
         \/ UNCHANGED apiVars /\ j.obj.lab /\ GoTo(k, b)
         \/ Write(k, o) /\ Exists(api[k]) /\ GoTo(k, c)
  BY DEF PatchLabels, At, Answered
<1>2. j \in JobRecord /\ j.obj \in OfKind(k) /\ k \in Override
  BY <1>1, AtFacts
<1>3. o \in OverrideRecord /\ o.phase = api[k].phase /\ o.rev = api[k].rev /\ o.lab = TRUE
  BY <1>2, StoredFacts DEF TypeInv, OverrideRecord
<1>4. /\ b \in JobRecord /\ b # None /\ b.pc = "apply" /\ b.obj = j.obj /\ b.origin = j.origin
      /\ b.want = j.want /\ b.todo = j.todo
  <2>1. "apply" \in Step
    BY DEF Step
  <2>. QED  BY <1>2, <2>1, NextStep
<1> HIDE DEF o, b, c
<1>5. JobOK(k, b)
  BY <1>2, <1>4 DEF JobOK
<1>6. Cosmetic /\ Tick /\ HistOK'
  BY <1>1, CosmeticSame, HistSame DEF Tick
<1>7. CASE UNCHANGED apiVars /\ (Requeue(k) \/ (j.obj.lab /\ GoTo(k, b)))
  <2>1. \/ WorkPart(k) /\ Requeued(k)
        \/ WorkPart(k) /\ Others(k) /\ queue' = queue /\ job'[k] = b /\ j.obj.lab
    BY <1>5, <1>7, RequeuePart, GoToPart
  <2>2. Steady
    BY <1>7, SteadySame
  <2>3. Calm
    BY <1>6, <2>1, <2>2, SteadyCalm
  <2>. QED  BY <1>1, <1>2, <1>4, <1>7, <2>1, <2>3 DEF Calm, OnlyOverride, apiVars
<1>8. CASE Write(k, o) /\ Exists(api[k]) /\ GoTo(k, c)
  <2>1. p \in OverrideRecord
    BY <1>2, <1>3, <1>8, OverrideWritten, KindFacts DEF StoreTyped
  <2> HIDE DEF p
  <2>2. /\ c \in JobRecord /\ c # None /\ c.pc = "apply" /\ c.obj = p /\ c.origin = "answer"
        /\ c.want = j.want /\ c.todo = j.todo
    <3>1. "apply" \in Step
      BY DEF Step
    <3>. QED  BY <1>2, <2>1, <3>1, AnswerStep DEF c
  <2>3. JobOK(k, c)
    BY <1>2, <2>1, <2>2, KindFacts DEF JobOK
  <2>4. WorkPart(k) /\ Others(k) /\ queue' = queue /\ job'[k] = c
    BY <1>8, <2>3, GoToPart
  <2>5. Quiet /\ OnlyOverride(k) /\ api'[k].phase = o.phase /\ api'[k].lab = o.lab
    BY <1>2, <1>3, <1>6, <1>8, <2>4, OverrideQuiet
  <2>. QED  BY <1>1, <1>2, <1>3, <1>8, <2>2, <2>4, <2>5 DEF p
<1>. QED  BY <1>1, <1>7, <1>8

LEMMA ReleaseOverrideFacts ==
  ASSUME TypeInv, NEW k \in Key, ReleaseOverride(k)
  PROVE  /\ Quiet /\ UNCHANGED histVars /\ cache' = cache
         /\ job[k] # None /\ job[k].pc = "release" /\ k \in Override
         /\ OnlyOverride(k) /\ api'[k].lab = api[k].lab
         /\ \/ Requeued(k) /\ OverridesStay
            \/ /\ Others(k) /\ queue' = queue /\ job'[k] = None /\ Exists(api[k])
               /\ api'[k].phase = IF job[k].origin = "lister" THEN "gone" ELSE "escaped"
<1> DEFINE j == job[k]
           h == IF j.origin = "lister" THEN "gone" ELSE "escaped"
           o == [api[k] EXCEPT !.phase = h]
<1>1. /\ j # None /\ j.pc = "release" /\ UNCHANGED <<cache, histVars, scenario>>
      /\ \/ UNCHANGED apiVars /\ Requeue(k)
         \/ Write(k, o) /\ Exists(api[k]) /\ GoTo(k, None)
  BY DEF ReleaseOverride, At, Accepts
<1>2. k \in Override
  BY <1>1, AtFacts
<1>3. Cosmetic /\ Tick /\ HistOK'
  BY <1>1, CosmeticSame, HistSame DEF Tick
<1>4. h \in {"gone", "escaped"}
  OBVIOUS
<1> HIDE DEF h
<1>5. o \in OverrideRecord /\ o.phase = h /\ o.rev = api[k].rev /\ o.lab = api[k].lab
  BY <1>2, <1>4, StoredFacts DEF TypeInv, OverrideRecord, Phase
<1> HIDE DEF o
<1>6. CASE UNCHANGED apiVars /\ Requeue(k)
  <2>1. WorkPart(k) /\ Requeued(k)
    BY <1>6, RequeuePart
  <2>2. Steady
    BY <1>6, SteadySame
  <2>3. Calm
    BY <1>3, <2>1, <2>2, SteadyCalm
  <2>. QED  BY <1>1, <1>2, <1>6, <2>1, <2>3 DEF Calm, OnlyOverride, apiVars
<1>7. CASE Write(k, o) /\ Exists(api[k]) /\ GoTo(k, None)
  <2>1. WorkPart(k) /\ Others(k) /\ queue' = queue /\ job'[k] = None
    BY <1>7, GoToPart
  <2>2. Quiet /\ OnlyOverride(k) /\ api'[k].phase = o.phase /\ api'[k].lab = o.lab
    BY <1>2, <1>3, <1>5, <1>7, <2>1, OverrideQuiet
  <2>. QED  BY <1>1, <1>2, <1>5, <1>7, <2>1, <2>2 DEF h
<1>. QED  BY <1>1, <1>6, <1>7

LEMMA CreateOverrideFacts ==
  ASSUME TypeInv, NEW k \in Override, CreateOverride(k)
  PROVE  /\ Quiet /\ UNCHANGED <<cache, workVars, histVars>> /\ OnlyOverride(k)
         /\ api[k].phase = "absent" /\ api'[k].phase = "live" /\ api'[k].lab = api[k].lab
<1> DEFINE o == [api[k] EXCEPT !.phase = "live"]
<1>1. /\ api[k].phase = "absent" /\ UNCHANGED <<cache, workVars, histVars>>
      /\ Tick /\ Write(k, o)
  BY DEF CreateOverride, Tick, EventKind
<1>2. o \in OverrideRecord /\ o.phase = "live" /\ o.rev = api[k].rev /\ o.lab = api[k].lab
  BY StoredFacts DEF TypeInv, OverrideRecord, Phase
<1> HIDE DEF o
<1>3. Cosmetic /\ HistOK' /\ WorkPart(Feed) /\ Feed \in Key
  BY <1>1, CosmeticSame, HistSame, SamePart, KindFacts
<1>4. Quiet /\ OnlyOverride(k) /\ api'[k].phase = o.phase /\ api'[k].lab = o.lab
  BY <1>1, <1>2, <1>3, OverrideQuiet
<1>. QED  BY <1>1, <1>2, <1>4

LEMMA DeleteOverrideFacts ==
  ASSUME TypeInv, NEW k \in Override, DeleteOverride(k)
  PROVE  /\ Quiet /\ UNCHANGED <<cache, workVars, histVars>> /\ OnlyOverride(k)
         /\ api[k].phase = "live" /\ api'[k].phase \in {"deleting", "escaped"}
         /\ api'[k].lab = api[k].lab
<1> DEFINE h == IF api[k].fin THEN "deleting" ELSE "escaped"
           o == [api[k] EXCEPT !.phase = h]
<1>1. /\ api[k].phase = "live" /\ UNCHANGED <<cache, workVars, histVars>>
      /\ Tick /\ Write(k, o)
  BY DEF DeleteOverride, Tick, EventKind, Deleted
<1>2. h \in {"deleting", "escaped"}
  OBVIOUS
<1> HIDE DEF h
<1>3. o \in OverrideRecord /\ o.phase = h /\ o.rev = api[k].rev /\ o.lab = api[k].lab
  BY <1>2, StoredFacts DEF TypeInv, OverrideRecord, Phase
<1> HIDE DEF o
<1>4. Cosmetic /\ HistOK' /\ WorkPart(Feed) /\ Feed \in Key
  BY <1>1, CosmeticSame, HistSame, SamePart, KindFacts
<1>5. Quiet /\ OnlyOverride(k) /\ api'[k].phase = o.phase /\ api'[k].lab = o.lab
  BY <1>1, <1>3, <1>4, OverrideQuiet
<1>. QED  BY <1>1, <1>2, <1>3, <1>5

LEMMA EditedRev ==
  ASSUME TypeInv, NEW k \in Key, NEW kind, Event(kind)
  PROVE  /\ api[k].rev + 1 \in Rev /\ api[k].rev \in Nat
         /\ (api[k].rev + 1) + scenario'.left <= api[k].rev + scenario.left
<1>1. scenario'.left = scenario.left - 1 /\ scenario.left \in Nat /\ scenario'.left \in Nat
  BY EventFacts DEF TypeInv
<1>2. api[k].rev \in Nat /\ api[k].rev + scenario.left <= MaxEvents + 1
  BY RevFacts DEF TypeInv, EventsOK
<1>. QED  BY <1>1, <1>2, ConfigAssumption DEF Rev

LEMMA EditOverrideFacts ==
  ASSUME TypeInv, NEW k \in Override, NEW v \in BOOLEAN, EditOverride(k, v)
  PROVE  /\ Quiet /\ UNCHANGED <<cache, workVars, histVars>> /\ OnlyOverride(k)
         /\ api[k].phase = "live" /\ api'[k].phase = "live" /\ api'[k].lab = api[k].lab
<1> DEFINE r == api[k].rev + 1
           o == [api[k] EXCEPT !.rev = r, !.valid = v]
<1>1. /\ api[k].phase = "live" /\ UNCHANGED <<cache, workVars, histVars>>
      /\ Write(k, o)
  BY DEF EditOverride
<1>2. PICK kind \in EventKind : Event(kind)
  BY DEF EditOverride, EventKind
<1>3. k \in Key /\ Tick
  BY <1>2, KindFacts DEF Tick
<1>4. r \in Rev /\ r \in Nat /\ r + scenario'.left <= api[k].rev + scenario.left
  BY <1>2, <1>3, EditedRev
<1> HIDE DEF r
<1>5. o \in OverrideRecord /\ o.phase = api[k].phase /\ o.rev = r /\ o.lab = api[k].lab
  BY <1>4, StoredFacts DEF TypeInv, OverrideRecord
<1> HIDE DEF o
<1>6. Cosmetic /\ HistOK' /\ WorkPart(Feed) /\ Feed \in Key
  BY <1>1, CosmeticSame, HistSame, SamePart, KindFacts
<1>7. /\ StoreTyped /\ Logged /\ OnlyOverride(k)
      /\ api'[k].phase = o.phase /\ api'[k].rev = o.rev /\ api'[k].lab = o.lab
      /\ \A i \in Key \ {k} : api'[i].rev = api[i].rev
  BY <1>1, <1>5, OverrideWritten
<1>8. EventsOK'
  BY <1>3, <1>4, <1>5, <1>7, RevStep
<1>9. Quiet
  BY <1>3, <1>6, <1>7, <1>8, TickFacts, QuietStep
<1>. QED  BY <1>1, <1>5, <1>7, <1>9

(* ... to the feed, ... *)
OnlyFeed == OverridesStay /\ SubsStay /\ DescStays

LEMMA FeedWritten ==
  ASSUME TypeInv, NEW o \in FeedRecord, Write(Feed, o)
  PROVE  /\ StoreTyped /\ Logged /\ OnlyFeed
         /\ api'[Feed].phase = o.phase /\ api'[Feed].rev = o.rev
         /\ \A j \in Key \ {Feed} : api'[j].rev = api[j].rev
<1>1. StoreOK
  BY DEF TypeInv
<1>2. /\ Untouched(Object \ {Feed}) /\ DOMAIN api' = Object /\ DOMAIN watch' = Object
      /\ api'[Feed] \in FeedRecord /\ watch'[Feed] \in Seq(FeedRecord)
      /\ api'[Feed].phase = o.phase /\ api'[Feed].rev = o.rev
      /\ \/ api'[Feed] = api[Feed] /\ watch'[Feed] = watch[Feed]
         \/ watch'[Feed] = Append(watch[Feed], api'[Feed])
  BY <1>1, WriteFeedFacts
<1>3. StoreTyped
  BY <1>1, <1>2, KindFacts DEF StoreTyped, Untouched, StoreOK
<1>4. Logged
  BY <1>2 DEF Logged, Untouched
<1>5. OnlyFeed /\ \A j \in Key \ {Feed} : api'[j].rev = api[j].rev
  BY <1>2, KindFacts DEF OnlyFeed, Untouched, OverridesStay, OverrideStays, SubsStay, DescStays
<1>. QED  BY <1>2, <1>3, <1>4, <1>5

LEMMA FeedQuiet ==
  ASSUME TypeInv, NEW o \in FeedRecord, Write(Feed, o), o.rev = api[Feed].rev,
         Cosmetic, NEW j \in Key, WorkPart(j), Tick, HistOK'
  PROVE  Quiet /\ OnlyFeed /\ api'[Feed].phase = o.phase
<1>1. /\ StoreTyped /\ Logged /\ OnlyFeed
      /\ api'[Feed].phase = o.phase /\ api'[Feed].rev = o.rev
      /\ \A i \in Key \ {Feed} : api'[i].rev = api[i].rev
  BY FeedWritten
<1>2. Feed \in Key /\ api[Feed].rev \in Nat
  BY KindFacts, RevFacts DEF TypeInv
<1>3. api'[Feed].rev = api[Feed].rev /\ scenario'.left \in Nat /\ scenario.left \in Nat
      /\ scenario'.left <= scenario.left /\ SamePlan
  BY <1>1, TickFacts
<1>4. api'[Feed].rev + scenario'.left <= api[Feed].rev + scenario.left /\ api'[Feed].rev \in Nat
  BY <1>2, <1>3
<1>5. EventsOK'
  BY <1>1, <1>2, <1>4, RevStep
<1>6. Quiet
  BY <1>1, <1>3, <1>5, QuietStep
<1>. QED  BY <1>1, <1>6

LEMMA EditTemplateFacts ==
  ASSUME TypeInv, EditTemplate
  PROVE  Calm /\ UNCHANGED <<cache, workVars, histVars>>
<1> DEFINE r == api[Feed].rev + 1
           o == [api[Feed] EXCEPT !.rev = r]
<1>1. UNCHANGED <<cache, workVars, histVars>> /\ Write(Feed, o)
  BY DEF EditTemplate
<1>2. PICK kind \in EventKind : Event(kind)
  BY DEF EditTemplate, EventKind
<1>3. Feed \in Key /\ Tick
  BY <1>2, KindFacts DEF Tick
<1>4. r \in Rev /\ r \in Nat /\ r + scenario'.left <= api[Feed].rev + scenario.left
  BY <1>2, <1>3, EditedRev
<1> HIDE DEF r
<1>5. o \in FeedRecord /\ o.phase = api[Feed].phase /\ o.rev = r
  BY <1>4, StoredFacts DEF TypeInv, FeedRecord
<1> HIDE DEF o
<1>6. Cosmetic /\ HistOK' /\ WorkPart(Feed)
  BY <1>1, <1>3, CosmeticSame, HistSame, SamePart
<1>7. /\ StoreTyped /\ Logged /\ OnlyFeed
      /\ api'[Feed].phase = o.phase /\ api'[Feed].rev = o.rev
      /\ \A i \in Key \ {Feed} : api'[i].rev = api[i].rev
  BY <1>1, <1>5, FeedWritten
<1>8. EventsOK'
  BY <1>3, <1>4, <1>5, <1>7, RevStep
<1>9. Quiet
  BY <1>3, <1>6, <1>7, <1>8, TickFacts, QuietStep
<1>. QED  BY <1>1, <1>5, <1>7, <1>9 DEF Calm, OnlyFeed, FeedStays

LEMMA DeleteFeedFacts ==
  ASSUME TypeInv, DeleteFeed
  PROVE  /\ Quiet /\ UNCHANGED <<cache, workVars, outdated, shifted>> /\ OnlyFeed
         /\ api[Feed].phase = "live" /\ api'[Feed].phase \in {"deleting", "escaped"}
         /\ kept' = {s \in Sub : Listed(s)}
<1> DEFINE h == IF api[Feed].fin THEN "deleting" ELSE "escaped"
           o == [api[Feed] EXCEPT !.phase = h]
<1>1. /\ api[Feed].phase = "live" /\ UNCHANGED <<cache, workVars, outdated, shifted>>
      /\ Tick /\ Write(Feed, o) /\ kept' = {s \in Sub : Listed(s)}
  BY DEF DeleteFeed, Tick, EventKind, Deleted, Listed
<1>2. h \in {"deleting", "escaped"}
  OBVIOUS
<1> HIDE DEF h
<1>3. o \in FeedRecord /\ o.phase = h /\ o.rev = api[Feed].rev
  BY <1>2, StoredFacts DEF TypeInv, FeedRecord, Phase
<1> HIDE DEF o
<1>4. HistOK'
  BY <1>1 DEF TypeInv, HistOK
<1>5. Cosmetic /\ WorkPart(Feed) /\ Feed \in Key
  BY <1>1, CosmeticSame, SamePart, KindFacts
<1>6. Quiet /\ OnlyFeed /\ api'[Feed].phase = o.phase
  BY <1>1, <1>3, <1>4, <1>5, FeedQuiet
<1>. QED  BY <1>1, <1>2, <1>3, <1>6

LEMMA RemoveFeedFinalizersFacts ==
  ASSUME TypeInv, NEW k \in Key, RemoveFeedFinalizers(k)
  PROVE  /\ Quiet /\ UNCHANGED histVars /\ OnlyFeed
         /\ job[k] # None /\ job[k].pc = "unfeed"
         /\ \/ Requeued(k) /\ FeedStays
            \/ /\ Others(k) /\ queue' = queue /\ Returned(k)
               /\ \/ FeedStays /\ ~Exists(api[Feed])
                  \/ api'[Feed].phase = "gone"
<1> DEFINE o == [api[Feed] EXCEPT !.phase = "gone"]
<1>1. /\ job[k] # None /\ job[k].pc = "unfeed" /\ UNCHANGED <<histVars, scenario>>
      /\ MutateFinalizers(k)
      /\ \/ ~Exists(api[Feed]) /\ Return(k) /\ UNCHANGED apiVars
         \/ Write(Feed, o) /\ Return(k)
         \/ Requeue(k) /\ UNCHANGED apiVars
  BY DEF RemoveFeedFinalizers, At
<1>2. o \in FeedRecord /\ o.phase = "gone" /\ o.rev = api[Feed].rev
  BY StoredFacts DEF TypeInv, FeedRecord, Phase
<1> HIDE DEF o
<1>3. Cosmetic /\ Tick /\ HistOK'
  BY <1>1, MutateFinalizersFacts, HistSame DEF Tick
<1>4. /\ WorkPart(k)
      /\ \/ UNCHANGED apiVars /\ ~Exists(api[Feed]) /\ Others(k) /\ queue' = queue /\ Returned(k)
         \/ Write(Feed, o) /\ Others(k) /\ queue' = queue /\ Returned(k)
         \/ UNCHANGED apiVars /\ Requeued(k)
  BY <1>1, RequeuePart, ReturnPart
<1>5. CASE UNCHANGED apiVars
  <2>1. Steady
    BY <1>5, SteadySame
  <2>2. Calm
    BY <1>3, <1>4, <2>1, SteadyCalm
  <2>3. \/ Requeued(k)
        \/ Others(k) /\ queue' = queue /\ Returned(k) /\ ~Exists(api[Feed])
        \/ Others(k) /\ queue' = queue /\ Returned(k) /\ Write(Feed, o)
    BY <1>4
  <2>4. Write(Feed, o) => api'[Feed].phase = "gone"
    BY <1>2, FeedWritten
  <2>. QED  BY <1>1, <2>2, <2>3, <2>4 DEF Calm, OnlyFeed
<1>6. CASE Write(Feed, o) /\ Others(k) /\ queue' = queue /\ Returned(k)
  <2>1. Quiet /\ OnlyFeed /\ api'[Feed].phase = o.phase
    BY <1>2, <1>3, <1>4, <1>6, FeedQuiet
  <2>. QED  BY <1>1, <1>2, <1>6, <2>1
<1>. QED  BY <1>4, <1>5, <1>6

(* ... to a Subscription, ... *)
OnlySub(s) ==
  /\ FeedStays /\ OverridesStay /\ DescStays
  /\ \A q \in Sub \ {s} : api'[q] = api[q] /\ watch'[q] = watch[q]

LEMMA SubQuiet ==
  ASSUME TypeInv, NEW s \in Sub, NEW o \in SubRecord, Write(s, o),
         Cosmetic, NEW j \in Key, WorkPart(j), Tick, HistOK'
  PROVE  Quiet /\ OnlySub(s) /\ api'[s].phase = o.phase /\ api'[s].list = o.list
<1>1. StoreOK
  BY DEF TypeInv
<1>2. /\ Untouched(Object \ {s}) /\ DOMAIN api' = Object /\ DOMAIN watch' = Object
      /\ api'[s] \in SubRecord /\ watch'[s] \in Seq(SubRecord)
      /\ api'[s].phase = o.phase /\ api'[s].list = o.list
      /\ \/ api'[s] = api[s] /\ watch'[s] = watch[s]
         \/ watch'[s] = Append(watch[s], api'[s])
  BY <1>1, WriteSubFacts
<1>3. StoreTyped
  BY <1>1, <1>2, KindFacts, SMTT(30) DEF StoreTyped, Untouched, StoreOK
<1>4. Logged
  BY <1>2 DEF Logged, Untouched
<1>5. OnlySub(s) /\ \A k \in Key : api'[k].rev = api[k].rev
  BY <1>2, KindFacts DEF OnlySub, Untouched, FeedStays, OverridesStay, OverrideStays, DescStays
<1>6. EventsOK'
  <2>1. \A i \in Key : api'[i].rev + scenario'.left <= MaxEvents + 1
    BY <1>5, TickFacts, RevFacts, ConfigAssumption DEF TypeInv, EventsOK
  <2>. QED  BY <2>1, TickFacts DEF EventsOK
<1>7. Quiet
  BY <1>3, <1>4, <1>6, TickFacts, QuietStep
<1>. QED  BY <1>2, <1>5, <1>7

LEMMA EditSubFacts ==
  ASSUME TypeInv, NEW s \in Sub, NEW l \in List, EditSub(s, l)
  PROVE  /\ Quiet /\ UNCHANGED <<cache, workVars, outdated, shifted>> /\ OnlySub(s)
         /\ api'[s].phase = api[s].phase /\ api'[s].list = l
         /\ kept' = IF Feed \in ToSet(l) THEN kept ELSE kept \ {s}
<1> DEFINE o == [api[s] EXCEPT !.list = l]
<1>1. /\ UNCHANGED <<cache, workVars, outdated, shifted>> /\ Tick /\ Write(s, o)
      /\ kept' = IF Feed \in ToSet(l) THEN kept ELSE kept \ {s}
  BY DEF EditSub, Tick, EventKind
<1>2. o \in SubRecord /\ o.phase = api[s].phase /\ o.list = l
  BY StoredFacts DEF TypeInv, SubRecord
<1> HIDE DEF o
<1>3. HistOK'
  BY <1>1 DEF TypeInv, HistOK
<1>4. Cosmetic /\ WorkPart(Feed) /\ Feed \in Key
  BY <1>1, CosmeticSame, SamePart, KindFacts
<1>5. Quiet /\ OnlySub(s) /\ api'[s].phase = o.phase /\ api'[s].list = o.list
  BY <1>1, <1>2, <1>3, <1>4, SubQuiet
<1>. QED  BY <1>1, <1>2, <1>5

LEMMA DeleteSubFacts ==
  ASSUME TypeInv, NEW s \in Sub, DeleteSub(s)
  PROVE  /\ Quiet /\ UNCHANGED <<cache, workVars, outdated, shifted>> /\ OnlySub(s)
         /\ kept' = kept \ {s}
<1> DEFINE o == [api[s] EXCEPT !.phase = "deleting"]
<1>1. /\ UNCHANGED <<cache, workVars, outdated, shifted>> /\ Tick /\ Write(s, o)
      /\ kept' = kept \ {s}
  BY DEF DeleteSub, Tick, EventKind
<1>2. o \in SubRecord
  BY StoredFacts DEF TypeInv, SubRecord
<1> HIDE DEF o
<1>3. HistOK'
  BY <1>1 DEF TypeInv, HistOK
<1>4. Cosmetic /\ WorkPart(Feed) /\ Feed \in Key
  BY <1>1, CosmeticSame, SamePart, KindFacts
<1>5. Quiet /\ OnlySub(s)
  BY <1>1, <1>2, <1>3, <1>4, SubQuiet
<1>. QED  BY <1>1, <1>5

LEMMA RemoveFeedFromSubscriptionFacts ==
  ASSUME TypeInv, KeptInv, NEW k \in Key, NEW s \in Sub, NEW l \in List,
         RemoveFeedFromSubscription(k, [sub |-> s, list |-> l])
  PROVE  /\ Quiet /\ outdated' = outdated /\ OnlySub(s) /\ cache' = cache
         /\ api'[s].phase = api[s].phase
         /\ kept' = IF Feed \in ToSet(api'[s].list) THEN kept ELSE kept \ {s}
         /\ shifted => shifted'
         /\ job[k] # None /\ job[k].pc = "unlist" /\ Onward(k)
         /\ job'[k].obj = job[k].obj /\ job'[k].pc = "unlist"
         /\ job'[k].todo = job[k].todo \ {[sub |-> s, list |-> l]}
         /\ ~job'[k].failed /\ ~shifted' => ~job[k].failed /\ ~shifted /\ s \notin kept'
<1> DEFINE t == [sub |-> s, list |-> l]
           j == job[k]
           i == FeedIndex(l)
           fits == i <= Len(api[s].list)
           b == Unlisted(k, t, fits)
           o == [api[s] EXCEPT !.list = RemoveAt(api[s].list, i)]
<1>1. /\ j # None /\ j.pc = "unlist" /\ t \in j.todo /\ UNCHANGED <<cache, outdated, scenario>>
      /\ GoTo(k, b)
      /\ shifted' = (shifted \/ (fits /\ api[s].list[i] # Feed))
      /\ kept' = IF Feed \in ToSet(api'[s].list) THEN kept ELSE kept \ {s}
  BY DEF RemoveFeedFromSubscription, At
<1>2. IF fits THEN Write(s, o) ELSE UNCHANGED apiVars
  BY DEF RemoveFeedFromSubscription
<1>3. Feed \in ToSet(l)
  <2>1. Feed \in ToSet(t.list)
    BY <1>1 DEF KeptInv, KeptJob
  <2>. QED  BY <2>1
<1>4. i \in 1..Len(l) /\ Len(l) \in Nat
  BY <1>3, IndexFacts, ListFacts
<1>5. api[s] \in SubRecord /\ api[s].list \in List
  BY StoredFacts DEF TypeInv, SubRecord
<1>6. fits => i \in DOMAIN api[s].list
  <2>1. api[s].list \in Seq({Feed, Other}) /\ Len(api[s].list) \in Nat
    BY <1>5, ListFacts
  <2>. QED  BY <1>4, <2>1
<1>7. fits => RemoveAt(api[s].list, i) \in List
  BY <1>5, <1>6, RemoveFacts
<1>8. fits => o \in SubRecord /\ o.phase = api[s].phase /\ o.list = RemoveAt(api[s].list, i)
  BY <1>5, <1>7 DEF SubRecord
<1>9. j \in JobRecord /\ j.obj \in OfKind(k)
  BY <1>1, AtFacts
<1>10. /\ b \in JobRecord /\ b # None /\ b.pc = j.pc /\ b.obj = j.obj /\ b.origin = j.origin
       /\ b.want = j.want /\ b.todo = j.todo \ {t} /\ b.failed = (j.failed \/ ~fits)
  <2>1. fits \in BOOLEAN
    OBVIOUS
  <2> HIDE DEF fits, t
  <2>. QED  BY <1>9, <2>1, UnlistedFacts
<1> HIDE DEF b, o
<1>11. JobOK(k, b)
  BY <1>1, <1>9, <1>10 DEF JobOK
<1>12. WorkPart(k) /\ Others(k) /\ queue' = queue /\ job'[k] = b
  BY <1>1, <1>11, GoToPart
<1>13. HistOK'
  BY <1>1 DEF TypeInv, HistOK
<1>14. Cosmetic /\ Tick
  BY <1>1, CosmeticSame DEF Tick
<1>15. Onward(k)
  BY <1>1, <1>10, <1>12 DEF Onward
<1>16. CASE fits
  <2>1. Quiet /\ OnlySub(s) /\ api'[s].phase = o.phase /\ api'[s].list = o.list
    BY <1>2, <1>8, <1>12, <1>13, <1>14, <1>16, SubQuiet
  <2>2. ~b.failed /\ ~shifted' => ~j.failed /\ ~shifted /\ s \notin kept'
    <3> SUFFICES ASSUME ~b.failed, ~shifted' PROVE ~j.failed /\ ~shifted /\ s \notin kept'
      OBVIOUS
    <3>1. ~j.failed /\ ~shifted /\ api[s].list[i] = Feed
      BY <1>1, <1>10, <1>16
    <3>2. Feed \notin ToSet(api'[s].list)
      BY <1>5, <1>6, <1>8, <1>16, <2>1, <3>1, RemoveFacts
    <3>. QED  BY <1>1, <3>1, <3>2
  <2>. QED  BY <1>1, <1>8, <1>10, <1>12, <1>15, <1>16, <2>1, <2>2
<1>17. CASE ~fits
  <2>1. Steady
    BY <1>2, <1>17, SteadySame
  <2>2. Calm
    BY <1>12, <1>13, <1>14, <2>1, SteadyCalm
  <2>3. b.failed
    BY <1>10, <1>17
  <2>. QED  BY <1>1, <1>2, <1>10, <1>12, <1>15, <1>17, <2>2, <2>3 DEF Calm, OnlySub, SubsStay
<1>. QED  BY <1>16, <1>17

(* ... and to the Description. *)
LEMMA SyncDescriptionFacts ==
  ASSUME TypeInv, NEW k \in Key, SyncDescription(k)
  PROVE  /\ Quiet /\ FeedStays /\ OverridesStay /\ SubsStay
         /\ cache' = cache /\ kept' = kept /\ shifted' = shifted
         /\ job[k] # None /\ job[k].pc = "sync"
         /\ \/ Requeued(k) /\ DescStays /\ outdated' = outdated
            \/ /\ Others(k) /\ queue' = queue /\ Returned(k)
               /\ ~outdated' => api'[Desc].value = Rendered
               /\ api'[Desc].value \in {api[Desc].value, job[k].want}
<1> DEFINE j == job[k]
           o == [api[Desc] EXCEPT !.value = j.want]
<1>1. /\ j # None /\ j.pc = "sync" /\ UNCHANGED <<cache, kept, shifted, scenario>>
      /\ \/ UNCHANGED apiVars /\ Return(k) /\ outdated' = (api'[Desc].value # Rendered)
         \/ Write(Desc, o) /\ Return(k) /\ outdated' = (api'[Desc].value # Rendered)
         \/ UNCHANGED apiVars /\ Requeue(k) /\ outdated' = outdated
  BY DEF SyncDescription, At
<1>2. j.want \in Value /\ api[Desc] \in DescRecord
  BY <1>1, AtFacts, JobFields, StoredFacts DEF TypeInv
<1>3. o \in DescRecord /\ o.value = j.want
  BY <1>2 DEF DescRecord
<1> HIDE DEF o
<1>4. Cosmetic /\ Tick /\ HistOK'
  BY <1>1, CosmeticSame DEF Tick, TypeInv, HistOK
<1>5. /\ WorkPart(k)
      /\ \/ /\ UNCHANGED apiVars \/ Write(Desc, o)
            /\ Others(k) /\ queue' = queue /\ Returned(k) /\ outdated' = (api'[Desc].value # Rendered)
         \/ UNCHANGED apiVars /\ Requeued(k) /\ outdated' = outdated
  BY <1>1, RequeuePart, ReturnPart
<1>6. CASE UNCHANGED apiVars
  <2>1. Steady
    BY <1>6, SteadySame
  <2>2. Calm
    BY <1>4, <1>5, <2>1, SteadyCalm
  <2>. QED  BY <1>1, <1>5, <1>6, <2>2 DEF Calm, DescStays
<1>7. CASE Write(Desc, o) /\ ~UNCHANGED apiVars
  <2>1. /\ Untouched(Object \ {Desc}) /\ DOMAIN api' = Object /\ DOMAIN watch' = Object
        /\ api'[Desc] \in DescRecord /\ watch'[Desc] \in Seq(DescRecord)
        /\ api'[Desc].value = o.value
    BY <1>3, <1>7, WriteDescFacts DEF TypeInv
  <2>2. StoreTyped
    BY <2>1, KindFacts DEF StoreTyped, Untouched, TypeInv, StoreOK
  <2>3. Logged
    <3>1. o \in OfKind(Desc) /\ Desc \in Object
      BY <1>3, KindFacts
    <3>2. \/ api'[Desc] = api[Desc] /\ watch'[Desc] = watch[Desc]
          \/ watch'[Desc] = Append(watch[Desc], api'[Desc])
      BY <1>7, <3>1, WriteFacts DEF TypeInv
    <3>. QED  BY <2>1, <3>2 DEF Logged, Untouched
  <2>4. FeedStays /\ OverridesStay /\ SubsStay /\ \A i \in Key : api'[i].rev = api[i].rev
    BY <2>1, KindFacts DEF Untouched, FeedStays, OverridesStay, OverrideStays, SubsStay
  <2>5. EventsOK'
    BY <1>4, <2>4, TickFacts, RevFacts, ConfigAssumption DEF TypeInv, EventsOK
  <2>6. Quiet
    BY <1>4, <1>5, <2>2, <2>3, <2>5, TickFacts, QuietStep
  <2>. QED  BY <1>1, <1>3, <1>5, <1>7, <2>1, <2>4, <2>6
<1>. QED  BY <1>5, <1>6, <1>7

-----------------------------------------------------------------------------
(* Deliveries, restarts and the initial state.                             *)

LEMMA DeliverFacts ==
  ASSUME TypeInv, NEW k \in Object, Deliver(k)
  PROVE  /\ TypeInv' /\ UNCHANGED <<api, job, histVars, scenario>>
         /\ watch[k] # <<>> /\ cache'[k] = watch[k][1]
         /\ Len(watch[k]) \in Nat \ {0} /\ DOMAIN watch[k] = 1..Len(watch[k])
         /\ watch'[k] = Tail(watch[k]) /\ Len(watch'[k]) = Len(watch[k]) - 1
         /\ DOMAIN watch'[k] = 1..(Len(watch[k]) - 1)
         /\ \A i \in DOMAIN watch'[k] : i + 1 \in DOMAIN watch[k] /\ watch'[k][i] = watch[k][i + 1]
         /\ \A j \in Object \ {k} : cache'[j] = cache[j] /\ watch'[j] = watch[j]
         /\ queue \subseteq queue' /\ queue' \subseteq queue \cup {k}
         /\ EventEnqueues(k, cache[k], cache'[k]) => k \in queue'
<1> DEFINE w == watch[k]
<1>1. /\ w # <<>> /\ cache' = [cache EXCEPT ![k] = Head(w)] /\ watch' = [watch EXCEPT ![k] = Tail(w)]
      /\ queue' = IF EventEnqueues(k, cache[k], Head(w)) THEN queue \cup {k} ELSE queue
      /\ UNCHANGED <<api, job, histVars, scenario>>
  BY DEF Deliver
<1>2. w \in Seq(OfKind(k))
  BY DEF TypeInv, StoreOK
<1> HIDE DEF w
<1>3. /\ Head(w) = w[1] /\ Head(w) \in OfKind(k) /\ Tail(w) \in Seq(OfKind(k))
      /\ Len(w) \in Nat \ {0} /\ DOMAIN w = 1..Len(w) /\ Len(Tail(w)) = Len(w) - 1
      /\ \A i \in 1..Len(Tail(w)) : Tail(w)[i] = w[i + 1]
  BY <1>1, <1>2
<1>4. /\ cache'[k] = Head(w) /\ watch'[k] = Tail(w)
      /\ \A j \in Object \ {k} : cache'[j] = cache[j] /\ watch'[j] = watch[j]
  BY <1>1 DEF TypeInv, StoreOK
<1>5. StoreOK'
  BY <1>1, <1>3, <1>4 DEF TypeInv, StoreOK
<1>6. WorkOK'
  <2>1. queue' \subseteq Key
    BY <1>1, KindFacts DEF TypeInv, WorkOK, EventEnqueues
  <2>. QED  BY <1>1, <2>1 DEF TypeInv, WorkOK
<1>7. HistOK' /\ EventsOK'
  BY <1>1 DEF TypeInv, HistOK, EventsOK, histVars
<1>8. DOMAIN watch'[k] = 1..(Len(w) - 1)
  <2>1. DOMAIN Tail(w) = 1..Len(Tail(w))
    BY <1>3
  <2>. QED  BY <1>3, <1>4, <2>1
<1>9. \A i \in DOMAIN watch'[k] : i + 1 \in DOMAIN w /\ watch'[k][i] = w[i + 1]
  BY <1>3, <1>4, <1>8
<1>. QED  BY <1>1, <1>3, <1>4, <1>5, <1>6, <1>7, <1>8, <1>9 DEF TypeInv, w

LEMMA RestartFacts ==
  ASSUME TypeInv, Restart
  PROVE  /\ TypeInv' /\ SamePlan /\ UNCHANGED <<api, histVars>> /\ cache' = api
         /\ \A k \in Object : watch'[k] = <<>>
         /\ queue' = {k \in Key : Exists(api[k])} /\ \A k \in Key : job'[k] = None
<1>1. /\ Tick /\ UNCHANGED <<api, histVars>> /\ cache' = api
      /\ watch' = [k \in Object |-> <<>>] /\ queue' = {k \in Key : Exists(api[k])}
      /\ job' = [k \in Key |-> None]
  BY DEF Restart, Tick, EventKind
<1>2. StoreOK'
  BY <1>1 DEF TypeInv, StoreOK
<1>3. WorkOK'
  BY <1>1 DEF TypeInv, WorkOK
<1>4. HistOK'
  BY <1>1 DEF TypeInv, HistOK, histVars
<1>5. EventsOK'
  BY <1>1, TickFacts, RevFacts, ConfigAssumption DEF TypeInv, EventsOK
<1>. QED  BY <1>1, <1>2, <1>3, <1>4, <1>5, TickFacts DEF TypeInv

-----------------------------------------------------------------------------
(* What a step that delivers nothing preserves.                            *)

LEMMA AppendFacts ==
  ASSUME NEW S, NEW w \in Seq(S), NEW x \in S
  PROVE  /\ Append(w, x) # <<>> /\ Append(w, x)[Len(Append(w, x))] = x
         /\ DOMAIN Append(w, x) = 1..(Len(w) + 1) /\ Append(w, x)[Len(w) + 1] = x
         /\ DOMAIN w = 1..Len(w) /\ Len(w) \in Nat
         /\ \A i \in 1..Len(w) : Append(w, x)[i] = w[i]
OBVIOUS

(* An entry of the watch is an old one or what is stored now. *)
LEMMA LoggedEntry ==
  ASSUME TypeInv, Quiet, NEW k \in Object, NEW i \in DOMAIN watch'[k]
  PROVE  \/ i \in DOMAIN watch[k] /\ watch'[k][i] = watch[k][i]
         \/ /\ watch'[k][i] = api'[k] /\ ~(api'[k] = api[k] /\ watch'[k] = watch[k])
            /\ \A j \in DOMAIN watch'[k] : ~(i < j)
<1>1. /\ watch[k] \in Seq(OfKind(k)) /\ api'[k] \in OfKind(k)
      /\ \/ api'[k] = api[k] /\ watch'[k] = watch[k]
         \/ watch'[k] = Append(watch[k], api'[k])
  BY DEF Quiet, TypeInv, StoreOK, Logged
<1>2. CASE api'[k] = api[k] /\ watch'[k] = watch[k]
  BY <1>2
<1>3. CASE watch'[k] = Append(watch[k], api'[k]) /\ ~(api'[k] = api[k] /\ watch'[k] = watch[k])
  <2> DEFINE w == watch[k]
             x == api'[k]
  <2>1. w \in Seq(OfKind(k)) /\ x \in OfKind(k)
    BY <1>1
  <2> HIDE DEF w, x
  <2>2. /\ DOMAIN Append(w, x) = 1..(Len(w) + 1) /\ Append(w, x)[Len(w) + 1] = x
        /\ DOMAIN w = 1..Len(w) /\ Len(w) \in Nat
        /\ \A j \in 1..Len(w) : Append(w, x)[j] = w[j]
    BY <2>1, AppendFacts
  <2>3. watch'[k] = Append(w, x) /\ i \in DOMAIN Append(w, x)
    BY <1>3 DEF w, x
  <2>4. CASE i = Len(w) + 1
    <3>1. \A j \in DOMAIN watch'[k] : ~(i < j)
      BY <2>2, <2>3, <2>4
    <3>. QED  BY <1>3, <2>2, <2>3, <2>4, <3>1 DEF w, x
  <2>5. CASE i # Len(w) + 1
    <3>1. i \in 1..Len(w)
      BY <2>2, <2>3, <2>5
    <3>. QED  BY <2>2, <2>3, <3>1 DEF w, x
  <2>. QED  BY <2>4, <2>5
<1>. QED  BY <1>1, <1>2, <1>3

LEMMA QuietLast ==
  ASSUME TypeInv, LastInv, Quiet
  PROVE  LastInv'
<1>1. \A j \in Key : Agree(cache'[j], cache[j])
  BY DEF Quiet, Cosmetic
<1>2. \A o \in Override : cache'[o].lab = cache[o].lab
  BY DEF Quiet, Cosmetic
<1>3. ASSUME NEW k \in Key, watch'[k] # watch[k] \/ api'[k] # api[k]
      PROVE  watch'[k] # <<>> /\ watch'[k][Len(watch'[k])] = api'[k]
  <2>1. /\ watch[k] \in Seq(OfKind(k)) /\ api'[k] \in OfKind(k)
        /\ watch'[k] = Append(watch[k], api'[k])
    BY <1>3, KindFacts DEF Quiet, TypeInv, StoreOK, Logged
  <2>. QED  BY <2>1, AppendFacts
<1>4. ASSUME NEW k \in Key
      PROVE  IF watch'[k] = <<>> THEN Agree(cache'[k], api'[k])
             ELSE Agree(watch'[k][Len(watch'[k])], api'[k])
  <2>1. CASE watch'[k] = watch[k] /\ api'[k] = api[k]
    BY <1>1, <2>1 DEF LastInv, Agree
  <2>2. CASE watch'[k] # watch[k] \/ api'[k] # api[k]
    BY <1>3, <2>2 DEF Agree
  <2>. QED  BY <2>1, <2>2
<1>5. ASSUME NEW o \in Override
      PROVE  IF watch'[o] = <<>> THEN cache'[o].lab = api'[o].lab
             ELSE watch'[o][Len(watch'[o])].lab = api'[o].lab
  <2>1. CASE watch'[o] = watch[o] /\ api'[o] = api[o]
    BY <1>2, <2>1 DEF LastInv
  <2>2. CASE watch'[o] # watch[o] \/ api'[o] # api[o]
    BY <1>3, <2>2, KindFacts
  <2>. QED  BY <2>1, <2>2
<1>. QED  BY <1>4, <1>5 DEF LastInv

LEMMA QuietFeed ==
  ASSUME TypeInv, FeedInv, Quiet, api'[Feed].phase # "absent",
         api'[Feed].phase = "live" => api[Feed].phase = "live" /\ \A k \in Key : FeedJob(k)'
  PROVE  FeedInv'
<1>1. cache'[Feed].phase = cache[Feed].phase
  BY KindFacts DEF Quiet, Cosmetic, Agree
<1>2. ASSUME NEW i \in DOMAIN watch'[Feed]
      PROVE  \/ i \in DOMAIN watch[Feed] /\ watch'[Feed][i] = watch[Feed][i]
             \/ watch'[Feed][i] = api'[Feed]
  BY LoggedEntry, KindFacts
<1>. QED  BY <1>1, <1>2 DEF FeedInv

LEMMA QuietKept ==
  ASSUME TypeInv, Quiet, \A s \in kept' : Listed(s) /\ Lists(api'[s]),
         \A k \in Key : KeptJob(k)', ReferredFeedKept'
  PROVE  KeptInv'
<1>1. ASSUME NEW s \in kept' PROVE Listed(s)'
  <2>1. s \in Sub /\ s \in Object
    BY KindFacts DEF Quiet, TypeInv, HistOK
  <2>2. cache'[s] = cache[s]
    BY <2>1 DEF Quiet, Cosmetic
  <2>3. ASSUME NEW i \in DOMAIN watch'[s] PROVE Lists(watch'[s][i])
    BY <2>1, LoggedEntry DEF Listed
  <2>. QED  BY <2>2, <2>3 DEF Listed, Lists
<1>. QED  BY <1>1 DEF KeptInv

LEMMA BehindFacts ==
  ASSUME NEW o, NEW p, NEW q
  PROVE  /\ Behind(o, o)
         /\ Behind(o, p) /\ Behind(p, q) => Behind(o, q)
         /\ o.phase = p.phase /\ o.lab = p.lab => Behind(o, p) /\ Behind(p, o)
BY DEF Behind, Past, Ended

LEMMA QuietForward ==
  ASSUME TypeInv, Quiet, NEW o \in Override, Forward(o), Behind(api[o], api'[o]),
         api'[o].phase # "absent" \/ (api'[o] = api[o] /\ watch'[o] = watch[o]),
         api'[o].phase = "gone" => Past(cache[o])
  PROVE  Forward(o)'
<1>1. cache'[o].phase = cache[o].phase /\ cache'[o].lab = cache[o].lab /\ o \in Object
  BY KindFacts DEF Quiet, Cosmetic, Agree
<1>2. \A p : Behind(cache[o], p) => Behind(cache'[o], p)
  BY <1>1 DEF Behind, Past, Ended
<1>3. Behind(cache[o], api'[o])
  BY BehindFacts DEF Forward
<1>4. Past(cache[o]) => Past(cache'[o])
  BY <1>1 DEF Past
<1> DEFINE w == watch'[o]
<1>5. ASSUME NEW i \in DOMAIN w
      PROVE  /\ w[i].phase # "absent" /\ Behind(cache'[o], w[i]) /\ Behind(w[i], api'[o])
             /\ \A j \in DOMAIN w : i < j => Behind(w[i], w[j])
  <2>1. ASSUME NEW j \in DOMAIN w
        PROVE  \/ j \in DOMAIN watch[o] /\ w[j] = watch[o][j]
               \/ w[j] = api'[o] /\ api'[o].phase # "absent" /\ \A n \in DOMAIN w : ~(j < n)
    BY <1>1, LoggedEntry
  <2> HIDE DEF w
  <2>2. CASE i \in DOMAIN watch[o] /\ w[i] = watch[o][i]
    <3>1. Behind(w[i], api'[o])
      BY <2>2, BehindFacts DEF Forward
    <3>2. \A j \in DOMAIN w : i < j => Behind(w[i], w[j])
      BY <2>1, <2>2, <3>1 DEF Forward
    <3>. QED  BY <1>2, <2>2, <3>1, <3>2 DEF Forward
  <2>3. CASE w[i] = api'[o] /\ api'[o].phase # "absent" /\ \A n \in DOMAIN w : ~(i < n)
    BY <1>2, <1>3, <2>3, BehindFacts
  <2>. QED  BY <2>1, <2>2, <2>3
<1>. QED  BY <1>2, <1>3, <1>4, <1>5 DEF Forward

LEMMA JobForward ==
  ASSUME TypeInv, Quiet, NEW o \in Override, ForwardJob(o), Behind(api[o], api'[o]),
         job'[o] = job[o]
  PROVE  ForwardJob(o)'
<1>1. cache'[o].phase = cache[o].phase /\ cache'[o].lab = cache[o].lab
  BY KindFacts DEF Quiet, Cosmetic, Agree
<1>2. \A p : Behind(p, cache[o]) => Behind(p, cache'[o])
  BY <1>1 DEF Behind, Past, Ended
<1>3. job[o] # None => Behind(job[o].obj, api'[o])
  BY BehindFacts DEF ForwardJob
<1>. QED  BY <1>1, <1>2, <1>3 DEF ForwardJob

(* What the properties of the Description look at. *)
LEMMA SameView ==
  ASSUME TypeInv, SamePlan, DescStays, Cosmetic
  PROVE  /\ Plain(cache[Feed])'.rev = Plain(cache[Feed]).rev
         /\ api'[Desc].value.rev = api[Desc].value.rev
         /\ \A o \in Override : /\ ApplyNow(o)' <=> ApplyNow(o)
                                /\ Shown(o)' = Shown(o) /\ Due(o)' = Due(o)
                                /\ Exists(cache'[o]) <=> Exists(cache[o])
<1>1. \A o \in Override : cache'[o].phase = cache[o].phase /\ cache'[o].rev = cache[o].rev
                          /\ cache'[o].lab = cache[o].lab
  BY KindFacts DEF Cosmetic, Agree
<1>2. cache'[Feed].rev = cache[Feed].rev
  BY KindFacts DEF Cosmetic, Agree
<1>3. Plain(cache[Feed])'.rev = Plain(cache[Feed]).rev
  BY <1>2 DEF SamePlan, Plain, IsChart
<1>4. \A o \in Override : Shown(o)' = Shown(o) /\ Due(o)' = Due(o)
  BY <1>1 DEF DescStays, Shown, Due
<1>5. \A o \in Override : (ApplyNow(o)' <=> ApplyNow(o)) /\ (Exists(cache'[o]) <=> Exists(cache[o]))
  BY <1>1 DEF SamePlan, ApplyNow, Exists
<1>. QED  BY <1>3, <1>4, <1>5 DEF DescStays

(* An override that the cache knows of is shown as it is due, or exists. *)
LEMMA SettledFacts ==
  ASSUME TypeInv, NEW o \in Override, Forward(o), LeaveAt(o), ApplyNow(o),
         api[o].phase # "escaped", cache[o].phase # "absent"
  PROVE  Exists(cache[o]) \/ Shown(o) = Due(o)
<1> SUFFICES ASSUME ~Exists(cache[o]) PROVE Shown(o) = Due(o)
  OBVIOUS
<1>1. cache[o].phase \in {"gone", "escaped"}
  BY StoredFacts DEF TypeInv, OverrideRecord, Phase, Exists
<1>2. api[o].phase = cache[o].phase
  BY <1>1 DEF Forward, Behind, Ended
<1>3. api[o].phase = "gone"
  BY <1>1, <1>2
<1>. QED  BY <1>1, <1>3 DEF LeaveAt, Due

-----------------------------------------------------------------------------
(* Steps of the worker of k that leave the overrides and the Description   *)
(* alone.                                                                  *)
Still == /\ Quiet /\ OverridesStay /\ DescStays
         /\ api'[Feed].phase = "live" => api[Feed].phase = "live"
         /\ outdated => outdated'

LEMMA StillForward ==
  ASSUME TypeInv, ForwardInv, Quiet, NEW o \in Override, OverrideStays(o)
  PROVE  /\ Behind(api[o], api'[o]) /\ Forward(o)'
         /\ job'[o] = job[o] => ForwardJob(o)'
<1>1. Behind(api[o], api'[o])
  BY BehindFacts DEF OverrideStays
<1>2. Forward(o)'
  BY <1>1, QuietForward DEF ForwardInv, Forward, OverrideStays
<1>. QED  BY <1>1, <1>2, JobForward DEF ForwardInv

(* The others do not notice. *)
LEMMA StillOthers ==
  ASSUME TypeInv, Quiet, DescStays, NEW o \in Override, OverrideStays(o),
         job'[o] = job[o], o \in queue => o \in queue'
  PROVE  (LabelAt(o) => LabelAt(o)') /\ (LeaveAt(o) => LeaveAt(o)') /\ (FreshAt(o) => FreshAt(o)')
<1>1. /\ ApplyNow(o)' <=> ApplyNow(o)
      /\ Shown(o)' = Shown(o) /\ Due(o)' = Due(o) /\ (Exists(cache'[o]) <=> Exists(cache[o]))
  BY SameView DEF Quiet
<1>2. api'[o].phase = api[o].phase /\ api'[o].lab = api[o].lab /\ cache'[o].phase = cache[o].phase
  BY KindFacts DEF Quiet, OverrideStays, Cosmetic, Agree
<1>3. LabelAt(o) => LabelAt(o)'
  BY <1>2 DEF LabelAt
<1>4. LeaveAt(o) => LeaveAt(o)'
  BY <1>1, <1>2 DEF LeaveAt
<1>5. FreshAt(o) => FreshAt(o)'
  BY <1>1 DEF FreshAt
<1>. QED  BY <1>3, <1>4, <1>5

LEMMA KeyStep ==
  ASSUME TypeInv, OverridesInv, Quiet, DescStays,
         api'[Feed].phase = "live" => api[Feed].phase = "live", outdated => outdated',
         NEW k \in Key, Others(k), \A o \in Override \ {k} : OverrideStays(o),
         k \in Override => Behind(api[k], api'[k]) /\ Forward(k)' /\ ForwardJob(k)' /\ LabelAt(k)',
         job'[k] # None => InOrder(job'[k].want.ovs),
         k \in Override /\ api'[Feed].phase = "live" /\ ~outdated' => LeaveAt(k)',
         api'[Feed].phase = "live" /\ ~outdated' /\ NoEscape' /\ NoEscape =>
           (k = Feed => FreshFeed') /\ (k \in Override => FreshAt(k)')
  PROVE  OverridesInv'
<1>1. \A j \in Key \ {k} : job'[j] = job[j] /\ (j \in queue' <=> j \in queue)
  BY DEF Others
<1>2. ASSUME NEW o \in Override PROVE Forward(o)' /\ ForwardJob(o)'
  BY <1>1, StillForward, KindFacts DEF OverridesInv
<1>3. ASSUME NEW o \in Override PROVE LabelAt(o)'
  BY <1>1, StillOthers, KindFacts DEF OverridesInv, LabelInv
<1>4. OrderInv'
  <2>1. \A j \in Key : job'[j] # None => InOrder(job'[j].want.ovs)
    BY <1>1 DEF OverridesInv, OrderInv
  <2>2. InOrder(api'[Desc].value.ovs)
    BY DEF OverridesInv, OrderInv, DescStays
  <2>. QED  BY <2>1, <2>2 DEF OrderInv, InOrder
<1>5. LeaveInv'
  <2> SUFFICES ASSUME api'[Feed].phase = "live", ~outdated', NEW o \in Override PROVE LeaveAt(o)'
    BY DEF LeaveInv
  <2>1. api[Feed].phase = "live" /\ ~outdated
    OBVIOUS
  <2>. QED  BY <1>1, <2>1, StillOthers, KindFacts DEF OverridesInv, LeaveInv
<1>6. FreshInv'
  <2> SUFFICES ASSUME api'[Feed].phase = "live", ~outdated', NoEscape'
               PROVE  FreshFeed' /\ \A o \in Override : FreshAt(o)'
    BY DEF FreshInv
  <2>1. NoEscape
    BY DEF NoEscape, OverrideStays, Behind, Ended
  <2>2. FreshFeed /\ \A o \in Override : FreshAt(o)
    BY <2>1 DEF OverridesInv, FreshInv
  <2>3. FreshFeed'
    <3>1. CASE k = Feed
      BY <2>1, <3>1
    <3>2. CASE k # Feed
      BY <1>1, <2>2, <3>2, SameView, KindFacts DEF Quiet, FreshFeed
    <3>. QED  BY <3>1, <3>2
  <2>4. ASSUME NEW o \in Override PROVE FreshAt(o)'
    <3>1. CASE k = o
      BY <2>1, <3>1
    <3>2. CASE k # o
      BY <1>1, <2>2, <3>2, StillOthers, KindFacts
    <3>. QED  BY <3>1, <3>2
  <2>. QED  BY <2>3, <2>4
<1>7. LastInv'
  BY QuietLast DEF OverridesInv
<1>. QED  BY <1>2, <1>3, <1>4, <1>5, <1>6, <1>7 DEF OverridesInv, ForwardInv, LabelInv

LEMMA StillStep ==
  ASSUME TypeInv, OverridesInv, Still, NEW k \in Key, Others(k),
         job'[k] # None => InOrder(job'[k].want.ovs),
         k \in Override => ForwardJob(k)' /\ LabelAt(k)',
         k \in Override /\ api'[Feed].phase = "live" /\ ~outdated' => LeaveAt(k)',
         api'[Feed].phase = "live" /\ ~outdated' /\ NoEscape =>
           (k = Feed => FreshFeed') /\ (k \in Override => FreshAt(k)')
  PROVE  OverridesInv'
<1>1. \A o \in Override : OverrideStays(o)
  BY DEF Still, OverridesStay, OverrideStays
<1>2. \A o \in Override : Behind(api[o], api'[o]) /\ Forward(o)'
  BY <1>1, StillForward DEF Still, OverridesInv
<1>. QED  BY <1>1, <1>2, KeyStep DEF Still

LEMMA RequeuedStep ==
  ASSUME TypeInv, OverridesInv, Still, NEW k \in Key, job[k] # None, Requeued(k)
  PROVE  OverridesInv'
<1>1. Others(k) /\ job'[k] = None /\ k \in queue'
  BY DEF Requeued
<1>2. ForwardJob(k)' /\ LabelAt(k)'
  BY <1>1 DEF ForwardJob, LabelAt
<1>3. ASSUME k \in Override, api'[Feed].phase = "live", ~outdated' PROVE LeaveAt(k)' /\ LeaveAt(k)
  <2>1. LeaveAt(k)
    BY <1>3 DEF Still, OverridesInv, LeaveInv
  <2>2. (ApplyNow(k)' <=> ApplyNow(k)) /\ Shown(k)' = Shown(k)
    BY <1>3, SameView DEF Still, Quiet
  <2>. QED  BY <1>1, <1>3, <2>1, <2>2 DEF LeaveAt, Still, OverridesStay, OverrideStays
<1>4. ASSUME k \in Override, api'[Feed].phase = "live", ~outdated', NoEscape PROVE FreshAt(k)'
  <2>1. ApplyNow(k) => Exists(cache[k]) \/ Shown(k) = Due(k)
    <3>1. Forward(k) /\ cache[k].phase # "absent"
      BY <1>4 DEF OverridesInv, ForwardInv, ForwardJob
    <3>. QED  BY <1>3, <1>4, <3>1, SettledFacts DEF NoEscape
  <2>2. /\ ApplyNow(k)' <=> ApplyNow(k)
        /\ Shown(k)' = Shown(k) /\ Due(k)' = Due(k) /\ (Exists(cache'[k]) <=> Exists(cache[k]))
    BY <1>4, SameView DEF Still, Quiet
  <2>. QED  BY <1>1, <2>1, <2>2 DEF FreshAt
<1>5. k = Feed => FreshFeed'
  BY <1>1 DEF FreshFeed
<1>. QED  BY <1>1, <1>2, <1>3, <1>4, <1>5, StillStep

LEMMA OnwardStep ==
  ASSUME TypeInv, OverridesInv, Still, NEW k \in Key, job[k] # None, Onward(k)
  PROVE  OverridesInv'
<1>1. Others(k) /\ queue' = queue /\ job'[k] # None
  BY DEF Onward
<1>2. InOrder(job'[k].want.ovs)
  BY DEF Onward, OverridesInv, OrderInv
<1>3. ASSUME k \in Override PROVE ForwardJob(k)'
  <2>1. Behind(api[k], api'[k])
    BY <1>3, StillForward DEF Still, OverridesInv, OverridesStay, OverrideStays
  <2>2. cache'[k].phase = cache[k].phase /\ cache'[k].lab = cache[k].lab
    BY <1>3, KindFacts DEF Still, Quiet, Cosmetic, Agree
  <2>3. \A p : Behind(p, cache[k]) => Behind(p, cache'[k])
    BY <2>2 DEF Behind, Past, Ended
  <2>4. /\ Exists(job[k].obj) /\ Behind(job[k].obj, api[k]) /\ cache[k].phase # "absent"
        /\ job[k].origin = "lister" => Behind(job[k].obj, cache[k])
    BY <1>3 DEF OverridesInv, ForwardInv, ForwardJob
  <2>5. job'[k].obj = job[k].obj /\ job'[k].origin = job[k].origin
        /\ job'[k].pc \notin {"release", "inject"}
    BY <1>3 DEF Onward
  <2>6. Behind(job[k].obj, api'[k])
    BY <2>1, <2>4, BehindFacts
  <2>. QED  BY <2>2, <2>3, <2>4, <2>5, <2>6 DEF ForwardJob
<1>4. ASSUME k \in Override PROVE LabelAt(k)'
  <2>1. api'[k].phase = api[k].phase /\ api'[k].lab = api[k].lab /\ cache'[k].phase = cache[k].phase
    BY <1>4, KindFacts DEF Still, Quiet, OverridesStay, OverrideStays, Cosmetic, Agree
  <2>. QED  BY <1>1, <1>4, <2>1 DEF OverridesInv, LabelInv, LabelAt, Onward
<1>5. ASSUME k \in Override, api'[Feed].phase = "live", ~outdated' PROVE LeaveAt(k)'
  <2>1. LeaveAt(k)
    BY <1>5 DEF Still, OverridesInv, LeaveInv
  <2>2. (ApplyNow(k)' <=> ApplyNow(k)) /\ Shown(k)' = Shown(k)
    BY <1>5, SameView DEF Still, Quiet
  <2>. QED  BY <1>5, <2>1, <2>2 DEF LeaveAt, Still, OverridesStay, OverrideStays, Onward
<1>6. (k = Feed => FreshFeed') /\ (k \in Override => FreshAt(k)')
  BY <1>1 DEF FreshFeed, FreshAt, Onward
<1>. QED  BY <1>1, <1>2, <1>3, <1>4, <1>5, <1>6, StillStep

LEMMA ReturnedJob ==
  ASSUME TypeInv, OverridesInv, Quiet, OverridesStay, NEW k \in Key, job[k] # None,
         queue' = queue, Returned(k), job[k].pc \notin {"inject", "label"}
  PROVE  /\ k \in Override => ForwardJob(k)' /\ LabelAt(k)'
         /\ job'[k] # None => InOrder(job'[k].want.ovs)
<1>1. job'[k] # None => InOrder(job'[k].want.ovs)
  BY DEF Returned, OverridesInv, OrderInv
<1>2. ASSUME k \in Override PROVE ForwardJob(k)'
  <2>1. Behind(api[k], api'[k])
    BY <1>2, StillForward DEF OverridesInv, OverridesStay, OverrideStays
  <2>2. cache'[k].phase = cache[k].phase /\ cache'[k].lab = cache[k].lab
    BY <1>2, KindFacts DEF Quiet, Cosmetic, Agree
  <2>3. \A p : Behind(p, cache[k]) => Behind(p, cache'[k])
    BY <2>2 DEF Behind, Past, Ended
  <2>4. /\ Exists(job[k].obj) /\ Behind(job[k].obj, api[k]) /\ cache[k].phase # "absent"
        /\ job[k].origin = "lister" => Behind(job[k].obj, cache[k])
    BY <1>2 DEF OverridesInv, ForwardInv, ForwardJob
  <2>5. Behind(job[k].obj, api'[k])
    BY <2>1, <2>4, BehindFacts
  <2>. QED  BY <2>2, <2>3, <2>4, <2>5 DEF ForwardJob, Returned
<1>3. ASSUME k \in Override PROVE LabelAt(k)'
  <2>1. api'[k].phase = api[k].phase /\ api'[k].lab = api[k].lab /\ cache'[k].phase = cache[k].phase
    BY <1>3, KindFacts DEF Quiet, OverridesStay, OverrideStays, Cosmetic, Agree
  <2>. QED  BY <1>3, <2>1 DEF OverridesInv, LabelInv, LabelAt
<1>. QED  BY <1>1, <1>2, <1>3

LEMMA ReturnedStep ==
  ASSUME TypeInv, OverridesInv, Still, NEW k \in Key, job[k] # None, Others(k),
         queue' = queue, Returned(k), job[k].pc \notin {"inject", "label"},
         outdated' \/ api'[Feed].phase # "live" \/ (k \in Override /\ ~ApplyNow(k))
  PROVE  OverridesInv'
<1>1. /\ k \in Override => ForwardJob(k)' /\ LabelAt(k)'
      /\ job'[k] # None => InOrder(job'[k].want.ovs)
  BY ReturnedJob DEF Still
<1>2. ASSUME api'[Feed].phase = "live", ~outdated' PROVE k \in Override /\ ~ApplyNow(k)'
  BY <1>2, SameView DEF Still, Quiet
<1>3. api'[Feed].phase = "live" /\ ~outdated' => k \in Override /\ LeaveAt(k)' /\ FreshAt(k)'
  BY <1>2 DEF LeaveAt, FreshAt
<1>4. k \in Override => k # Feed
  BY KindFacts
<1>. QED  BY <1>1, <1>3, <1>4, StillStep

(* Users who leave the overrides alone. *)
LEMMA UserStep ==
  ASSUME TypeInv, OverridesInv, Still, UNCHANGED workVars
  PROVE  OverridesInv'
<1>1. Feed \in Key /\ Feed \notin Override
  BY KindFacts
<1>2. Others(Feed) /\ queue' = queue /\ job' = job
  BY <1>1, SamePart DEF WorkPart
<1>3. job'[Feed] # None => InOrder(job'[Feed].want.ovs)
  BY <1>1, <1>2 DEF OverridesInv, OrderInv
<1>4. ASSUME api'[Feed].phase = "live", ~outdated', NoEscape PROVE FreshFeed'
  <2>1. FreshFeed
    BY <1>4 DEF Still, OverridesInv, FreshInv
  <2>. QED  BY <1>2, <2>1, SameView DEF Still, Quiet, FreshFeed
<1>. QED  BY <1>1, <1>2, <1>3, <1>4, StillStep

LEMMA CalmStill ==
  ASSUME Calm, outdated => outdated'
  PROVE  Still
BY DEF Calm, Still, FeedStays

LEMMA GetItemStep ==
  ASSUME IInv, NEW k \in Key, GetItem(k)
  PROVE  OverridesInv'
<1>1. TypeInv /\ OverridesInv
  BY DEF IInv
<1>2. /\ Calm /\ UNCHANGED histVars /\ cache' = cache
      /\ Others(k) /\ job[k] = None /\ k \in queue /\ k \notin queue'
      /\ \/ ~Exists(cache[k]) /\ job'[k] = None
         \/ /\ Exists(cache[k]) /\ job'[k] # None
            /\ job'[k].obj = cache[k] /\ job'[k].origin = "lister"
            /\ job'[k].pc = FirstStep(k, cache[k]) /\ job'[k].todo = {}
            /\ InOrder(job'[k].want.ovs)
  BY <1>1, GetItemFacts
<1>3. Still
  BY <1>1, <1>2, CalmStill, HistSame
<1>4. job'[k] # None => InOrder(job'[k].want.ovs)
  BY <1>2
<1>5. ASSUME k \in Override
      PROVE  /\ api'[k].phase = api[k].phase /\ api'[k].lab = api[k].lab
             /\ Behind(cache[k], api[k]) /\ Behind(cache'[k], api'[k]) /\ LabelAt(k)
  <2>1. api'[k].phase = api[k].phase /\ api'[k].lab = api[k].lab
    BY <1>2, <1>5 DEF Calm, OverridesStay, OverrideStays
  <2>2. Behind(cache[k], api[k]) /\ LabelAt(k)
    BY <1>1, <1>5 DEF OverridesInv, ForwardInv, Forward, LabelInv
  <2>. QED  BY <1>2, <2>1, <2>2 DEF Behind, Past, Ended
<1>6. ASSUME k \in Override PROVE ForwardJob(k)'
  <2>1. job'[k] # None => job'[k].pc # "release" /\ cache[k].phase # "absent"
    BY <1>2, <1>6, KindFacts DEF FirstStep, Exists
  <2>. QED  BY <1>2, <1>5, <1>6, <2>1, BehindFacts DEF ForwardJob
<1>7. ASSUME k \in Override PROVE LabelAt(k)'
  <2> SUFFICES ASSUME api'[k].phase = "live", ~api'[k].lab, cache'[k].phase # "absent"
               PROVE  job'[k] # None /\ job'[k].pc \in {"inject", "label"}
    BY DEF LabelAt
  <2>1. ~Past(cache[k])
    BY <1>5, <1>7 DEF Behind, Past
  <2>2. cache[k].phase = "live" /\ Exists(cache[k])
    BY <1>2, <2>1 DEF Past, Exists
  <2>. QED  BY <1>2, <1>7, <2>2, KindFacts DEF FirstStep
<1>8. ASSUME k \in Override, api'[Feed].phase = "live", ~outdated' PROVE LeaveAt(k)
  BY <1>1, <1>3, <1>8 DEF Still, OverridesInv, LeaveInv
<1>9. ASSUME k \in Override
      PROVE  /\ ApplyNow(k)' <=> ApplyNow(k) /\ Shown(k)' = Shown(k) /\ Due(k)' = Due(k)
             /\ job'[k] # None => job'[k].pc # "release"
  BY <1>1, <1>2, <1>9, SameView, KindFacts DEF Calm, Quiet, FirstStep
<1>10. ASSUME k \in Override, api'[Feed].phase = "live", ~outdated' PROVE LeaveAt(k)'
  BY <1>5, <1>8, <1>9, <1>10 DEF LeaveAt
<1>11. ASSUME k \in Override, api'[Feed].phase = "live", ~outdated', NoEscape PROVE FreshAt(k)'
  <2>1. FreshAt(k)
    BY <1>1, <1>3, <1>11 DEF Still, OverridesInv, FreshInv
  <2>2. CASE job'[k] # None
    BY <1>9, <1>11, <2>2 DEF FreshAt
  <2>3. CASE job'[k] = None
    <3>1. ~Exists(cache[k])
      BY <1>2, <2>3
    <3>2. ApplyNow(k) => Shown(k) = Due(k)
      BY <1>2, <2>1, <3>1 DEF FreshAt
    <3>. QED  BY <1>9, <1>11, <3>2 DEF FreshAt
  <2>. QED  BY <2>2, <2>3
<1>12. ASSUME k = Feed, api'[Feed].phase = "live" PROVE FreshFeed'
  <2>1. Exists(cache[Feed])
    BY <1>3, <1>12 DEF Still, IInv, FeedInv, Exists
  <2>. QED  BY <1>2, <1>12, <2>1 DEF FreshFeed
<1>. QED  BY <1>1, <1>2, <1>3, <1>4, <1>6, <1>7, <1>10, <1>11, <1>12, StillStep

LEMMA InjectFinalizerStep ==
  ASSUME IInv, NEW k \in Key, InjectFinalizer(k)
  PROVE  OverridesInv'
<1>1. TypeInv /\ OverridesInv
  BY DEF IInv
<1>2. /\ Calm /\ UNCHANGED histVars /\ job[k] # None /\ job[k].pc = "inject" /\ k \in Override
      /\ \/ Requeued(k)
         \/ /\ Others(k) /\ queue' = queue /\ job'[k] # None /\ Exists(api[k])
            /\ job'[k].pc = "label" /\ job'[k].obj = api'[k] /\ job'[k].origin = "answer"
            /\ job'[k].want = job[k].want /\ job'[k].todo = job[k].todo
  BY <1>1, InjectFinalizerFacts
<1>3. Still
  BY <1>1, <1>2, CalmStill, HistSame
<1>4. CASE Requeued(k)
  BY <1>1, <1>2, <1>3, <1>4, RequeuedStep
<1>5. CASE ~Requeued(k)
  <2>1. /\ Others(k) /\ job'[k] # None /\ Exists(api[k])
        /\ job'[k].pc = "label" /\ job'[k].obj = api'[k] /\ job'[k].origin = "answer"
        /\ job'[k].want = job[k].want
    BY <1>2, <1>5
  <2>2. InOrder(job'[k].want.ovs)
    BY <1>1, <1>2, <2>1 DEF OverridesInv, OrderInv
  <2>3. /\ api'[k].phase = api[k].phase
        /\ cache'[k].phase = cache[k].phase /\ cache[k].phase # "absent"
    BY <1>1, <1>2, KindFacts DEF Calm, Quiet, OverridesStay, OverrideStays, Cosmetic, Agree,
                                 OverridesInv, ForwardInv, ForwardJob
  <2>4. ForwardJob(k)'
    BY <2>1, <2>3, BehindFacts DEF ForwardJob, Exists
  <2>5. LabelAt(k)' /\ FreshAt(k)'
    BY <2>1 DEF LabelAt, FreshAt
  <2>6. ASSUME api'[Feed].phase = "live", ~outdated' PROVE LeaveAt(k)'
    <3>1. LeaveAt(k)
      BY <1>1, <1>2, <1>3, <2>6 DEF Still, OverridesInv, LeaveInv
    <3>2. (ApplyNow(k)' <=> ApplyNow(k)) /\ Shown(k)' = Shown(k)
      BY <1>1, <1>2, SameView DEF Calm, Quiet
    <3>. QED  BY <2>1, <2>3, <3>1, <3>2 DEF LeaveAt
  <2>. QED  BY <1>1, <1>2, <1>3, <2>1, <2>2, <2>4, <2>5, <2>6, StillStep, KindFacts
<1>. QED  BY <1>4, <1>5

LEMMA PatchLabelsStep ==
  ASSUME IInv, NEW k \in Key, PatchLabels(k)
  PROVE  OverridesInv'
<1>1. TypeInv /\ OverridesInv
  BY DEF IInv
<1>2. /\ Quiet /\ UNCHANGED histVars /\ cache' = cache
      /\ job[k] # None /\ job[k].pc = "label" /\ k \in Override
      /\ OnlyOverride(k) /\ api'[k].phase = api[k].phase /\ (api[k].lab => api'[k].lab)
      /\ \/ Requeued(k) /\ OverridesStay
         \/ /\ Others(k) /\ queue' = queue /\ job'[k] # None /\ job'[k].pc = "apply"
            /\ job'[k].want = job[k].want /\ job'[k].todo = job[k].todo
            /\ \/ /\ job[k].obj.lab
                  /\ job'[k].obj = job[k].obj /\ job'[k].origin = job[k].origin
               \/ /\ api'[k].lab /\ Exists(api[k])
                  /\ job'[k].obj = api'[k] /\ job'[k].origin = "answer"
  BY <1>1, PatchLabelsFacts
<1>3. outdated' = outdated /\ FeedStays /\ DescStays /\ \A o \in Override \ {k} : OverrideStays(o)
  BY <1>1, <1>2, HistSame DEF OnlyOverride, OverrideStays
<1>4. CASE Requeued(k) /\ OverridesStay
  BY <1>1, <1>2, <1>3, <1>4, RequeuedStep DEF Still, FeedStays
<1>5. CASE ~(Requeued(k) /\ OverridesStay)
  <2>1. /\ Others(k) /\ queue' = queue /\ job'[k] # None /\ job'[k].pc = "apply"
        /\ job'[k].want = job[k].want
        /\ \/ /\ job[k].obj.lab
              /\ job'[k].obj = job[k].obj /\ job'[k].origin = job[k].origin
           \/ /\ api'[k].lab /\ Exists(api[k])
              /\ job'[k].obj = api'[k] /\ job'[k].origin = "answer"
    BY <1>2, <1>5
  <2>2. /\ Forward(k) /\ Exists(job[k].obj) /\ Behind(job[k].obj, api[k])
        /\ cache[k].phase # "absent" /\ (job[k].origin = "lister" => Behind(job[k].obj, cache[k]))
    BY <1>1, <1>2 DEF OverridesInv, ForwardInv, ForwardJob
  <2>3. Behind(api[k], api'[k]) /\ api'[k].phase # "absent"
    BY <1>2, <2>2 DEF Behind, Past, Ended, Exists
  <2>4. Forward(k)'
    BY <1>1, <1>2, <2>2, <2>3, QuietForward DEF Forward
  <2>5. Behind(job[k].obj, api'[k]) /\ Behind(api'[k], api'[k])
    BY <2>2, <2>3, BehindFacts
  <2>6. ForwardJob(k)'
    BY <1>2, <2>1, <2>2, <2>5 DEF ForwardJob, Exists
  <2>7. api'[k].lab
    BY <1>2, <2>1, <2>2 DEF Behind
  <2>8. LabelAt(k)' /\ FreshAt(k)'
    BY <2>1, <2>7 DEF LabelAt, FreshAt
  <2>9. InOrder(job'[k].want.ovs)
    BY <1>1, <1>2, <2>1 DEF OverridesInv, OrderInv
  <2>10. ASSUME api'[Feed].phase = "live", ~outdated' PROVE LeaveAt(k)'
    <3>1. LeaveAt(k)
      BY <1>1, <1>2, <1>3, <2>10 DEF FeedStays, OverridesInv, LeaveInv
    <3>2. (ApplyNow(k)' <=> ApplyNow(k)) /\ Shown(k)' = Shown(k)
      BY <1>1, <1>2, <1>3, SameView DEF Quiet
    <3>. QED  BY <1>2, <2>1, <3>1, <3>2 DEF LeaveAt
  <2>. QED  BY <1>1, <1>2, <1>3, <2>1, <2>3, <2>4, <2>6, <2>8, <2>9, <2>10, KeyStep, KindFacts
            DEF FeedStays
<1>. QED  BY <1>4, <1>5

LEMMA ReleaseOverrideStep ==
  ASSUME IInv, NEW k \in Key, ReleaseOverride(k)
  PROVE  OverridesInv'
<1>1. TypeInv /\ OverridesInv
  BY DEF IInv
<1>2. /\ Quiet /\ UNCHANGED histVars /\ cache' = cache
      /\ job[k] # None /\ job[k].pc = "release" /\ k \in Override
      /\ OnlyOverride(k) /\ api'[k].lab = api[k].lab
      /\ \/ Requeued(k) /\ OverridesStay
         \/ /\ Others(k) /\ queue' = queue /\ job'[k] = None /\ Exists(api[k])
            /\ api'[k].phase = IF job[k].origin = "lister" THEN "gone" ELSE "escaped"
  BY <1>1, ReleaseOverrideFacts
<1>3. outdated' = outdated /\ FeedStays /\ DescStays /\ \A o \in Override \ {k} : OverrideStays(o)
  BY <1>1, <1>2, HistSame DEF OnlyOverride, OverrideStays
<1>4. CASE Requeued(k) /\ OverridesStay
  BY <1>1, <1>2, <1>3, <1>4, RequeuedStep DEF Still, FeedStays
<1>5. CASE ~(Requeued(k) /\ OverridesStay)
  <2>1. /\ Others(k) /\ queue' = queue /\ job'[k] = None /\ Exists(api[k])
        /\ api'[k].phase = IF job[k].origin = "lister" THEN "gone" ELSE "escaped"
    BY <1>2, <1>5
  <2>2. /\ Forward(k) /\ job[k].obj.phase = "deleting"
        /\ job[k].origin = "lister" => Behind(job[k].obj, cache[k])
    BY <1>1, <1>2 DEF OverridesInv, ForwardInv, ForwardJob
  <2>3. Behind(api[k], api'[k]) /\ api'[k].phase \in {"gone", "escaped"}
    BY <1>2, <2>1 DEF Behind, Past, Ended, Exists
  <2>4. api'[k].phase = "gone" => job[k].origin = "lister" /\ Past(cache[k])
    BY <2>1, <2>2 DEF Behind, Past
  <2>5. Forward(k)'
    BY <1>1, <1>2, <2>2, <2>3, <2>4, QuietForward
  <2>6. ForwardJob(k)' /\ LabelAt(k)'
    BY <2>1, <2>3 DEF ForwardJob, LabelAt
  <2>7. (ApplyNow(k)' <=> ApplyNow(k)) /\ Shown(k)' = Shown(k) /\ Due(k)' = Due(k)
    BY <1>1, <1>2, <1>3, SameView DEF Quiet
  <2>8. ASSUME api'[Feed].phase = "live", ~outdated', api'[k].phase = "gone", ApplyNow(k)
        PROVE  Shown(k) = {}
    <3>1. LeaveAt(k)
      BY <1>1, <1>2, <1>3, <2>8 DEF FeedStays, OverridesInv, LeaveInv
    <3>. QED  BY <1>2, <2>4, <2>8, <3>1 DEF LeaveAt
  <2>9. ASSUME api'[Feed].phase = "live", ~outdated' PROVE LeaveAt(k)'
    BY <2>1, <2>7, <2>8, <2>9 DEF LeaveAt
  <2>10. ASSUME api'[Feed].phase = "live", ~outdated', NoEscape' PROVE FreshAt(k)'
    <3>1. api'[k].phase = "gone" /\ Due(k) = {}
      BY <1>2, <2>3, <2>4, <2>10 DEF NoEscape, Due, Past
    <3>. QED  BY <2>7, <2>8, <2>10, <3>1 DEF FreshAt
  <2>. QED  BY <1>1, <1>2, <1>3, <2>1, <2>3, <2>5, <2>6, <2>9, <2>10, KeyStep, KindFacts
            DEF FeedStays
<1>. QED  BY <1>4, <1>5

(* Users who create, edit or delete an override. *)
LEMMA OverrideUserStep ==
  ASSUME IInv, NEW k \in Override, Quiet, OnlyOverride(k), UNCHANGED <<cache, workVars, histVars>>,
         api'[k].lab = api[k].lab,
         \/ api[k].phase = "absent" /\ api'[k].phase = "live"
         \/ api[k].phase = "live" /\ api'[k].phase \in {"live", "deleting", "escaped"}
  PROVE  OverridesInv'
<1>1. TypeInv /\ OverridesInv
  BY DEF IInv
<1>2. k \in Key /\ k # Feed
  BY KindFacts
<1>3. outdated' = outdated /\ FeedStays /\ DescStays /\ \A o \in Override \ {k} : OverrideStays(o)
  BY <1>1, HistSame DEF OnlyOverride, OverrideStays
<1>4. Others(k) /\ queue' = queue /\ job' = job
  BY <1>1, <1>2, SamePart DEF WorkPart
<1>5. Forward(k) /\ ForwardJob(k) /\ LabelAt(k)
  BY <1>1 DEF OverridesInv, ForwardInv, LabelInv
<1>6. Behind(api[k], api'[k]) /\ api'[k].phase # "absent" /\ api'[k].phase # "gone"
  BY DEF Behind, Past, Ended
<1>7. Forward(k)' /\ ForwardJob(k)'
  BY <1>1, <1>4, <1>5, <1>6, QuietForward, JobForward
<1>8. LabelAt(k)'
  <2>1. api[k].phase = "absent" => cache[k].phase = "absent"
    BY <1>5 DEF Forward, Behind
  <2>. QED  BY <1>4, <1>5, <2>1 DEF LabelAt
<1>9. job'[k] # None => InOrder(job'[k].want.ovs)
  BY <1>1, <1>2, <1>4 DEF OverridesInv, OrderInv
<1>10. /\ ApplyNow(k)' <=> ApplyNow(k)
       /\ Shown(k)' = Shown(k) /\ Due(k)' = Due(k) /\ (Exists(cache'[k]) <=> Exists(cache[k]))
  BY <1>1, <1>3, SameView DEF Quiet
<1>11. ASSUME api'[Feed].phase = "live", ~outdated' PROVE LeaveAt(k)'
  <2>1. LeaveAt(k)
    BY <1>1, <1>3, <1>11 DEF FeedStays, OverridesInv, LeaveInv
  <2>. QED  BY <1>4, <1>6, <1>10, <2>1 DEF LeaveAt
<1>12. ASSUME api'[Feed].phase = "live", ~outdated', NoEscape PROVE FreshAt(k)'
  <2>1. FreshAt(k)
    BY <1>1, <1>3, <1>12 DEF FeedStays, OverridesInv, FreshInv
  <2>. QED  BY <1>4, <1>10, <2>1 DEF FreshAt
<1>. QED  BY <1>1, <1>2, <1>3, <1>4, <1>6, <1>7, <1>8, <1>9, <1>11, <1>12, KeyStep DEF FeedStays

(* A resync that leaves what the caches say settles everything. *)
LEMMA SyncDescriptionStep ==
  ASSUME IInv, NEW k \in Key, SyncDescription(k)
  PROVE  OverridesInv'
<1>1. TypeInv /\ OverridesInv
  BY DEF IInv
<1>2. /\ Quiet /\ FeedStays /\ OverridesStay /\ SubsStay
      /\ cache' = cache /\ kept' = kept /\ shifted' = shifted
      /\ job[k] # None /\ job[k].pc = "sync"
      /\ \/ Requeued(k) /\ DescStays /\ outdated' = outdated
         \/ /\ Others(k) /\ queue' = queue /\ Returned(k)
            /\ ~outdated' => api'[Desc].value = Rendered
            /\ api'[Desc].value \in {api[Desc].value, job[k].want}
  BY <1>1, SyncDescriptionFacts
<1>3. CASE Requeued(k) /\ DescStays /\ outdated' = outdated
  BY <1>1, <1>2, <1>3, RequeuedStep DEF Still, FeedStays
<1>4. CASE ~(Requeued(k) /\ DescStays /\ outdated' = outdated)
  <2>1. /\ Others(k) /\ queue' = queue /\ Returned(k)
        /\ ~outdated' => api'[Desc].value = Rendered
        /\ api'[Desc].value \in {api[Desc].value, job[k].want}
    BY <1>2, <1>4
  <2>2. \A j \in Key \ {k} : job'[j] = job[j] /\ (j \in queue' <=> j \in queue)
    BY <2>1 DEF Others
  <2>3. /\ k \in Override => ForwardJob(k)' /\ LabelAt(k)'
        /\ job'[k] # None => InOrder(job'[k].want.ovs)
    BY <1>1, <1>2, <2>1, ReturnedJob
  <2>4. ASSUME NEW o \in Override PROVE Forward(o)' /\ ForwardJob(o)'
    <3>1. OverrideStays(o) /\ o \in Key
      BY <1>2, KindFacts DEF OverridesStay
    <3>. QED  BY <1>1, <1>2, <2>2, <2>3, <3>1, StillForward DEF OverridesInv
  <2>5. ASSUME NEW o \in Override PROVE LabelAt(o)'
    <3>1. /\ o \in Key /\ api'[o].phase = api[o].phase /\ api'[o].lab = api[o].lab
          /\ LabelAt(o)
      BY <1>1, <1>2, KindFacts DEF OverridesStay, OverrideStays, OverridesInv, LabelInv
    <3>2. CASE o = k
      BY <2>3, <3>2
    <3>3. CASE o # k
      BY <1>2, <2>2, <3>1, <3>3 DEF LabelAt
    <3>. QED  BY <3>2, <3>3
  <2>6. OrderInv'
    <3>1. \A j \in Key : job'[j] # None => InOrder(job'[j].want.ovs)
      BY <1>1, <2>2, <2>3 DEF OverridesInv, OrderInv
    <3>2. InOrder(api'[Desc].value.ovs)
      BY <1>1, <1>2, <2>1 DEF OverridesInv, OrderInv
    <3>. QED  BY <3>1, <3>2 DEF OrderInv, InOrder
  <2>7. LastInv'
    BY <1>1, <1>2, QuietLast DEF OverridesInv
  <2>8. ASSUME ~outdated'
        PROVE  /\ api'[Desc].value.rev = Plain(cache[Feed])'.rev
               /\ \A o \in Override : Shown(o)' = Due(o)' /\ Due(o)' = Due(o)
    <3>1. /\ api'[Desc].value = Rendered /\ Rendered.rev = Plain(cache[Feed]).rev
          /\ \A o \in Override : {e \in ToSet(Rendered.ovs) : e.ov = o} = Due(o)
      BY <1>1, <2>1, <2>8, RenderedFacts
    <3>2. \A o \in Override : Due(o)' = Due(o)
      BY <1>2 DEF Due
    <3>3. Plain(cache[Feed])'.rev = Plain(cache[Feed]).rev
      BY <1>2 DEF Plain, IsChart, Quiet, SamePlan
    <3>4. \A o \in Override : Shown(o)' = Due(o)
      BY <3>1 DEF Shown
    <3>. QED  BY <3>1, <3>2, <3>3, <3>4
  <2>9. LeaveInv'
    <3> SUFFICES ASSUME ~outdated', NEW o \in Override,
                        \/ api'[o].phase = "gone"
                        \/ job'[o] # None /\ job'[o].pc = "release" /\ job'[o].origin = "lister"
                 PROVE  Shown(o)' = {}
      BY DEF LeaveInv, LeaveAt
    <3>1. Forward(o)' /\ ForwardJob(o)'
      BY <2>4
    <3>2. Past(cache'[o])
      BY <3>1 DEF Forward, ForwardJob, Behind, Past
    <3>. QED  BY <2>8, <3>2 DEF Due, Past
  <2>10. FreshInv'
    BY <2>8 DEF FreshInv, FreshFeed, FreshAt
  <2>. QED  BY <2>4, <2>5, <2>6, <2>7, <2>9, <2>10 DEF OverridesInv, ForwardInv, LabelInv
<1>. QED  BY <1>3, <1>4

LEMMA DeliverStep ==
  ASSUME IInv, NEW k \in Object, Deliver(k)
  PROVE  OverridesInv'
<1>1. TypeInv /\ OverridesInv
  BY DEF IInv
<1>2. /\ TypeInv' /\ UNCHANGED <<api, job, histVars, scenario>>
      /\ watch[k] # <<>> /\ cache'[k] = watch[k][1]
      /\ Len(watch[k]) \in Nat \ {0} /\ DOMAIN watch[k] = 1..Len(watch[k])
      /\ Len(watch'[k]) = Len(watch[k]) - 1
      /\ DOMAIN watch'[k] = 1..(Len(watch[k]) - 1)
      /\ \A i \in DOMAIN watch'[k] : i + 1 \in DOMAIN watch[k] /\ watch'[k][i] = watch[k][i + 1]
      /\ \A j \in Object \ {k} : cache'[j] = cache[j] /\ watch'[j] = watch[j]
      /\ queue \subseteq queue'
      /\ EventEnqueues(k, cache[k], cache'[k]) => k \in queue'
  BY <1>1, DeliverFacts
<1>3. outdated' = outdated /\ 1 \in DOMAIN watch[k]
  BY <1>2 DEF histVars
<1>4. ASSUME NEW o \in Override
      PROVE  /\ Forward(o) /\ ForwardJob(o) /\ o \in Key /\ o \in Object
             /\ k = o => Behind(cache[o], cache'[o]) /\ cache'[o].phase # "absent"
                         /\ Behind(cache'[o], api[o])
  BY <1>1, <1>2, <1>3, KindFacts DEF OverridesInv, ForwardInv, Forward
<1>5. ASSUME NEW o \in Override PROVE Forward(o)'
  <2>1. CASE k # o
    BY <1>2, <1>4, <2>1 DEF Forward
  <2>2. CASE k = o
    <3> DEFINE w == watch[o]
               v == watch'[o]
    <3>1. /\ \A i \in DOMAIN w : /\ w[i].phase # "absent" /\ Behind(w[i], api[o])
                                 /\ \A j \in DOMAIN w : i < j => Behind(w[i], w[j])
          /\ api[o].phase = "gone" => Past(cache[o])
      BY <1>4 DEF Forward
    <3>2. /\ 1 \in DOMAIN w /\ cache'[o] = w[1] /\ DOMAIN w = 1..Len(w)
          /\ DOMAIN v = 1..(Len(w) - 1) /\ Len(w) \in Nat
          /\ \A i \in DOMAIN v : i + 1 \in DOMAIN w /\ v[i] = w[i + 1]
      BY <1>2, <1>3, <2>2
    <3> HIDE DEF w, v
    <3>3. ASSUME NEW i \in DOMAIN v
          PROVE  /\ v[i].phase # "absent" /\ Behind(cache'[o], v[i]) /\ Behind(v[i], api[o])
                 /\ \A j \in DOMAIN v : i < j => Behind(v[i], v[j])
      <4>1. i + 1 \in DOMAIN w /\ v[i] = w[i + 1] /\ 1 < i + 1
        BY <3>2
      <4>2. ASSUME NEW j \in DOMAIN v, i < j PROVE Behind(v[i], v[j])
        <5>1. j + 1 \in DOMAIN w /\ v[j] = w[j + 1] /\ i + 1 < j + 1
          BY <3>2, <4>2
        <5>. QED  BY <3>1, <4>1, <5>1
      <4>. QED  BY <3>1, <3>2, <4>1, <4>2
    <3>4. api[o].phase = "gone" => Past(cache'[o])
      BY <1>4, <2>2, <3>1 DEF Behind
    <3>. QED  BY <1>2, <1>4, <2>2, <3>3, <3>4 DEF Forward, v
  <2>. QED  BY <2>1, <2>2
<1>6. ASSUME NEW o \in Override PROVE ForwardJob(o)'
  <2>1. CASE k # o
    BY <1>2, <1>4, <2>1 DEF ForwardJob
  <2>2. CASE k = o
    <3>1. job[o] # None /\ job[o].origin = "lister" => Behind(job[o].obj, cache'[o])
      BY <1>4, <2>2, BehindFacts DEF ForwardJob
    <3>. QED  BY <1>2, <1>4, <2>2, <3>1 DEF ForwardJob
  <2>. QED  BY <2>1, <2>2
<1>7. LastInv'
  <2>1. ASSUME NEW j \in Key
        PROVE  /\ IF watch'[j] = <<>> THEN Agree(cache'[j], api'[j])
                  ELSE Agree(watch'[j][Len(watch'[j])], api'[j])
               /\ j \in Override => IF watch'[j] = <<>> THEN cache'[j].lab = api'[j].lab
                                    ELSE watch'[j][Len(watch'[j])].lab = api'[j].lab
    <3>1. CASE j # k
      BY <1>1, <1>2, <2>1, <3>1, KindFacts DEF OverridesInv, LastInv
    <3>2. CASE j = k
      <4>1. /\ Agree(watch[k][Len(watch[k])], api[k])
            /\ k \in Override => watch[k][Len(watch[k])].lab = api[k].lab
        BY <1>1, <1>2, <3>2 DEF OverridesInv, LastInv
      <4>2. CASE Len(watch[k]) = 1
        <5>1. watch'[k] = <<>>
          <6>1. watch'[k] \in Seq(OfKind(k)) /\ Len(watch'[k]) = 0
            BY <1>2, <4>2 DEF TypeInv, StoreOK
          <6>. QED  BY <6>1, EmptySeq
        <5>. QED  BY <1>2, <3>2, <4>1, <4>2, <5>1
      <4>3. CASE Len(watch[k]) # 1
        <5>1. Len(watch'[k]) \in DOMAIN watch'[k] /\ Len(watch'[k]) + 1 = Len(watch[k])
          <6> DEFINE n == Len(watch[k])
                     m == Len(watch'[k])
          <6>1. n \in Nat \ {0} /\ n # 1 /\ m = n - 1 /\ DOMAIN watch'[k] = 1..(n - 1)
            BY <1>2, <4>3
          <6> HIDE DEF n, m
          <6>2. m \in 1..(n - 1) /\ m + 1 = n
            BY <6>1
          <6>. QED  BY <6>1, <6>2 DEF n, m
        <5>2. watch'[k][Len(watch'[k])] = watch[k][Len(watch[k])] /\ watch'[k] # <<>>
          BY <1>2, <5>1
        <5>. QED  BY <1>2, <3>2, <4>1, <5>2
      <4>. QED  BY <4>2, <4>3
    <3>. QED  BY <3>1, <3>2
  <2>. QED  BY <2>1, KindFacts DEF LastInv
<1>8. ASSUME NEW o \in Override PROVE LabelAt(o)'
  <2>1. LabelAt(o)
    BY <1>1 DEF OverridesInv, LabelInv
  <2>2. CASE k = o /\ cache[o].phase = "absent"
    <3>1. EventEnqueues(k, cache[k], cache'[k])
      BY <2>2, KindFacts DEF EventEnqueues, OverrideEventEnqueues, FeedEventEnqueues, Exists
    <3>. QED  BY <1>2, <2>2, <3>1 DEF LabelAt
  <2>3. CASE ~(k = o /\ cache[o].phase = "absent")
    BY <1>2, <1>4, <2>1, <2>3 DEF LabelAt
  <2>. QED  BY <2>2, <2>3
<1>9. OrderInv'
  <2>1. OrderInv
    BY <1>1 DEF OverridesInv
  <2>2. InOrder(api'[Desc].value.ovs)
    BY <1>2, <2>1 DEF OrderInv
  <2>3. \A j \in Key : job'[j] # None => InOrder(job'[j].want.ovs)
    BY <1>2, <2>1 DEF OrderInv
  <2>. QED  BY <2>2, <2>3 DEF OrderInv, InOrder
<1>10. \A o \in Override : /\ ApplyNow(o)' <=> ApplyNow(o)
                           /\ Shown(o)' = Shown(o)
  BY <1>2 DEF ApplyNow, Shown
<1>11. LeaveInv'
  BY <1>1, <1>2, <1>3, <1>10 DEF OverridesInv, LeaveInv, LeaveAt
<1>12. FreshInv'
  <2> SUFFICES ASSUME api'[Feed].phase = "live", ~outdated', NoEscape'
               PROVE  FreshFeed' /\ \A o \in Override : FreshAt(o)'
    BY DEF FreshInv
  <2>1. api[Feed].phase = "live" /\ ~outdated /\ NoEscape
    BY <1>2, <1>3 DEF NoEscape
  <2>2. FreshFeed /\ \A o \in Override : FreshAt(o) /\ LeaveAt(o)
    BY <1>1, <2>1 DEF OverridesInv, FreshInv, LeaveInv
  <2>3. FreshFeed'
    <3>1. CASE cache'[Feed].rev = cache[Feed].rev
      <4>1. Plain(cache[Feed])'.rev = Plain(cache[Feed]).rev
        BY <1>2, <3>1 DEF Plain, IsChart
      <4>. QED  BY <1>2, <2>2, <4>1 DEF FreshFeed
    <3>2. CASE cache'[Feed].rev # cache[Feed].rev
      <4>1. k = Feed
        BY <1>2, <3>2, KindFacts
      <4>2. EventEnqueues(k, cache[k], cache'[k])
        BY <3>2, <4>1 DEF EventEnqueues, FeedEventEnqueues
      <4>. QED  BY <1>2, <4>1, <4>2 DEF FreshFeed
    <3>. QED  BY <3>1, <3>2
  <2>4. ASSUME NEW o \in Override PROVE FreshAt(o)'
    <3> SUFFICES ASSUME ApplyNow(o), job[o] # None => job[o].pc = "release"
                 PROVE  Shown(o)' = Due(o)' \/ (o \in queue' /\ Exists(cache'[o]))
      BY <1>2, <1>10 DEF FreshAt
    <3>1. Shown(o) = Due(o) \/ (o \in queue /\ Exists(cache[o]))
      BY <2>2 DEF FreshAt
    <3>2. CASE k # o
      <4>1. Due(o)' = Due(o) /\ Exists(cache'[o]) = Exists(cache[o])
        BY <1>2, <1>4, <3>2 DEF Due, Exists
      <4>. QED  BY <1>2, <1>10, <3>1, <4>1
    <3>3. CASE k = o
      <4>1. Exists(cache'[o]) \/ Shown(o)' = Due(o)'
        <5> SUFFICES ASSUME ~Exists(cache'[o]) PROVE Shown(o) = {} /\ Due(o)' = {}
          BY <1>10
        <5>1. cache'[o].phase \in {"gone", "escaped"}
          <6>1. cache'[o] \in OverrideRecord
            BY <1>2, <1>4, KindFacts DEF TypeInv, StoreOK
          <6>. QED  BY <1>4, <3>3, <6>1 DEF OverrideRecord, Phase, Exists
        <5>2. api[o].phase = "gone"
          BY <1>4, <2>1, <3>3, <5>1 DEF Behind, Ended, NoEscape
        <5>. QED  BY <2>2, <5>1, <5>2 DEF LeaveAt, Due
      <4>2. CASE EventEnqueues(o, cache[o], cache'[o])
        BY <1>2, <3>3, <4>1, <4>2
      <4>3. CASE ~EventEnqueues(o, cache[o], cache'[o])
        <5>1. /\ Exists(cache[o]) /\ cache'[o].phase = "live"
              /\ cache[o].rev = cache'[o].rev /\ cache[o].lab = cache'[o].lab
          BY <4>3, <1>4, KindFacts DEF EventEnqueues, OverrideEventEnqueues, FeedEventEnqueues
        <5>2. cache[o].phase = "live"
          BY <1>4, <3>3, <5>1 DEF Behind, Past, Exists
        <5>3. Due(o)' = Due(o)
          BY <5>1, <5>2 DEF Due
        <5>. QED  BY <1>2, <1>10, <3>1, <4>1, <5>3
      <4>. QED  BY <4>2, <4>3
    <3>. QED  BY <3>2, <3>3
  <2>. QED  BY <2>3, <2>4
<1>. QED  BY <1>5, <1>6, <1>7, <1>8, <1>9, <1>11, <1>12 DEF OverridesInv, ForwardInv, LabelInv

LEMMA RestartStep ==
  ASSUME IInv, Restart
  PROVE  OverridesInv'
<1>1. TypeInv /\ OverridesInv
  BY DEF IInv
<1>2. /\ SamePlan /\ UNCHANGED <<api, histVars>> /\ cache' = api
      /\ \A k \in Object : watch'[k] = <<>>
      /\ queue' = {k \in Key : Exists(api[k])} /\ \A k \in Key : job'[k] = None
  BY <1>1, RestartFacts
<1>3. outdated' = outdated
  BY <1>2 DEF histVars
<1>4. ASSUME NEW o \in Override PROVE Forward(o)' /\ ForwardJob(o)' /\ LabelAt(o)'
  <2>1. o \in Key /\ o \in Object
    BY KindFacts
  <2>2. DOMAIN watch'[o] = {}
    BY <1>2, <2>1
  <2>3. Forward(o)'
    BY <1>2, <2>2, BehindFacts DEF Forward, Past
  <2>. QED  BY <1>2, <2>1, <2>3 DEF ForwardJob, LabelAt, Exists
<1>5. LastInv'
  BY <1>2, KindFacts DEF LastInv, Agree
<1>6. OrderInv'
  <2>1. OrderInv
    BY <1>1 DEF OverridesInv
  <2>2. InOrder(api'[Desc].value.ovs)
    BY <1>2, <2>1 DEF OrderInv
  <2>3. \A k \in Key : job'[k] = None
    BY <1>2
  <2>. QED  BY <2>2, <2>3 DEF OrderInv, InOrder
<1>7. \A o \in Override : (ApplyNow(o)' <=> ApplyNow(o)) /\ Shown(o)' = Shown(o)
  BY <1>2 DEF SamePlan, ApplyNow, Shown
<1>8. LeaveInv'
  BY <1>1, <1>2, <1>3, <1>7, KindFacts DEF OverridesInv, LeaveInv, LeaveAt
<1>9. FreshInv'
  <2> SUFFICES ASSUME api'[Feed].phase = "live", ~outdated', NoEscape'
               PROVE  FreshFeed' /\ \A o \in Override : FreshAt(o)'
    BY DEF FreshInv
  <2>1. api[Feed].phase = "live" /\ ~outdated /\ NoEscape
    BY <1>2, <1>3 DEF NoEscape
  <2>2. FreshFeed'
    BY <1>2, <2>1, KindFacts DEF FreshFeed, Exists
  <2>3. ASSUME NEW o \in Override, ApplyNow(o) PROVE FreshAt(o)'
    <3>1. FreshAt(o) /\ LeaveAt(o) /\ Forward(o) /\ ForwardJob(o)
      BY <1>1, <2>1 DEF OverridesInv, FreshInv, LeaveInv, ForwardInv
    <3>2. CASE Exists(api[o])
      BY <1>2, <3>2, KindFacts DEF FreshAt
    <3>3. CASE ~Exists(api[o])
      <4>1. api[o].phase \in {"absent", "gone"}
        BY <1>1, <2>1, <3>3, StoredFacts DEF TypeInv, OverrideRecord, Phase, Exists, NoEscape
      <4>2. Due(o)' = {}
        BY <1>2, <4>1 DEF Due
      <4>3. api[o].phase = "absent" => Shown(o) = {}
        BY <2>3, <3>1 DEF FreshAt, Forward, ForwardJob, Behind, Due, Exists
      <4>4. Shown(o) = {}
        BY <2>3, <3>1, <4>1, <4>3 DEF LeaveAt
      <4>. QED  BY <1>7, <4>2, <4>4 DEF FreshAt
    <3>. QED  BY <3>2, <3>3
  <2>4. \A o \in Override : FreshAt(o)'
    BY <1>7, <2>3 DEF FreshAt
  <2>. QED  BY <2>2, <2>4
<1>. QED  BY <1>4, <1>5, <1>6, <1>8, <1>9 DEF OverridesInv, ForwardInv, LabelInv

-----------------------------------------------------------------------------
(* The feed and its Subscriptions, and the whole invariant.                *)

LEMMA FeedKeyStep ==
  ASSUME TypeInv, FeedInv, Quiet, FeedStays, NEW k \in Key, Others(k),
         api[Feed].phase = "live" => FeedJob(k)'
  PROVE  FeedInv'
<1>1. ASSUME api'[Feed].phase = "live" PROVE \A j \in Key : FeedJob(j)'
  BY <1>1 DEF FeedStays, FeedInv, FeedJob, Others
<1>. QED  BY <1>1, QuietFeed DEF FeedStays, FeedInv

LEMMA KeptKeyStep ==
  ASSUME TypeInv, KeptInv, Quiet, FeedStays, SubsStay, kept' = kept, shifted' = shifted,
         NEW k \in Key, Others(k), KeptJob(k)'
  PROVE  KeptInv'
<1>1. ASSUME NEW s \in kept' PROVE Listed(s) /\ Lists(api'[s])
  <2>1. Listed(s) /\ s \in Sub
    BY <1>1 DEF KeptInv, TypeInv, HistOK
  <2>. QED  BY <2>1 DEF SubsStay, Listed
<1>2. ASSUME NEW j \in Key PROVE KeptJob(j)'
  BY <1>2 DEF KeptInv, KeptJob, Others
<1>3. ReferredFeedKept'
  BY DEF KeptInv, ReferredFeedKept, FeedStays
<1>. QED  BY <1>1, <1>2, <1>3, QuietKept

(* A step of the worker of k that writes at most to the overrides and to   *)
(* the Description.                                                        *)
LEMMA WorkerStep ==
  ASSUME IInv, Quiet, FeedStays, SubsStay, kept' = kept, shifted' = shifted, OverridesInv',
         NEW k \in Key, Others(k), KeptJob(k)', api[Feed].phase = "live" => FeedJob(k)'
  PROVE  IInv'
<1>1. FeedInv'
  BY FeedKeyStep DEF IInv
<1>2. KeptInv'
  BY KeptKeyStep DEF IInv
<1>. QED  BY <1>1, <1>2 DEF IInv, Quiet

LEMMA NoJob ==
  ASSUME NEW k, job'[k] = None
  PROVE  KeptJob(k)' /\ FeedJob(k)'
BY DEF KeptJob, FeedJob

LEMMA NoTodo ==
  ASSUME NEW k, job'[k].todo = {}, job'[k].pc \notin {"unlist", "unfeed"}
  PROVE  KeptJob(k)'
BY DEF KeptJob

LEMMA TodoFacts ==
  ASSUME KeptInv, NEW k \in Key, job[k] # None, job[k].pc # "unlist"
  PROVE  job[k].todo = {}
BY DEF KeptInv, KeptJob

LEMMA GetItemInv == ASSUME IInv, NEW k \in Key, GetItem(k) PROVE IInv'
<1>1. /\ Calm /\ UNCHANGED histVars /\ Others(k)
      /\ \/ job'[k] = None
         \/ /\ job'[k].obj = cache[k] /\ job'[k].pc = FirstStep(k, cache[k]) /\ job'[k].todo = {}
  BY GetItemFacts DEF IInv
<1>2. job'[k] = None \/ job'[k].pc \in {"adopt", "apply", "inject", "label"}
  BY <1>1 DEF FirstStep
<1>3. KeptJob(k)'
  BY <1>1, <1>2, NoJob, NoTodo
<1>4. api[Feed].phase = "live" => FeedJob(k)'
  BY <1>1, <1>2 DEF IInv, FeedInv, FeedJob
<1>. QED  BY <1>1, <1>3, <1>4, GetItemStep, WorkerStep, HistSame DEF Calm, IInv

LEMMA InjectFeedFinalizersInv == ASSUME IInv, InjectFeedFinalizers PROVE IInv'
<1>1. TypeInv /\ OverridesInv /\ KeptInv /\ Feed \in Key
  BY KindFacts DEF IInv
<1>2. /\ Calm /\ UNCHANGED histVars /\ job[Feed] # None /\ job[Feed].pc = "adopt"
      /\ \/ Requeued(Feed)
         \/ /\ Onward(Feed) /\ SameTodo(Feed)
            /\ job'[Feed].obj = api'[Feed] /\ job'[Feed].pc = "apply"
  BY <1>1, InjectFeedFinalizersFacts
<1>3. Others(Feed)
  BY <1>2 DEF Requeued, Onward
<1>4. KeptJob(Feed)'
  BY <1>1, <1>2, TodoFacts, NoJob, NoTodo DEF Requeued, SameTodo
<1>5. api[Feed].phase = "live" => FeedJob(Feed)'
  BY <1>2 DEF Requeued, FeedJob, Calm, FeedStays
<1>6. OverridesInv'
  BY <1>1, <1>2, CalmStill, RequeuedStep, OnwardStep, HistSame
<1>. QED  BY <1>1, <1>2, <1>3, <1>4, <1>5, <1>6, WorkerStep, HistSame DEF Calm

LEMMA InjectFinalizerInv == ASSUME IInv, NEW k \in Key, InjectFinalizer(k) PROVE IInv'
<1>1. TypeInv /\ KeptInv
  BY DEF IInv
<1>2. /\ Calm /\ UNCHANGED histVars /\ job[k] # None /\ job[k].pc = "inject" /\ k \in Override
      /\ \/ Requeued(k)
         \/ Others(k) /\ job'[k].pc = "label" /\ job'[k].todo = job[k].todo
  BY <1>1, InjectFinalizerFacts
<1>3. Others(k)
  BY <1>2 DEF Requeued
<1>4. KeptJob(k)'
  BY <1>1, <1>2, TodoFacts, NoJob, NoTodo DEF Requeued
<1>5. FeedJob(k)'
  BY <1>2, KindFacts DEF Requeued, FeedJob
<1>. QED  BY <1>1, <1>2, <1>3, <1>4, <1>5, InjectFinalizerStep, WorkerStep, HistSame DEF Calm

LEMMA PatchLabelsInv == ASSUME IInv, NEW k \in Key, PatchLabels(k) PROVE IInv'
<1>1. TypeInv /\ KeptInv
  BY DEF IInv
<1>2. /\ Quiet /\ UNCHANGED histVars /\ job[k] # None /\ job[k].pc = "label" /\ k \in Override
      /\ OnlyOverride(k)
      /\ \/ Requeued(k)
         \/ Others(k) /\ job'[k].pc = "apply" /\ job'[k].todo = job[k].todo
  BY <1>1, PatchLabelsFacts
<1>3. Others(k)
  BY <1>2 DEF Requeued
<1>4. KeptJob(k)'
  BY <1>1, <1>2, TodoFacts, NoJob, NoTodo DEF Requeued
<1>5. FeedJob(k)'
  BY <1>2, KindFacts DEF Requeued, FeedJob
<1>. QED  BY <1>1, <1>2, <1>3, <1>4, <1>5, PatchLabelsStep, WorkerStep, HistSame DEF OnlyOverride

LEMMA ReleaseOverrideInv == ASSUME IInv, NEW k \in Key, ReleaseOverride(k) PROVE IInv'
<1>1. TypeInv /\ KeptInv
  BY DEF IInv
<1>2. /\ Quiet /\ UNCHANGED histVars /\ OnlyOverride(k)
      /\ Requeued(k) \/ (Others(k) /\ job'[k] = None)
  BY <1>1, ReleaseOverrideFacts
<1>3. Others(k) /\ job'[k] = None
  BY <1>2 DEF Requeued
<1>. QED  BY <1>1, <1>2, <1>3, NoJob, ReleaseOverrideStep, WorkerStep, HistSame DEF OnlyOverride

LEMMA ApplyInv == ASSUME IInv, NEW k \in Key, Apply(k) PROVE IInv'
<1>1. TypeInv /\ OverridesInv /\ KeptInv /\ FeedInv
  BY DEF IInv
<1>2. /\ Calm /\ UNCHANGED histVars /\ job[k] # None /\ job[k].pc = "apply"
      /\ \/ /\ Others(k) /\ queue' = queue /\ Returned(k)
            /\ k \in Override /\ (~ApplyNow(k) \/ ~Exists(cache[Feed]))
         \/ /\ Onward(k) /\ SameTodo(k) /\ job'[k].obj = job[k].obj
            /\ job'[k].pc \in {"protect", "status", "compute"}
            /\ job'[k].pc = "protect" =>
                 (IF k = Feed THEN job[k].obj ELSE cache[Feed]).phase = "deleting"
  BY <1>1, ApplyFacts
<1>3. Others(k)
  BY <1>2 DEF Onward
<1>4. KeptJob(k)'
  BY <1>1, <1>2, TodoFacts, NoJob, NoTodo DEF Returned, SameTodo
<1>5. ASSUME api[Feed].phase = "live" PROVE FeedJob(k)'
  <2>1. /\ cache[Feed].phase = "live" /\ (k = Feed => job[k].obj.phase = "live")
    BY <1>1, <1>2, <1>5 DEF FeedInv, FeedJob
  <2>2. CASE Returned(k) /\ k \in Override
    BY <2>2, KindFacts DEF Returned, FeedJob
  <2>3. CASE ~(Returned(k) /\ k \in Override)
    <3>1. /\ job'[k].obj = job[k].obj /\ job'[k].pc \in {"protect", "status", "compute"}
          /\ job'[k].pc # "protect"
      BY <1>2, <2>1, <2>3
    <3>. QED  BY <2>1, <3>1 DEF FeedJob
  <2>. QED  BY <2>2, <2>3
<1>6. Still
  BY <1>1, <1>2, CalmStill, HistSame
<1>7. OverridesInv'
  <2>1. CASE Onward(k)
    BY <1>1, <1>2, <1>6, <2>1, OnwardStep
  <2>2. CASE ~Onward(k)
    <3>1. ~Exists(cache[Feed]) => api'[Feed].phase # "live"
      BY <1>1, <1>2 DEF Calm, FeedStays, FeedInv, Exists
    <3>. QED  BY <1>1, <1>2, <1>6, <2>2, <3>1, ReturnedStep
  <2>. QED  BY <2>1, <2>2
<1>. QED  BY <1>1, <1>2, <1>3, <1>4, <1>5, <1>7, WorkerStep, HistSame DEF Calm

LEMMA UpdateChartStatusInv ==
  ASSUME IInv, NEW k \in Key, NEW v \in {"Found", "NotFound"}, UpdateChartStatus(k, v)
  PROVE  IInv'
<1>1. TypeInv /\ OverridesInv /\ KeptInv /\ FeedInv
  BY DEF IInv
<1>2. /\ Calm /\ UNCHANGED histVars
      /\ job[k] # None /\ job[k].pc = "status" /\ Onward(k) /\ SameTodo(k)
      /\ job'[k].obj = job[k].obj /\ job'[k].pc \in {"compute", "restatus"}
  BY <1>1, UpdateChartStatusFacts
<1>3. KeptJob(k)'
  BY <1>1, <1>2, TodoFacts, NoTodo DEF SameTodo
<1>4. api[Feed].phase = "live" => FeedJob(k)'
  BY <1>1, <1>2 DEF FeedInv, FeedJob
<1>5. OverridesInv' /\ Others(k)
  BY <1>1, <1>2, CalmStill, OnwardStep, HistSame DEF Onward
<1>. QED  BY <1>1, <1>2, <1>3, <1>4, <1>5, WorkerStep, HistSame DEF Calm

LEMMA RetryChartStatusInv == ASSUME IInv, NEW k \in Key, RetryChartStatus(k) PROVE IInv'
<1>1. TypeInv /\ OverridesInv /\ KeptInv /\ FeedInv
  BY DEF IInv
<1>2. /\ Calm /\ UNCHANGED histVars /\ job[k] # None /\ job[k].pc = "restatus"
      /\ \/ Requeued(k)
         \/ Onward(k) /\ SameTodo(k) /\ job'[k].obj = job[k].obj /\ job'[k].pc = "compute"
  BY <1>1, RetryChartStatusFacts
<1>3. KeptJob(k)'
  BY <1>1, <1>2, TodoFacts, NoJob, NoTodo DEF Requeued, SameTodo
<1>4. api[Feed].phase = "live" => FeedJob(k)'
  BY <1>1, <1>2 DEF FeedInv, FeedJob, Requeued
<1>5. OverridesInv' /\ Others(k)
  BY <1>1, <1>2, CalmStill, RequeuedStep, OnwardStep, HistSame DEF Requeued, Onward
<1>. QED  BY <1>1, <1>2, <1>3, <1>4, <1>5, WorkerStep, HistSame DEF Calm

LEMMA ComputeInv == ASSUME IInv, NEW k \in Key, Compute(k) PROVE IInv'
<1>1. TypeInv /\ OverridesInv /\ KeptInv /\ FeedInv
  BY DEF IInv
<1>2. /\ Calm /\ kept' = kept /\ shifted' = shifted /\ (outdated => outdated')
      /\ job[k] # None /\ job[k].pc = "compute"
      /\ \/ Requeued(k)
         \/ Others(k) /\ queue' = queue /\ Returned(k) /\ outdated'
         \/ Onward(k) /\ SameTodo(k) /\ job'[k].obj = job[k].obj /\ job'[k].pc = "sync"
  BY <1>1, ComputeFacts
<1>3. KeptJob(k)'
  BY <1>1, <1>2, TodoFacts, NoJob, NoTodo DEF Requeued, Returned, SameTodo
<1>4. api[Feed].phase = "live" => FeedJob(k)'
  BY <1>1, <1>2, KindFacts DEF FeedInv, FeedJob, Requeued, Returned
<1>5. OverridesInv'
  BY <1>1, <1>2, CalmStill, RequeuedStep, OnwardStep, ReturnedStep
<1>6. Others(k)
  BY <1>2 DEF Requeued, Onward
<1>. QED  BY <1>2, <1>3, <1>4, <1>5, <1>6, WorkerStep DEF Calm

LEMMA SyncDescriptionInv == ASSUME IInv, NEW k \in Key, SyncDescription(k) PROVE IInv'
<1>1. TypeInv /\ KeptInv /\ FeedInv
  BY DEF IInv
<1>2. /\ Quiet /\ FeedStays /\ SubsStay /\ kept' = kept /\ shifted' = shifted
      /\ job[k] # None /\ job[k].pc = "sync"
      /\ Requeued(k) \/ (Others(k) /\ Returned(k))
  BY <1>1, SyncDescriptionFacts
<1>3. KeptJob(k)'
  BY <1>1, <1>2, TodoFacts, NoJob, NoTodo DEF Requeued, Returned
<1>4. FeedJob(k)'
  BY <1>2, KindFacts DEF FeedJob, Requeued, Returned
<1>5. Others(k)
  BY <1>2 DEF Requeued
<1>. QED  BY <1>2, <1>3, <1>4, <1>5, SyncDescriptionStep, WorkerStep

LEMMA ProtectFeedInv == ASSUME IInv, NEW k \in Key, ProtectFeed(k) PROVE IInv'
<1>1. TypeInv /\ OverridesInv /\ KeptInv /\ FeedInv
  BY DEF IInv
<1> DEFINE m == {s \in Sub : Lists(cache[s])}
<1>2. /\ Calm /\ UNCHANGED histVars /\ job[k] # None /\ job[k].pc = "protect"
      /\ \/ Requeued(k)
         \/ /\ Onward(k) /\ job'[k].pc = "unlist"
            /\ job'[k].todo = {[sub |-> s, list |-> cache[s].list] : s \in m}
  BY <1>1, ProtectFeedFacts
<1>3. kept' = kept /\ shifted' = shifted /\ Still
  BY <1>1, <1>2, CalmStill, HistSame
<1>4. KeptJob(k)'
  <2>1. CASE Requeued(k)
    BY <2>1, NoJob DEF Requeued
  <2>2. CASE ~Requeued(k)
    <3> DEFINE d == {[sub |-> s, list |-> cache[s].list] : s \in m}
    <3>1. job'[k].todo = d /\ job'[k].pc = "unlist"
      BY <1>2, <2>2
    <3>2. \A t \in d : Feed \in ToSet(t.list)
      BY DEF Lists
    <3>3. ASSUME NEW s \in kept PROVE \E t \in d : t.sub = s
      <4>1. s \in m
        BY <1>1, <3>3 DEF KeptInv, Listed, TypeInv, HistOK
      <4>2. [sub |-> s, list |-> cache[s].list] \in d
        BY <4>1
      <4>3. [sub |-> s, list |-> cache[s].list].sub = s
        OBVIOUS
      <4>. QED  BY <4>2, <4>3
    <3> HIDE DEF d
    <3>. QED  BY <1>3, <3>1, <3>2, <3>3 DEF KeptJob
  <2>. QED  BY <2>1, <2>2
<1>5. api[Feed].phase # "live"
  BY <1>1, <1>2 DEF FeedInv, FeedJob
<1>6. OverridesInv' /\ Others(k)
  BY <1>1, <1>2, <1>3, RequeuedStep, OnwardStep DEF Requeued, Onward
<1>. QED  BY <1>2, <1>3, <1>4, <1>5, <1>6, WorkerStep DEF Calm

LEMMA RemovalEndsInv == ASSUME IInv, NEW k \in Key, RemovalEnds(k) PROVE IInv'
<1>1. TypeInv /\ OverridesInv /\ KeptInv /\ FeedInv
  BY DEF IInv
<1>2. /\ Calm /\ UNCHANGED histVars /\ job[k] # None /\ job[k].pc = "unlist" /\ job[k].todo = {}
      /\ \/ Requeued(k)
         \/ Onward(k) /\ job'[k].pc = "unfeed" /\ job'[k].todo = {} /\ ~job[k].failed
  BY <1>1, RemovalEndsFacts
<1>3. kept' = kept /\ shifted' = shifted /\ Still
  BY <1>1, <1>2, CalmStill, HistSame
<1>4. KeptJob(k)'
  <2>1. CASE Requeued(k)
    BY <2>1, NoJob DEF Requeued
  <2>2. CASE ~Requeued(k)
    <3>1. job'[k].pc = "unfeed" /\ job'[k].todo = {} /\ ~job[k].failed
      BY <1>2, <2>2
    <3>2. ~shifted => kept = {}
      BY <1>1, <1>2, <3>1 DEF KeptInv, KeptJob
    <3>. QED  BY <1>3, <3>1, <3>2 DEF KeptJob
  <2>. QED  BY <2>1, <2>2
<1>5. api[Feed].phase # "live"
  BY <1>1, <1>2 DEF FeedInv, FeedJob
<1>6. OverridesInv' /\ Others(k)
  BY <1>1, <1>2, <1>3, RequeuedStep, OnwardStep DEF Requeued, Onward
<1>. QED  BY <1>2, <1>3, <1>4, <1>5, <1>6, WorkerStep DEF Calm

LEMMA RequestFailsInv == ASSUME IInv, NEW k \in Key, RequestFails(k) PROVE IInv'
<1>1. TypeInv /\ OverridesInv /\ KeptInv /\ FeedInv
  BY DEF IInv
<1>2. /\ Calm /\ UNCHANGED histVars /\ job[k] # None
      /\ \/ Requeued(k)
         \/ /\ Onward(k) /\ job[k].pc = "unlist"
            /\ job'[k].pc = "unlist" /\ job'[k].todo \subseteq job[k].todo /\ job'[k].failed
  BY <1>1, RequestFailsFacts
<1>3. kept' = kept /\ shifted' = shifted /\ Still
  BY <1>1, <1>2, CalmStill, HistSame
<1>4. KeptJob(k)'
  BY <1>1, <1>2, NoJob DEF Requeued, KeptJob, KeptInv
<1>5. api[Feed].phase = "live" => FeedJob(k)'
  BY <1>1, <1>2, NoJob DEF FeedInv, FeedJob, Requeued
<1>6. OverridesInv' /\ Others(k)
  BY <1>1, <1>2, <1>3, RequeuedStep, OnwardStep DEF Requeued, Onward
<1>. QED  BY <1>2, <1>3, <1>4, <1>5, <1>6, WorkerStep DEF Calm

LEMMA RemoveFeedFromSubscriptionInv ==
  ASSUME IInv, NEW k \in Key, NEW s \in Sub, NEW l \in List,
         RemoveFeedFromSubscription(k, [sub |-> s, list |-> l])
  PROVE  IInv'
<1> DEFINE t == [sub |-> s, list |-> l]
<1>1. TypeInv /\ OverridesInv /\ KeptInv /\ FeedInv
  BY DEF IInv
<1>2. /\ Quiet /\ outdated' = outdated /\ OnlySub(s)
      /\ api'[s].phase = api[s].phase
      /\ kept' = IF Feed \in ToSet(api'[s].list) THEN kept ELSE kept \ {s}
      /\ shifted => shifted'
      /\ job[k] # None /\ job[k].pc = "unlist" /\ Onward(k)
      /\ job'[k].pc = "unlist" /\ job'[k].todo = job[k].todo \ {t}
      /\ ~job'[k].failed /\ ~shifted' => ~job[k].failed /\ ~shifted /\ s \notin kept'
  BY <1>1, RemoveFeedFromSubscriptionFacts
<1>3. t.sub = s
  OBVIOUS
<1> HIDE DEF t
<1>4. api[Feed].phase # "live" /\ Others(k)
  BY <1>1, <1>2 DEF FeedInv, FeedJob, Onward
<1>5. FeedInv'
  BY <1>1, <1>2, <1>4, FeedKeyStep DEF OnlySub
<1>6. OverridesInv'
  <2>1. Still
    BY <1>2 DEF Still, OnlySub, FeedStays
  <2>. QED  BY <1>1, <1>2, <2>1, OnwardStep
<1>7. ASSUME NEW q \in kept' PROVE Listed(q) /\ Lists(api'[q])
  <2>1. Listed(q) /\ q \in Sub
    BY <1>1, <1>2, <1>7 DEF KeptInv, TypeInv, HistOK
  <2>2. CASE q = s
    BY <1>2, <1>7, <2>1, <2>2 DEF Listed, Lists
  <2>3. CASE q # s
    BY <1>2, <2>1, <2>3 DEF Listed, OnlySub
  <2>. QED  BY <2>1, <2>2, <2>3
<1>8. ASSUME NEW j \in Key PROVE KeptJob(j)'
  <2>1. KeptJob(j) /\ KeptJob(k)
    BY <1>1 DEF KeptInv
  <2>2. CASE j # k
    <3>1. job'[j] = job[j] /\ kept' \subseteq kept
      BY <1>2, <1>4, <2>2 DEF Others
    <3>. QED  BY <1>2, <2>1, <3>1 DEF KeptJob
  <2>3. CASE j = k
    <3>1. ASSUME ~job'[k].failed, ~shifted', NEW q \in kept'
          PROVE  \E u \in job'[k].todo : u.sub = q
      <4>1. q \in kept /\ q # s /\ ~job[k].failed /\ ~shifted
        BY <1>2, <3>1
      <4>2. PICK u \in job[k].todo : u.sub = q
        BY <1>2, <2>1, <4>1 DEF KeptJob
      <4>3. u # t
        BY <1>3, <4>1, <4>2
      <4>. QED  BY <1>2, <4>2, <4>3
    <3>2. \A u \in job'[k].todo : Feed \in ToSet(u.list)
      BY <1>2, <2>1 DEF KeptJob
    <3>. QED  BY <1>2, <2>3, <3>1, <3>2 DEF KeptJob
  <2>. QED  BY <2>2, <2>3
<1>9. ReferredFeedKept'
  BY <1>1, <1>2 DEF KeptInv, ReferredFeedKept, OnlySub, FeedStays
<1>10. KeptInv'
  BY <1>1, <1>2, <1>7, <1>8, <1>9, QuietKept
<1>. QED  BY <1>2, <1>5, <1>6, <1>10 DEF IInv, Quiet

LEMMA RemoveFeedFinalizersInv == ASSUME IInv, NEW k \in Key, RemoveFeedFinalizers(k) PROVE IInv'
<1>1. TypeInv /\ OverridesInv /\ KeptInv /\ FeedInv
  BY DEF IInv
<1>2. /\ Quiet /\ UNCHANGED histVars /\ OnlyFeed
      /\ job[k] # None /\ job[k].pc = "unfeed"
      /\ \/ Requeued(k) /\ FeedStays
         \/ /\ Others(k) /\ queue' = queue /\ Returned(k)
            /\ \/ FeedStays /\ ~Exists(api[Feed])
               \/ api'[Feed].phase = "gone"
  BY <1>1, RemoveFeedFinalizersFacts
<1>3. outdated' = outdated /\ kept' = kept /\ shifted' = shifted
  BY <1>1, <1>2, HistSame
<1>4. api[Feed].phase # "live" /\ api'[Feed].phase \notin {"absent", "live"}
  BY <1>1, <1>2 DEF FeedInv, FeedJob, FeedStays
<1>5. Others(k) /\ Still
  BY <1>2, <1>3, <1>4 DEF Requeued, Still, OnlyFeed
<1>6. FeedInv'
  BY <1>1, <1>2, <1>4, QuietFeed
<1>7. OverridesInv'
  BY <1>1, <1>2, <1>4, <1>5, RequeuedStep, ReturnedStep
<1>8. KeptJob(k)'
  BY <1>1, <1>2, TodoFacts, NoJob, NoTodo DEF Requeued, Returned
<1>9. \A j \in Key : KeptJob(j)'
  BY <1>1, <1>3, <1>5, <1>8 DEF KeptInv, KeptJob, Others
<1>10. ~shifted' => kept' = {}
  BY <1>1, <1>2, <1>3 DEF KeptInv, KeptJob
<1>11. \A s \in kept' : Listed(s) /\ Lists(api'[s])
  BY <1>1, <1>2, <1>3 DEF KeptInv, Listed, OnlyFeed, SubsStay, TypeInv, HistOK
<1>12. KeptInv'
  BY <1>1, <1>2, <1>9, <1>10, <1>11, QuietKept DEF ReferredFeedKept
<1>. QED  BY <1>2, <1>6, <1>7, <1>12 DEF IInv, Quiet

(* The users. *)
LEMMA IdleWorkers ==
  ASSUME IInv, UNCHANGED workVars, kept' \subseteq kept, shifted' = shifted
  PROVE  /\ Feed \in Key /\ Others(Feed) /\ job' = job
         /\ \A k \in Key : KeptJob(k)' /\ (api[Feed].phase = "live" => FeedJob(k)')
<1>1. Feed \in Key /\ TypeInv
  BY KindFacts DEF IInv
<1>2. Others(Feed) /\ job' = job
  BY <1>1, SamePart DEF WorkPart
<1>. QED  BY <1>1, <1>2 DEF IInv, KeptInv, KeptJob, FeedInv, FeedJob

LEMMA EditTemplateInv == ASSUME IInv, EditTemplate PROVE IInv'
<1>1. TypeInv /\ OverridesInv
  BY DEF IInv
<1>2. Calm /\ UNCHANGED <<workVars, histVars>>
  BY <1>1, EditTemplateFacts
<1>3. outdated' = outdated /\ kept' = kept /\ shifted' = shifted
  BY <1>1, <1>2, HistSame
<1>4. OverridesInv'
  BY <1>1, <1>2, <1>3, CalmStill, UserStep
<1>. QED  BY <1>2, <1>3, <1>4, IdleWorkers, WorkerStep DEF Calm

LEMMA OverrideUserInv ==
  ASSUME IInv, NEW k \in Override,
         CreateOverride(k) \/ DeleteOverride(k) \/ \E v \in BOOLEAN : EditOverride(k, v)
  PROVE  IInv'
<1>1. TypeInv
  BY DEF IInv
<1>2. /\ Quiet /\ UNCHANGED <<cache, workVars, histVars>> /\ OnlyOverride(k)
      /\ api'[k].lab = api[k].lab
      /\ \/ api[k].phase = "absent" /\ api'[k].phase = "live"
         \/ api[k].phase = "live" /\ api'[k].phase \in {"live", "deleting", "escaped"}
  BY <1>1, CreateOverrideFacts, DeleteOverrideFacts, EditOverrideFacts
<1>3. kept' = kept /\ shifted' = shifted
  BY <1>1, <1>2, HistSame
<1>4. OverridesInv'
  BY <1>2, OverrideUserStep
<1>. QED  BY <1>2, <1>3, <1>4, IdleWorkers, WorkerStep DEF OnlyOverride

LEMMA DeleteFeedInv == ASSUME IInv, DeleteFeed PROVE IInv'
<1>1. TypeInv /\ OverridesInv /\ KeptInv /\ FeedInv
  BY DEF IInv
<1>2. /\ Quiet /\ UNCHANGED <<workVars, outdated, shifted>> /\ OnlyFeed
      /\ api[Feed].phase = "live" /\ api'[Feed].phase \in {"deleting", "escaped"}
      /\ kept' = {s \in Sub : Listed(s)}
  BY <1>1, DeleteFeedFacts
<1>3. job' = job
  BY <1>2 DEF workVars
<1>4. FeedInv'
  BY <1>1, <1>2, QuietFeed
<1>5. OverridesInv'
  BY <1>1, <1>2, UserStep DEF Still, OnlyFeed
<1>6. ASSUME NEW k \in Key PROVE KeptJob(k)'
  BY <1>1, <1>2, <1>3, <1>6 DEF FeedInv, FeedJob, KeptInv, KeptJob
<1>7. \A s \in kept' : Listed(s) /\ Lists(api'[s])
  BY <1>2 DEF OnlyFeed, SubsStay, Listed
<1>8. KeptInv'
  BY <1>1, <1>2, <1>6, <1>7, QuietKept DEF ReferredFeedKept
<1>. QED  BY <1>2, <1>4, <1>5, <1>8 DEF IInv, Quiet

LEMMA SubUserInv ==
  ASSUME IInv, NEW s \in Sub, DeleteSub(s) \/ \E l \in List : EditSub(s, l)
  PROVE  IInv'
<1>1. TypeInv /\ OverridesInv /\ KeptInv /\ FeedInv
  BY DEF IInv
<1>2. /\ Quiet /\ UNCHANGED <<workVars, outdated, shifted>> /\ OnlySub(s)
      /\ \/ kept' = kept \ {s}
         \/ kept' = kept /\ api'[s].phase = api[s].phase /\ Feed \in ToSet(api'[s].list)
  BY <1>1, DeleteSubFacts, EditSubFacts
<1>3. /\ Feed \in Key /\ Others(Feed)
      /\ \A k \in Key : KeptJob(k)' /\ (api[Feed].phase = "live" => FeedJob(k)')
  BY <1>2, IdleWorkers
<1>4. FeedInv'
  BY <1>1, <1>2, <1>3, FeedKeyStep DEF OnlySub
<1>5. OverridesInv'
  BY <1>1, <1>2, UserStep DEF Still, OnlySub, FeedStays
<1>6. ASSUME NEW q \in kept' PROVE Listed(q) /\ Lists(api'[q])
  <2>1. Listed(q) /\ q \in Sub
    BY <1>1, <1>2, <1>6 DEF KeptInv, TypeInv, HistOK
  <2>2. CASE q = s
    BY <1>2, <1>6, <2>1, <2>2 DEF Listed, Lists
  <2>3. CASE q # s
    BY <1>2, <2>1, <2>3 DEF Listed, OnlySub
  <2>. QED  BY <2>1, <2>2, <2>3
<1>7. ReferredFeedKept'
  BY <1>1, <1>2 DEF KeptInv, ReferredFeedKept, OnlySub, FeedStays
<1>8. KeptInv'
  BY <1>1, <1>2, <1>3, <1>6, <1>7, QuietKept
<1>. QED  BY <1>2, <1>4, <1>5, <1>8 DEF IInv, Quiet

LEMMA DeliverInv == ASSUME IInv, NEW k \in Object, Deliver(k) PROVE IInv'
<1>1. TypeInv /\ KeptInv /\ FeedInv
  BY DEF IInv
<1>2. /\ TypeInv' /\ UNCHANGED <<api, job, histVars, scenario>>
      /\ cache'[k] = watch[k][1]
      /\ Len(watch[k]) \in Nat \ {0} /\ DOMAIN watch[k] = 1..Len(watch[k])
      /\ \A i \in DOMAIN watch'[k] : i + 1 \in DOMAIN watch[k] /\ watch'[k][i] = watch[k][i + 1]
      /\ \A j \in Object \ {k} : cache'[j] = cache[j] /\ watch'[j] = watch[j]
  BY <1>1, DeliverFacts
<1>3. 1 \in DOMAIN watch[k]
  BY <1>2
<1>4. kept' = kept /\ shifted' = shifted
  BY <1>2 DEF histVars
<1>5. /\ cache'[Feed] = cache[Feed] \/ \E i \in DOMAIN watch[Feed] : cache'[Feed] = watch[Feed][i]
      /\ \A i \in DOMAIN watch'[Feed] : \E j \in DOMAIN watch[Feed] : watch'[Feed][i] = watch[Feed][j]
  <2>1. CASE k = Feed
    BY <1>2, <1>3, <2>1
  <2>2. CASE k # Feed
    BY <1>2, <2>2, KindFacts
  <2>. QED  BY <2>1, <2>2
<1>6. FeedInv'
  <2>1. \A j \in Key : FeedJob(j)' <=> FeedJob(j)
    BY <1>2 DEF FeedJob
  <2>. QED  BY <1>1, <1>2, <1>5, <2>1 DEF FeedInv
<1>7. ASSUME NEW s \in kept' PROVE Listed(s)'
  <2>1. Listed(s) /\ s \in Object
    BY <1>1, <1>4, <1>7, KindFacts DEF KeptInv, TypeInv, HistOK
  <2>2. CASE k = s
    BY <1>2, <1>3, <2>1, <2>2 DEF Listed
  <2>3. CASE k # s
    BY <1>2, <2>1, <2>3 DEF Listed
  <2>. QED  BY <2>2, <2>3
<1>8. KeptInv'
  <2>1. \A j \in Key : KeptJob(j)'
    BY <1>1, <1>2, <1>4 DEF KeptInv, KeptJob
  <2>2. ReferredFeedKept'
    BY <1>1, <1>2, <1>4 DEF KeptInv, ReferredFeedKept
  <2>. QED  BY <1>7, <2>1, <2>2 DEF KeptInv
<1>. QED  BY <1>2, <1>6, <1>8, DeliverStep DEF IInv

LEMMA RestartInv == ASSUME IInv, Restart PROVE IInv'
<1>1. TypeInv /\ KeptInv /\ FeedInv
  BY DEF IInv
<1>2. /\ TypeInv' /\ UNCHANGED <<api, histVars>> /\ cache' = api
      /\ \A k \in Object : watch'[k] = <<>>
      /\ \A k \in Key : job'[k] = None
  BY <1>1, RestartFacts
<1>3. kept' = kept /\ shifted' = shifted
  BY <1>2 DEF histVars
<1>4. \A k \in Object : DOMAIN watch'[k] = {}
  BY <1>2
<1>5. FeedInv'
  BY <1>1, <1>2, <1>4, KindFacts DEF FeedInv, FeedJob
<1>6. KeptInv'
  <2>1. \A s \in kept : Listed(s) /\ s \in Object
    BY <1>1, KindFacts DEF KeptInv, TypeInv, HistOK
  <2>2. \A s \in kept' : Listed(s)'
    BY <1>2, <1>3, <1>4, <2>1 DEF Listed
  <2>. QED  BY <1>1, <1>2, <1>3, <2>2 DEF KeptInv, KeptJob, ReferredFeedKept
<1>. QED  BY <1>2, <1>5, <1>6, RestartStep DEF IInv

-----------------------------------------------------------------------------
(* The initial state.                                                      *)

LEMMA InitStore ==
  ASSUME Init
  PROVE  /\ scenario \in ScenarioType /\ DOMAIN api = Object
         /\ api[Feed] = NewFeed /\ NewFeed \in FeedRecord /\ NewFeed.phase = "live" /\ NewFeed.rev = 1
         /\ \A o \in Override : /\ api[o] = IF o \in scenario.ready THEN OldOverride ELSE NoOverride
                                /\ api[o] \in OverrideRecord /\ api[o].rev = 1
                                /\ o \in scenario.ready =>
                                     api[o].phase = "live" /\ api[o].lab
                                /\ o \notin scenario.ready => api[o].phase = "absent"
         /\ \A s \in Sub : api[s] \in SubRecord
         /\ api[Desc] \in DescRecord /\ api[Desc].value.rev = Plain(NewFeed).rev
         /\ api[Desc].value.ovs = Applied(scenario.ready, [o \in Override |-> 1])
<1> DEFINE ovs == Applied(scenario.ready, [o \in Override |-> 1])
           p == Plain(NewFeed)
           d == [rv |-> 1, value |-> [p EXCEPT !.ovs = ovs]]
<1>1. scenario \in ScenarioType
  BY ConfigAssumption DEF Init, ScenarioType
<1>2. 1 \in Rev /\ 1 \in Nat /\ 0 \in Nat
  BY ConfigAssumption DEF Rev
<1>3. scenario.adopted \in BOOLEAN /\ scenario.gate \in BOOLEAN /\ scenario.ready \in SUBSET Override
  BY <1>1 DEF ScenarioType
<1>4. NewFeed \in FeedRecord /\ NewFeed.phase = "live" /\ NewFeed.rev = 1
  <2> DEFINE st == IF IsChart /\ scenario.adopted THEN "Found" ELSE "unset"
             pr == scenario.adopted /\ scenario.gate
  <2>1. st \in {"unset", "Found", "NotFound"}
    OBVIOUS
  <2>2. pr \in BOOLEAN
    OBVIOUS
  <2>3. NewFeed = [phase |-> "live", rv |-> 1, rev |-> 1, fin |-> scenario.adopted,
                   prot |-> pr, note |-> {}, status |-> st]
    BY DEF NewFeed
  <2> HIDE DEF st, pr
  <2>. QED  BY <1>2, <1>3, <2>1, <2>2, <2>3 DEF FeedRecord, Phase
<1>5. NoOverride \in OverrideRecord /\ NoOverride.phase = "absent" /\ NoOverride.rev = 1
  BY <1>2 DEF NoOverride, OverrideRecord, Phase
<1>6. /\ OldOverride \in OverrideRecord /\ OldOverride.phase = "live" /\ OldOverride.rev = 1
      /\ OldOverride.lab
  BY <1>2 DEF OldOverride, NoOverride, OverrideRecord, Phase
<1>7. DOMAIN api = Object /\ api[Feed] = NewFeed
  BY KindFacts DEF Init
<1>8. ASSUME NEW o \in Override
      PROVE  api[o] = IF o \in scenario.ready THEN OldOverride ELSE NoOverride
  BY KindFacts DEF Init
<1>9. \A s \in Sub : api[s] \in SubRecord
  <2>1. \A s \in Sub : api[s] = [phase |-> "live", rv |-> 1, list |-> <<Feed, Other>>]
    BY <1>3, KindFacts DEF Init
  <2>2. <<Feed, Other>> \in List
    BY DEF List
  <2>. QED  BY <1>2, <2>1, <2>2 DEF SubRecord
<1>10. api[Desc] = d
  BY <1>3, KindFacts, ObjectAssumption DEF Init, Override
<1>11. p \in Value
  BY <1>4, PlainFacts
<1>12. ovs \in Seq([ov: Override, rev: Rev])
  <2>1. [o \in Override |-> 1] \in [Override -> Rev]
    BY <1>2
  <2>. QED  BY <1>3, <2>1, AppliedFacts
<1> HIDE DEF ovs, p
<1>13. d \in DescRecord /\ d.value.rev = p.rev /\ d.value.ovs = ovs
  <2>1. [p EXCEPT !.ovs = ovs] \in Value /\ [p EXCEPT !.ovs = ovs].rev = p.rev
        /\ [p EXCEPT !.ovs = ovs].ovs = ovs
    BY <1>11, <1>12 DEF Value
  <2>. QED  BY <1>2, <2>1 DEF DescRecord
<1>. QED  BY <1>1, <1>4, <1>5, <1>6, <1>7, <1>8, <1>9, <1>10, <1>13 DEF ovs, p

LEMMA InitInv == Init => IInv
<1> SUFFICES ASSUME Init PROVE IInv
  OBVIOUS
<1>1. /\ scenario \in ScenarioType /\ DOMAIN api = Object
      /\ api[Feed] \in FeedRecord /\ api[Feed].phase = "live" /\ api[Feed].rev = 1
      /\ \A o \in Override : /\ api[o] \in OverrideRecord /\ api[o].rev = 1
                             /\ o \in scenario.ready => api[o].phase = "live" /\ api[o].lab
                             /\ o \notin scenario.ready => api[o].phase = "absent"
      /\ \A s \in Sub : api[s] \in SubRecord
      /\ api[Desc] \in DescRecord /\ api[Desc].value.rev = Plain(api[Feed]).rev
      /\ api[Desc].value.ovs = Applied(scenario.ready, [o \in Override |-> 1])
  BY InitStore
<1>2. /\ cache = api /\ watch = [k \in Object |-> <<>>] /\ queue = {Feed}
      /\ job = [k \in Key |-> None] /\ outdated = FALSE /\ kept = {} /\ shifted = FALSE
  BY DEF Init
<1>3. /\ \A k \in Object : watch[k] = <<>> /\ DOMAIN watch[k] = {}
      /\ \A k \in Key : job[k] = None
  BY <1>2
<1>4. TypeInv
  <2>1. \A k \in Object : api[k] \in OfKind(k)
    BY <1>1, KindFacts
  <2>2. \A k \in Object : watch[k] \in Seq(OfKind(k))
    BY <1>3, EmptySeq
  <2>3. DOMAIN cache = Object /\ DOMAIN watch = Object /\ DOMAIN job = Key
    BY <1>1, <1>2
  <2>4. StoreOK
    BY <1>1, <1>2, <2>1, <2>2, <2>3 DEF StoreOK
  <2>5. WorkOK
    BY <1>2, <1>3, <2>3, KindFacts DEF WorkOK
  <2>6. HistOK
    BY <1>2 DEF HistOK
  <2>7. EventsOK
    <3>1. \A k \in Key : api[k].rev = 1
      BY <1>1, KindFacts
    <3>2. scenario.left \in 0..MaxEvents
      BY <1>1 DEF ScenarioType
    <3>. QED  BY <1>1, <3>1, <3>2, ConfigAssumption DEF EventsOK
  <2>. QED  BY <2>4, <2>5, <2>6, <2>7 DEF TypeInv
<1>5. FeedInv
  BY <1>1, <1>2, <1>3, KindFacts DEF FeedInv, FeedJob
<1>6. KeptInv
  BY <1>2, <1>3 DEF KeptInv, KeptJob, ReferredFeedKept
<1>7. ASSUME NEW o \in Override PROVE Forward(o) /\ ForwardJob(o) /\ LabelAt(o) /\ LeaveAt(o)
  <2>1. o \in Key /\ o \in Object
    BY KindFacts
  <2>2. DOMAIN watch[o] = {} /\ job[o] = None /\ cache[o] = api[o]
    BY <1>2, <1>3, <2>1
  <2>3. api[o].phase = "absent" \/ (api[o].phase = "live" /\ api[o].lab)
    BY <1>1
  <2>4. Forward(o)
    BY <2>2, <2>3 DEF Forward, Behind, Past, Ended
  <2>. QED  BY <2>2, <2>3, <2>4 DEF ForwardJob, LabelAt, LeaveAt
<1>8. LastInv
  BY <1>2, <1>3, KindFacts DEF LastInv, Agree
<1> DEFINE revs == [o \in Override |-> 1]
           ovs == Applied(scenario.ready, revs)
<1>9. revs \in [Override -> Rev] /\ scenario.ready \in SUBSET Override
  BY <1>1, ConfigAssumption DEF Rev, ScenarioType
<1>10. \A o \in Override : revs[o] = 1
  OBVIOUS
<1>11. api[Desc].value.ovs = ovs
  BY <1>1
<1> HIDE DEF revs
<1>12. /\ InOrder(ovs)
       /\ \A e : e \in ToSet(ovs) <=> \E o \in scenario.ready : e = [ov |-> o, rev |-> revs[o]]
  BY <1>9, AppliedFacts
<1> HIDE DEF ovs
<1>13. OrderInv
  BY <1>3, <1>11, <1>12 DEF OrderInv
<1>14. ASSUME NEW o \in Override PROVE FreshAt(o)
  <2> DEFINE x == [ov |-> o, rev |-> 1]
  <2>1. ASSUME NEW e \in ToSet(ovs), e.ov = o PROVE o \in scenario.ready /\ e = x
    <3>1. PICK q \in scenario.ready : e = [ov |-> q, rev |-> revs[q]]
      BY <1>12
    <3>2. q = o
      BY <2>1, <3>1
    <3>. QED  BY <1>10, <3>1, <3>2
  <2>2. ASSUME o \in scenario.ready PROVE x \in ToSet(ovs) /\ x.ov = o
    BY <1>10, <1>12, <2>2
  <2>3. Due(o) = IF o \in scenario.ready THEN {x} ELSE {}
    BY <1>1, <1>2 DEF Due
  <2> HIDE DEF x
  <2>4. Shown(o) = Due(o)
    BY <1>11, <2>1, <2>2, <2>3 DEF Shown
  <2>. QED  BY <2>4 DEF FreshAt
<1>15. FreshInv
  BY <1>2, <1>14 DEF FreshInv, FreshFeed
<1>16. OverridesInv
  BY <1>7, <1>8, <1>13, <1>15 DEF OverridesInv, ForwardInv, LabelInv, LeaveInv
<1>. QED  BY <1>4, <1>5, <1>6, <1>16 DEF IInv

(* Whatever the users, the informers or a worker do. *)
LEMMA StutterInv == ASSUME IInv, UNCHANGED vars PROVE IInv'
<1>1. UNCHANGED <<api, watch, cache, queue, job, outdated, kept, shifted, scenario>>
  BY DEF vars, apiVars, workVars, histVars
<1>2. TypeInv'
  BY <1>1 DEF IInv, TypeInv, StoreOK, WorkOK, HistOK, EventsOK
<1>3. FeedInv' /\ KeptInv'
  BY <1>1 DEF IInv, FeedInv, FeedJob, KeptInv, Listed, KeptJob, ReferredFeedKept
<1>4. ForwardInv' /\ LastInv' /\ LabelInv' /\ OrderInv'
  BY <1>1 DEF IInv, OverridesInv, ForwardInv, Forward, ForwardJob, LastInv, LabelInv, LabelAt, OrderInv
<1>5. \A o \in Override : /\ ApplyNow(o)' <=> ApplyNow(o)
                          /\ Shown(o)' = Shown(o) /\ Due(o)' = Due(o)
  BY <1>1 DEF ApplyNow, Shown, Due
<1>6. FreshFeed' <=> FreshFeed
  BY <1>1 DEF FreshFeed, Plain, IsChart
<1>7. LeaveInv' /\ FreshInv'
  BY <1>1, <1>5, <1>6 DEF IInv, OverridesInv, LeaveInv, LeaveAt, FreshInv, FreshAt, NoEscape
<1>. QED  BY <1>2, <1>3, <1>4, <1>7 DEF IInv, OverridesInv

LEMMA EnvironmentInv == ASSUME IInv, Environment PROVE IInv'
<1>1. CASE EditTemplate
  BY <1>1, EditTemplateInv
<1>2. CASE DeleteFeed
  BY <1>2, DeleteFeedInv
<1>3. CASE Restart
  BY <1>3, RestartInv
<1>4. CASE \E o \in Override : \/ CreateOverride(o) \/ DeleteOverride(o)
                               \/ \E valid \in BOOLEAN : EditOverride(o, valid)
  BY <1>4, OverrideUserInv
<1>5. CASE \E s \in Sub : DeleteSub(s) \/ \E l \in List : EditSub(s, l)
  BY <1>5, SubUserInv
<1>6. CASE \E k \in Key : RequestFails(k)
  BY <1>6, RequestFailsInv
<1>7. CASE \E k \in Key : UpdateChartStatus(k, "NotFound")
  BY <1>7, UpdateChartStatusInv
<1>. QED  BY <1>1, <1>2, <1>3, <1>4, <1>5, <1>6, <1>7 DEF Environment

LEMMA WorkInv == ASSUME IInv, NEW k \in Key, Work(k) PROVE IInv'
<1>1. CASE GetItem(k)
  BY <1>1, GetItemInv
<1>2. CASE InjectFinalizer(k)
  BY <1>2, InjectFinalizerInv
<1>3. CASE PatchLabels(k)
  BY <1>3, PatchLabelsInv
<1>4. CASE Apply(k)
  BY <1>4, ApplyInv
<1>5. CASE UpdateChartStatus(k, "Found")
  BY <1>5, UpdateChartStatusInv
<1>6. CASE RetryChartStatus(k)
  BY <1>6, RetryChartStatusInv
<1>7. CASE Compute(k)
  BY <1>7, ComputeInv
<1>8. CASE SyncDescription(k)
  BY <1>8, SyncDescriptionInv
<1>9. CASE ProtectFeed(k)
  BY <1>9, ProtectFeedInv
<1>10. CASE RemovalEnds(k)
  BY <1>10, RemovalEndsInv
<1>11. CASE RemoveFeedFinalizers(k)
  BY <1>11, RemoveFeedFinalizersInv
<1>12. CASE \E s \in Sub, l \in List : RemoveFeedFromSubscription(k, [sub |-> s, list |-> l])
  BY <1>12, RemoveFeedFromSubscriptionInv
<1>13. CASE ReleaseOverride(k)
  BY <1>13, ReleaseOverrideInv
<1>14. CASE InjectFeedFinalizers
  BY <1>14, InjectFeedFinalizersInv
<1>. QED  BY <1>1, <1>2, <1>3, <1>4, <1>5, <1>6, <1>7, <1>8, <1>9, <1>10, <1>11, <1>12, <1>13,
             <1>14 DEF Work

LEMMA Inductive == Spec => []IInv
<1>1. IInv /\ [Next]_vars => IInv'
  BY StutterInv, EnvironmentInv, DeliverInv, WorkInv DEF Next
<1>. QED  BY <1>1, InitInv, PTL DEF Spec

-----------------------------------------------------------------------------
(* The theorems.                                                           *)

(* Every object, version and job has its type, and no behaviour runs out   *)
(* of revisions for the edits that it may still see.                       *)
THEOREM FeedSyncTypeCorrect == Spec => []TypeOK
<1>1. IInv => TypeOK
  BY TypeInvTypeOK DEF IInv
<1>. QED  BY <1>1, Inductive, PTL

(* Once handleManifest or handleHelmChart has let go of a deleted feed, no *)
(* Subscription lists it that was known to list it when it was deleted,    *)
(* unless a list was reordered under a patch of RemoveFeedFromSubscription *)
(* - whatever the number of workers, callbacks, retries and restarts.      *)
THEOREM FeedsOutliveReferences == Spec => []ReferredFeedKept
<1>1. IInv => ReferredFeedKept
  BY DEF IInv, KeptInv
<1>. QED  BY <1>1, Inductive, PTL

(* Only ReleaseOverride lets a deleted override go. *)
LetGo(o) == api[o].phase = "deleting" /\ api'[o].phase = "gone"

LEMMA StayFacts ==
  ASSUME OverridesStay, NEW o \in Override
  PROVE  ~LetGo(o)
BY DEF OverridesStay, OverrideStays, LetGo

LEMMA EnvironmentKeeps ==
  ASSUME IInv, Environment, NEW o \in Override
  PROVE  ~LetGo(o)
<1>1. TypeInv /\ KeptInv
  BY DEF IInv
<1>2. CASE EditTemplate
  BY <1>1, <1>2, EditTemplateFacts, StayFacts DEF Calm
<1>3. CASE DeleteFeed
  BY <1>1, <1>3, DeleteFeedFacts, StayFacts DEF OnlyFeed
<1>4. CASE Restart
  BY <1>1, <1>4, RestartFacts DEF LetGo
<1>5. ASSUME NEW p \in Override,
             CreateOverride(p) \/ DeleteOverride(p) \/ \E valid \in BOOLEAN : EditOverride(p, valid)
      PROVE  ~LetGo(o)
  <2>1. OnlyOverride(p) /\ api[p].phase \in {"absent", "live"}
    BY <1>1, <1>5, CreateOverrideFacts, DeleteOverrideFacts, EditOverrideFacts
  <2>. QED  BY <2>1 DEF OnlyOverride, LetGo
<1>6. ASSUME NEW s \in Sub, DeleteSub(s) \/ \E l \in List : EditSub(s, l) PROVE ~LetGo(o)
  BY <1>1, <1>6, DeleteSubFacts, EditSubFacts, StayFacts DEF OnlySub
<1>7. ASSUME NEW k \in Key, RequestFails(k) PROVE ~LetGo(o)
  BY <1>1, <1>7, RequestFailsFacts, StayFacts DEF Calm
<1>8. ASSUME NEW k \in Key, UpdateChartStatus(k, "NotFound") PROVE ~LetGo(o)
  BY <1>1, <1>8, UpdateChartStatusFacts, StayFacts DEF Calm
<1>. QED  BY <1>2, <1>3, <1>4, <1>5, <1>6, <1>7, <1>8 DEF Environment

LEMMA OnlyReleases ==
  ASSUME IInv, NEW k \in Key, Work(k), NEW o \in Override, LetGo(o)
  PROVE  k = o /\ ReleaseOverride(o)
<1>1. TypeInv /\ KeptInv
  BY DEF IInv
<1>2. ~GetItem(k) /\ ~InjectFinalizer(k) /\ ~Apply(k)
  BY <1>1, GetItemFacts, InjectFinalizerFacts, ApplyFacts, StayFacts DEF Calm
<1>3. ~PatchLabels(k)
  BY <1>1, PatchLabelsFacts DEF OnlyOverride, LetGo
<1>4. ~UpdateChartStatus(k, "Found") /\ ~RetryChartStatus(k)
  BY <1>1, UpdateChartStatusFacts, RetryChartStatusFacts, StayFacts DEF Calm
<1>5. ~Compute(k) /\ ~SyncDescription(k) /\ ~ProtectFeed(k) /\ ~RemovalEnds(k)
  BY <1>1, ComputeFacts, SyncDescriptionFacts, ProtectFeedFacts, RemovalEndsFacts, StayFacts DEF Calm
<1>6. ~RemoveFeedFinalizers(k)
  BY <1>1, RemoveFeedFinalizersFacts, StayFacts DEF OnlyFeed
<1>7. ~\E s \in Sub, l \in List : RemoveFeedFromSubscription(k, [sub |-> s, list |-> l])
  BY <1>1, RemoveFeedFromSubscriptionFacts, StayFacts DEF OnlySub
<1>8. ~InjectFeedFinalizers
  BY <1>1, InjectFeedFinalizersFacts, StayFacts DEF Calm
<1>9. ReleaseOverride(k)
  BY <1>2, <1>3, <1>4, <1>5, <1>6, <1>7, <1>8 DEF Work
<1>10. k = o
  BY <1>1, <1>9, ReleaseOverrideFacts DEF OnlyOverride, LetGo
<1>. QED  BY <1>9, <1>10

(* An override takes its value along: when the localizer removes the       *)
(* finalizer of an ApplyNow override, the Description of the live feed has *)
(* been rendered without it, for any number of overrides, concurrent       *)
(* callbacks, conflicts and restarts.                                      *)
THEOREM OverridesLeaveNothing == Spec => OverrideLeavesNothing
<1> DEFINE Left(o) ==
      api[o].phase = "deleting" /\ api'[o].phase = "gone"
      /\ ApplyNow(o) /\ api[Feed].phase = "live" /\ ~outdated =>
        \A i \in DOMAIN api[Desc].value.ovs : api[Desc].value.ovs[i].ov # o
<1>1. ASSUME IInv, Next, NEW o \in Override PROVE Left(o)
  <2> SUFFICES ASSUME LetGo(o), ApplyNow(o), api[Feed].phase = "live", ~outdated
               PROVE  \A i \in DOMAIN api[Desc].value.ovs : api[Desc].value.ovs[i].ov # o
    BY DEF LetGo
  <2>1. TypeInv /\ LeaveAt(o) /\ o \in Key
    BY <1>1, KindFacts DEF IInv, OverridesInv, LeaveInv
  <2>2. ~Environment
    BY <1>1, EnvironmentKeeps
  <2>3. ~\E k \in Object : Deliver(k)
    BY <2>1, DeliverFacts DEF LetGo
  <2>4. ReleaseOverride(o)
    BY <1>1, <2>2, <2>3, OnlyReleases DEF Next
  <2>5. job[o] # None /\ job[o].pc = "release" /\ job[o].origin = "lister"
    BY <2>1, <2>4, ReleaseOverrideFacts DEF LetGo, OverridesStay, OverrideStays
  <2>6. Shown(o) = {}
    BY <2>1, <2>5 DEF LeaveAt
  <2>. QED  BY <2>6 DEF Shown, ToSet
<1>2. IInv /\ [Next]_vars => [\A o \in Override : Left(o)]_vars
  BY <1>1
<1>. QED  BY <1>2, Inductive, PTL DEF Spec, OverrideLeavesNothing

(* No change of a template or of an ApplyNow override is lost on its way   *)
(* to the Description, whichever of the concurrent workers of the feed and *)
(* of its overrides came last: when nothing is queued, running or on its   *)
(* way, the Description has what populateDescriptions would render from    *)
(* the stored objects, in the order of the localizer.                      *)
THEOREM NoChangeIsLost == Spec => []OverridesApplied
<1>1. ASSUME IInv PROVE OverridesApplied
  <2> SUFFICES ASSUME Idle, api[Feed].phase = "live", ~outdated, NoEscape
               PROVE  /\ api[Desc].value.rev = Plain(api[Feed]).rev
                      /\ {e \in ToSet(api[Desc].value.ovs) : ApplyNow(e.ov)} = Wanted
                      /\ InOrder(api[Desc].value.ovs)
    BY DEF OverridesApplied, NoEscape, InOrder
  <2>1. /\ TypeInv /\ ForwardInv /\ LastInv /\ LabelInv /\ OrderInv
        /\ FreshFeed /\ \A o \in Override : FreshAt(o)
    BY <1>1 DEF IInv, OverridesInv, FreshInv
  <2>2. /\ queue = {} /\ \A k \in Key : job[k] = None /\ watch[k] = <<>>
        /\ \A k \in Key : Agree(cache[k], api[k])
        /\ \A o \in Override : o \in Key /\ cache[o].lab = api[o].lab
    BY <2>1, KindFacts DEF Idle, LastInv
  <2>3. api[Desc].value.rev = Plain(api[Feed]).rev
    BY <2>1, <2>2, KindFacts DEF FreshFeed, Plain, Agree
  <2>4. ASSUME NEW o \in Override, ApplyNow(o)
        PROVE  Shown(o) = IF api[o].phase = "live" THEN {[ov |-> o, rev |-> api[o].rev]} ELSE {}
    <3>1. api[o].phase = "live" => api[o].lab
      BY <2>1, <2>2 DEF LabelInv, LabelAt, Agree
    <3>2. Shown(o) = Due(o)
      BY <2>1, <2>2, <2>4 DEF FreshAt
    <3>. QED  BY <2>2, <3>1, <3>2 DEF Due, Agree
  <2> DEFINE d == ToSet(api[Desc].value.ovs)
             w(o) == [ov |-> o, rev |-> api[o].rev]
  <2>5. ASSUME NEW e \in d, ApplyNow(e.ov) PROVE e \in Wanted
    <3>1. e.ov \in Override
      <4>1. api[Desc].value.ovs \in Seq([ov: Override, rev: Rev])
        BY <2>1, StoredFacts DEF TypeInv, DescRecord, Value
      <4>2. PICK i \in DOMAIN api[Desc].value.ovs : e = api[Desc].value.ovs[i]
        BY DEF ToSet
      <4>3. e \in [ov: Override, rev: Rev]
        BY <4>1, <4>2, ElementOfSeq, LenProperties
      <4>. QED  BY <4>3
    <3>2. e \in Shown(e.ov)
      BY DEF Shown
    <3>3. api[e.ov].phase = "live" /\ e = w(e.ov)
      BY <2>4, <2>5, <3>1, <3>2
    <3>. QED  BY <2>5, <3>1, <3>3 DEF Wanted
  <2>6. ASSUME NEW e \in Wanted PROVE e \in d /\ ApplyNow(e.ov)
    <3>1. PICK o \in Override : ApplyNow(o) /\ api[o].phase = "live" /\ e = w(o)
      BY DEF Wanted
    <3>2. e \in Shown(o) /\ e.ov = o
      BY <2>4, <3>1
    <3>. QED  BY <3>1, <3>2 DEF Shown
  <2>. QED  BY <2>1, <2>3, <2>5, <2>6 DEF OrderInv
<1>. QED  BY <1>1, Inductive, PTL
=============================================================================
