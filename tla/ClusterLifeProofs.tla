-------------------------- MODULE ClusterLifeProofs --------------------------
(***************************************************************************)
(* What ClusterLife guarantees for any number of Namespaces, accounts and  *)
(* disturbances: type correctness, that an approved request names the      *)
(* account which the bindings name, and that only a silent cluster is      *)
(* declared Unknown.  Registration and ClusterHealth have an invariant     *)
(* each; the actions of one leave the variables of the other alone.        *)
(***************************************************************************)
EXTENDS ClusterLife, TLAPS

-----------------------------------------------------------------------------
(* The invariants of the registration.                                     *)

WithNamespace == {"cluster", "account", "clusterrole", "role", "credentials", "status"}
WithAccount   == {"clusterrole", "role", "credentials", "status"}

(* The handler works with a Namespace and an account that were created. *)
StageInv ==
  /\ worker.pc \in WithNamespace => worker.ns \in 1..nss
  /\ worker.pc \in WithAccount => worker.sa \in 1..saCount
  /\ \A a \in Accounts : sa[a] # 0 => a \in 1..saCount

RegTypeInv == RegTypeOK /\ StageInv

RoleBound(a) == sa[a] # 0 => roleBinding[sa[a]] = a

(* The bindings that the handler has passed name its account. *)
BindInv ==
  /\ worker.pc \in {"role", "credentials", "status"} => clusterRoleBinding = worker.sa
  /\ worker.pc \in {"credentials", "status"} => RoleBound(worker.sa)

(* The approver creates nothing for this version of the CRR. *)
Settled(c) == ~c.exists \/ ~c.legal \/ c.result # ""

(* As long as the CRR is not deleted, only its first version asks for      *)
(* something, and no version that the hub still reads does once the CRR    *)
(* is answered, so that the bindings stay as they are.                     *)
AnswerInv ==
  "delete" \notin faults =>
    /\ ~crr.exists => ~crrCache.exists /\ Len(crrWatch) = 0
    /\ \A i \in DOMAIN crrWatch :
         crrWatch[i].exists /\ (i > 1 \/ crrCache.exists => Settled(crrWatch[i]))
    /\ worker.pc # "idle" => crrCache.exists
    /\ worker.pc # "idle" /\ ~worker.held => Settled(crrCache)
    /\ crr.result # "" => /\ Settled(crrCache)
                          /\ \A i \in DOMAIN crrWatch : Settled(crrWatch[i])
                          /\ worker.pc \in {"idle", "deny"}
    /\ crr.result = "Approved" => /\ crr.token \in 1..saCount
                                  /\ clusterRoleBinding = crr.token
                                  /\ RoleBound(crr.token)

RegInv == RegTypeInv /\ BindInv /\ AnswerInv

-----------------------------------------------------------------------------
(* The invariant of the heartbeats: a copy that no write has overtaken is  *)
(* a copy of what is stored.                                               *)

ListerInv == \A n \in Home : lister[n].current =>
               lister[n].exists = mc[n].exists /\ lister[n].probe = mc[n].probe

HealthInv == HealthTypeOK /\ ListerInv

-----------------------------------------------------------------------------
(* Facts that the actions of the registration share.                       *)

LEMMA Bounds ==
  /\ MaxNs \in Nat /\ MaxSA \in Nat /\ MaxNs >= 1 /\ MaxSA >= 1
  /\ Namespaces = 1..MaxNs /\ Accounts = 1..MaxSA
  /\ 0..MaxSA \subseteq Tokens /\ Bootstrap \in Tokens /\ Empty \in Tokens
  /\ Empty \in 0..MaxSA
BY BoundsAssumption DEF Namespaces, Accounts, Tokens, Bootstrap, Empty

LEMMA WorkerFacts ==
  ASSUME RegTypeOK
  PROVE  /\ worker \in Worker /\ worker.pc \in Stage /\ worker.ns \in 0..MaxNs
         /\ worker.sa \in 0..MaxSA /\ worker.held \in BOOLEAN
         /\ Idle \in Worker /\ Idle.pc = "idle"
BY Bounds DEF RegTypeOK, Worker, Idle, Stage

LEMMA DisturbFacts ==
  ASSUME RegTypeOK, NEW kind \in Fault, Disturb(kind)
  PROVE  /\ faults' \subseteq Fault
         /\ "delete" \notin faults' => "delete" \notin faults /\ kind # "delete"
BY DEF Disturb, RegTypeOK

(* A version of the CRR comes last. *)
LEMMA WriteCRRFacts ==
  ASSUME RegTypeOK, NEW o \in CRR, WriteCRR(o)
  PROVE  /\ crr' = o /\ crrWatch' \in Seq(CRR) /\ Len(crrWatch') = Len(crrWatch) + 1
         /\ Len(crrWatch) \in Nat /\ DOMAIN crrWatch = 1..Len(crrWatch)
         /\ DOMAIN crrWatch' = 1..(Len(crrWatch) + 1)
         /\ crrWatch'[Len(crrWatch) + 1] = o
         /\ \A i \in DOMAIN crrWatch : crrWatch'[i] = crrWatch[i]
BY DEF WriteCRR, RegTypeOK

(* The objects that the hub creates and the process states of the agent    *)
(* have their types; what remains of RegTypeInv is said by the actions.    *)
LEMMA RegTypeKept ==
  ASSUME RegTypeOK, UNCHANGED hubObjects, hubCaches' = hubCaches, UNCHANGED agentVars,
         crr' \in CRR, crrCache' \in CRR, crrWatch' \in Seq(CRR), crrQueued' \in BOOLEAN,
         worker' \in Worker, faults' \subseteq Fault
  PROVE  RegTypeOK'
BY DEF RegTypeOK, hubObjects, hubCaches, agentVars

(* Steps of the agent and of the caches touch neither CRR nor handler. *)
LEMMA HandlerKept ==
  ASSUME RegInv, UNCHANGED <<crr, crrWatch, crrCache, worker, sa, saCount, nss,
                             roleBinding, clusterRoleBinding>>,
         "delete" \notin faults' => "delete" \notin faults
  PROVE  StageInv' /\ BindInv' /\ AnswerInv'
BY DEF RegInv, RegTypeInv, StageInv, BindInv, AnswerInv, RoleBound, Settled

(* The registration starts with nothing. *)
LEMMA RegInitial ==
  ASSUME RegInit
  PROVE  RegInv
<1>1. NoCRR \in CRR /\ Idle \in Worker /\ Down \in Agent /\ Idle.pc = "idle"
      /\ NoCRR.exists = FALSE /\ NoCRR.result = ""
  BY Bounds DEF NoCRR, CRR, Idle, Worker, Down, Agent, Stage
<1>2. 1..0 = {} /\ 0 \in 0..MaxNs /\ 0 \in 0..MaxSA
  BY Bounds
<1>3. crrWatch \in Seq(CRR) /\ Len(crrWatch) = 0 /\ DOMAIN crrWatch = {}
  BY DEF RegInit
<1>4. RegTypeOK
  BY <1>1, <1>2, <1>3, Bounds DEF RegInit, RegTypeOK
<1>5. StageInv /\ BindInv /\ AnswerInv
  BY <1>1, <1>3 DEF RegInit, StageInv, BindInv, AnswerInv, WithNamespace, WithAccount, Settled
<1>. QED  BY <1>4, <1>5 DEF RegInv, RegTypeInv

(* The hub learns of a version of the CRR. *)
LEMMA SyncCRRInv ==
  ASSUME RegInv, SyncCRR
  PROVE  RegInv'
<1>1. RegTypeOK /\ StageInv /\ BindInv /\ AnswerInv
  BY DEF RegInv, RegTypeInv
<1>2. /\ crrWatch \in Seq(CRR) /\ crrWatch # <<>>
      /\ crrCache' = Head(crrWatch) /\ crrWatch' = Tail(crrWatch)
      /\ worker' = [worker EXCEPT !.held = FALSE]
      /\ UNCHANGED <<crr, hubObjects, hubCaches, agentVars, faults>>
  BY <1>1 DEF SyncCRR, RegTypeOK
<1>3. /\ Head(crrWatch) \in CRR /\ Tail(crrWatch) \in Seq(CRR)
      /\ Head(crrWatch) = crrWatch[1] /\ 1 \in DOMAIN crrWatch
      /\ DOMAIN crrWatch = 1..Len(crrWatch) /\ Len(crrWatch) \in Nat /\ Len(crrWatch) > 0
      /\ \A i \in DOMAIN Tail(crrWatch) :
           i + 1 \in DOMAIN crrWatch /\ i + 1 > 1 /\ Tail(crrWatch)[i] = crrWatch[i + 1]
  BY <1>2
<1>4. /\ worker' \in Worker /\ worker'.pc = worker.pc /\ worker'.ns = worker.ns
      /\ worker'.sa = worker.sa
  BY <1>1, <1>2, WorkerFacts DEF Worker
<1>5. RegTypeOK'
  <2>1. crrQueued' \in BOOLEAN
    BY <1>1 DEF SyncCRR, RegTypeOK, CRREventEnqueues
  <2>2. crr' \in CRR /\ crrCache' \in CRR /\ crrWatch' \in Seq(CRR) /\ faults' \subseteq Fault
    BY <1>1, <1>2, <1>3 DEF RegTypeOK
  <2>. QED  BY <1>1, <1>2, <1>4, <2>1, <2>2, RegTypeKept
<1>6. StageInv' /\ BindInv'
  BY <1>1, <1>2, <1>4 DEF StageInv, BindInv, RoleBound, hubObjects
<1>7. AnswerInv'
  <2>1. SUFFICES ASSUME "delete" \notin faults PROVE AnswerInv'
    BY <1>2 DEF AnswerInv
  <2>2. crr.exists /\ crrWatch[1].exists
    <3>1. ~crr.exists => Len(crrWatch) = 0
      BY <1>1, <2>1 DEF AnswerInv
    <3>2. crrWatch[1].exists
      BY <1>1, <1>3, <2>1 DEF AnswerInv
    <3>. QED  BY <1>3, <3>1, <3>2
  <2>3. \A i \in DOMAIN crrWatch' : crrWatch'[i].exists /\ Settled(crrWatch'[i])
    BY <1>1, <1>2, <1>3, <2>1 DEF AnswerInv
  <2>4. worker.pc # "idle" => Settled(crrCache')
    BY <1>1, <1>2, <1>3, <2>1 DEF AnswerInv
  <2>5. crr.result # "" => Settled(crrCache')
    BY <1>1, <1>2, <1>3, <2>1 DEF AnswerInv
  <2>. QED  BY <1>1, <1>2, <1>3, <1>4, <2>1, <2>2, <2>3, <2>4, <2>5
            DEF AnswerInv, RoleBound, hubObjects
<1>. QED  BY <1>5, <1>6, <1>7 DEF RegInv, RegTypeInv

(* The other caches are filled; accounts that live were created. *)
LEMMA SyncCachesInv ==
  ASSUME RegInv, SyncNamespaces \/ SyncClusters \/ SyncAccounts
  PROVE  RegInv'
<1>1. RegTypeOK /\ StageInv
  BY DEF RegInv, RegTypeInv
<1>2. LiveAccounts \subseteq 1..saCount
  BY <1>1 DEF StageInv, LiveAccounts
<1>3. RegTypeOK'
  BY <1>1, <1>2
  DEF SyncNamespaces, SyncClusters, SyncAccounts, RegTypeOK, crrVars, hubObjects, agentVars
<1>4. StageInv' /\ BindInv' /\ AnswerInv'
  BY HandlerKept DEF SyncNamespaces, SyncClusters, SyncAccounts, crrVars, hubObjects
<1>. QED  BY <1>3, <1>4 DEF RegInv, RegTypeInv

LEMMA MintTokenInv ==
  ASSUME RegInv, NEW a \in Accounts, MintToken(a)
  PROVE  RegInv'
<1>1. RegTypeOK'
  BY DEF RegInv, RegTypeInv, MintToken, RegTypeOK, crrVars, hubCaches, agentVars
<1>2. StageInv' /\ BindInv' /\ AnswerInv'
  BY HandlerKept DEF MintToken, crrVars
<1>. QED  BY <1>1, <1>2 DEF RegInv, RegTypeInv

-----------------------------------------------------------------------------
(* The approver.                                                           *)

LEMMA GetRequestInv ==
  ASSUME RegInv, GetRequest
  PROVE  RegInv'
<1>1. RegTypeOK /\ StageInv /\ BindInv /\ AnswerInv
  BY DEF RegInv, RegTypeInv
<1>2. UNCHANGED <<crr, crrWatch, crrCache, hubObjects, hubCaches, agentVars, faults>>
  BY DEF GetRequest
<1>3. /\ worker' \in Worker
      /\ \/ worker'.pc = "idle"
         \/ crrCache.exists /\ worker'.held /\ worker'.pc = "deny" /\ ~crrCache.legal
         \/ crrCache.exists /\ worker'.held /\ worker'.pc = "namespace" /\ ~Settled(crrCache)
  <2>1. CASE Handled(crrCache)
    BY <1>1, <2>1, WorkerFacts DEF GetRequest
  <2>2. CASE ~Handled(crrCache)
    <3>1. worker' = [Idle EXCEPT !.pc = IF crrCache.legal THEN "namespace" ELSE "deny",
                                 !.held = TRUE]
      BY <2>2 DEF GetRequest
    <3>2. /\ worker' \in Worker /\ worker'.held
          /\ worker'.pc = IF crrCache.legal THEN "namespace" ELSE "deny"
      BY <1>1, <3>1, WorkerFacts DEF Worker, Stage
    <3>. QED  BY <2>2, <3>2 DEF Handled, Settled
  <2>. QED  BY <2>1, <2>2
<1>4. RegTypeOK'
  BY <1>1, <1>2, <1>3, RegTypeKept DEF GetRequest, RegTypeOK
<1>5. StageInv' /\ BindInv'
  BY <1>1, <1>2, <1>3 DEF StageInv, BindInv, hubObjects, WithNamespace, WithAccount
<1>6. AnswerInv'
  BY <1>1, <1>2, <1>3 DEF AnswerInv, RoleBound, hubObjects
<1>. QED  BY <1>4, <1>5, <1>6 DEF RegInv, RegTypeInv

(* Steps of the handler before the answer: the CRR has none yet. *)
LEMMA StageStep ==
  ASSUME RegInv, worker.pc \notin {"idle", "deny"}, worker' \in Worker, worker'.pc # "idle",
         worker'.held = worker.held, UNCHANGED <<crr, crrWatch, crrCache, faults>>
  PROVE  AnswerInv'
BY DEF RegInv, AnswerInv

LEMMA CreateNamespaceInv ==
  ASSUME RegInv, CreateNamespace
  PROVE  RegInv'
<1>1. RegTypeOK /\ StageInv /\ worker.pc = "namespace"
  BY DEF RegInv, RegTypeInv, CreateNamespace
<1>2. UNCHANGED <<crrVars, mcs, sa, saCount, minted, roleBinding, clusterRoleBinding,
                  hubCaches, agentVars, faults>>
  BY DEF CreateNamespace
<1>3. /\ nss' \in 0..MaxNs /\ nss <= nss' /\ nss \in Nat /\ nss' \in Nat
      /\ \E n \in 1..nss' : worker' = [worker EXCEPT !.pc = "cluster", !.ns = n]
  <2>1. nss \in 0..MaxNs /\ nsCache \subseteq 1..nss
    BY <1>1 DEF RegTypeOK
  <2>2. CASE nsCache # {}
    <3>1. PICK n \in nsCache : worker' = [worker EXCEPT !.pc = "cluster", !.ns = n]
      BY <2>2 DEF CreateNamespace
    <3>2. nss' = nss /\ n \in 1..nss'
      BY <2>1, <2>2 DEF CreateNamespace
    <3>3. nss' \in 0..MaxNs /\ nss <= nss' /\ nss \in Nat /\ nss' \in Nat
      BY <2>1, <3>2, Bounds
    <3>. QED  BY <3>1, <3>2, <3>3
  <2>3. CASE nsCache = {}
    <3>1. /\ nss < MaxNs /\ nss' = nss + 1
          /\ worker' = [worker EXCEPT !.pc = "cluster", !.ns = nss + 1]
      BY <2>3 DEF CreateNamespace
    <3>2. nss' \in 0..MaxNs /\ nss <= nss' /\ nss \in Nat /\ nss' \in Nat /\ nss + 1 \in 1..nss'
      BY <2>1, <3>1, Bounds
    <3>. QED  BY <3>1, <3>2
  <2>. QED  BY <2>2, <2>3
<1>4. PICK n \in 1..nss' : worker' = [worker EXCEPT !.pc = "cluster", !.ns = n]
  BY <1>3
<1>5. n \in 0..MaxNs
  BY <1>3, Bounds
<1>6. /\ worker' \in Worker /\ worker'.pc = "cluster" /\ worker'.ns \in 1..nss'
      /\ worker'.held = worker.held
  BY <1>1, <1>4, <1>5, WorkerFacts DEF Worker, Stage
<1>7. 1..nss \subseteq 1..nss'
  BY <1>3
<1>8. RegTypeOK'
  BY <1>1, <1>2, <1>3, <1>6, <1>7 DEF RegTypeOK, crrVars, hubCaches, agentVars
<1>9. StageInv' /\ BindInv'
  BY <1>1, <1>2, <1>6 DEF StageInv, BindInv, WithAccount
<1>10. AnswerInv'
  BY <1>1, <1>2, <1>6, StageStep DEF crrVars
<1>. QED  BY <1>8, <1>9, <1>10 DEF RegInv, RegTypeInv

LEMMA CreateManagedClusterInv ==
  ASSUME RegInv, CreateManagedCluster
  PROVE  RegInv' /\ worker.ns \in Namespaces
<1>1. RegTypeOK /\ StageInv /\ worker.pc = "cluster" /\ worker.ns \in 1..nss
  BY DEF RegInv, RegTypeInv, CreateManagedCluster, StageInv, WithNamespace
<1>2. UNCHANGED <<crrVars, nss, sa, saCount, minted, roleBinding, clusterRoleBinding,
                  hubCaches, agentVars, faults>>
  BY DEF CreateManagedCluster
<1>3. /\ worker' \in Worker /\ worker'.pc = "account" /\ worker'.ns = worker.ns
      /\ worker'.held = worker.held
  BY <1>1, WorkerFacts DEF CreateManagedCluster, Worker, Stage
<1>4. mcs \subseteq mcs' /\ mcs' \subseteq 1..nss
  BY <1>1 DEF CreateManagedCluster, RegTypeOK
<1>5. RegTypeOK'
  BY <1>1, <1>2, <1>3, <1>4 DEF RegTypeOK, crrVars, hubCaches, agentVars
<1>6. StageInv' /\ BindInv'
  BY <1>1, <1>2, <1>3 DEF StageInv, BindInv, WithAccount
<1>7. AnswerInv'
  BY <1>1, <1>2, <1>3, StageStep DEF crrVars
<1>8. worker.ns \in Namespaces
  BY <1>1, Bounds DEF RegTypeOK
<1>. QED  BY <1>5, <1>6, <1>7, <1>8 DEF RegInv, RegTypeInv

LEMMA CreateServiceAccountInv ==
  ASSUME RegInv, CreateServiceAccount
  PROVE  RegInv'
<1>1. RegTypeOK /\ StageInv /\ worker.pc = "account" /\ worker.ns \in 1..nss
  BY DEF RegInv, RegTypeInv, CreateServiceAccount, StageInv, WithNamespace
<1>2. UNCHANGED <<crrVars, nss, mcs, minted, roleBinding, clusterRoleBinding,
                  hubCaches, agentVars, faults>>
  BY DEF CreateServiceAccount
<1>3. /\ saCount' \in 0..MaxSA /\ saCount <= saCount' /\ saCount \in Nat /\ saCount' \in Nat
      /\ \E a \in 1..saCount' : worker' = [worker EXCEPT !.pc = "clusterrole", !.sa = a]
  <2>1. saCount \in 0..MaxSA /\ saCache \subseteq 1..saCount
    BY <1>1 DEF RegTypeOK
  <2>2. CASE saCache # {}
    <3>1. PICK a \in saCache : worker' = [worker EXCEPT !.pc = "clusterrole", !.sa = a]
      BY <2>2 DEF CreateServiceAccount
    <3>2. saCount' = saCount /\ a \in 1..saCount'
      BY <2>1, <2>2 DEF CreateServiceAccount
    <3>3. saCount' \in 0..MaxSA /\ saCount <= saCount' /\ saCount \in Nat /\ saCount' \in Nat
      BY <2>1, <3>2, Bounds
    <3>. QED  BY <3>1, <3>2, <3>3
  <2>3. CASE saCache = {}
    <3>1. /\ saCount < MaxSA /\ saCount' = saCount + 1
          /\ worker' = [worker EXCEPT !.pc = "clusterrole", !.sa = saCount + 1]
      BY <2>3 DEF CreateServiceAccount
    <3>2. /\ saCount' \in 0..MaxSA /\ saCount <= saCount' /\ saCount \in Nat /\ saCount' \in Nat
          /\ saCount + 1 \in 1..saCount'
      BY <2>1, <3>1, Bounds
    <3>. QED  BY <3>1, <3>2
  <2>. QED  BY <2>2, <2>3
<1>4. PICK a \in 1..saCount' : worker' = [worker EXCEPT !.pc = "clusterrole", !.sa = a]
  BY <1>3
<1>5. a \in 0..MaxSA /\ 1..saCount \subseteq 1..saCount'
  BY <1>3, Bounds
<1>6. /\ worker' \in Worker /\ worker'.pc = "clusterrole" /\ worker'.sa \in 1..saCount'
      /\ worker'.held = worker.held /\ worker'.ns = worker.ns
  BY <1>1, <1>4, <1>5, WorkerFacts DEF Worker, Stage
<1>7. /\ sa' \in [Accounts -> 0..MaxNs]
      /\ \A b \in Accounts : sa'[b] # 0 => b \in 1..saCount'
  <2>1. CASE sa' = sa
    BY <1>1, <1>5, <2>1 DEF RegTypeOK, StageInv
  <2>2. CASE sa' = [sa EXCEPT ![saCount + 1] = worker.ns] /\ saCount' = saCount + 1
    <3>1. worker.ns \in 0..MaxNs
      BY <1>1, WorkerFacts
    <3>2. \A b \in Accounts : sa'[b] # sa[b] => b = saCount + 1
      BY <1>1, <2>2 DEF RegTypeOK
    <3>3. saCount + 1 \in 1..saCount'
      BY <1>3, <2>2
    <3>. QED  BY <1>1, <1>5, <2>2, <3>1, <3>2, <3>3 DEF RegTypeOK, StageInv
  <2>. QED  BY <2>1, <2>2 DEF CreateServiceAccount
<1>8. RegTypeOK'
  BY <1>1, <1>2, <1>3, <1>5, <1>6, <1>7 DEF RegTypeOK, crrVars, hubCaches, agentVars
<1>9. StageInv' /\ BindInv'
  BY <1>1, <1>2, <1>6, <1>7 DEF StageInv, BindInv
<1>10. AnswerInv'
  BY <1>1, <1>2, <1>6, StageStep DEF crrVars
<1>. QED  BY <1>8, <1>9, <1>10 DEF RegInv, RegTypeInv

LEMMA BindClusterRoleInv ==
  ASSUME RegInv, BindClusterRole
  PROVE  RegInv'
<1>1. RegTypeOK /\ StageInv /\ worker.pc = "clusterrole" /\ worker.ns \in 1..nss
      /\ worker.sa \in 1..saCount /\ worker.sa \in 0..MaxSA
  BY WorkerFacts DEF RegInv, RegTypeInv, BindClusterRole, StageInv, WithNamespace, WithAccount
<1>2. UNCHANGED <<crrVars, nss, mcs, sa, saCount, minted, roleBinding,
                  hubCaches, agentVars, faults>> /\ clusterRoleBinding' = worker.sa
  BY DEF BindClusterRole
<1>3. /\ worker' \in Worker /\ worker'.pc = "role" /\ worker'.ns = worker.ns
      /\ worker'.held = worker.held /\ worker'.sa = worker.sa
  BY <1>1, WorkerFacts DEF BindClusterRole, Worker, Stage
<1>5. RegTypeOK'
  BY <1>1, <1>2, <1>3 DEF RegTypeOK, crrVars, hubCaches, agentVars
<1>6. StageInv' /\ BindInv'
  BY <1>1, <1>2, <1>3 DEF StageInv, BindInv
<1>7. AnswerInv'
  BY <1>1, <1>2, <1>3, StageStep DEF crrVars
<1>. QED  BY <1>5, <1>6, <1>7 DEF RegInv, RegTypeInv

LEMMA BindRoleInv ==
  ASSUME RegInv, BindRole
  PROVE  RegInv'
<1>1. RegTypeOK /\ StageInv /\ worker.pc = "role" /\ worker.ns \in 1..nss
      /\ worker.sa \in 1..saCount /\ worker.sa \in 0..MaxSA
      /\ clusterRoleBinding = worker.sa
  BY WorkerFacts
  DEF RegInv, RegTypeInv, BindRole, StageInv, BindInv, WithNamespace, WithAccount
<1>2. UNCHANGED <<crrVars, nss, mcs, sa, saCount, minted, clusterRoleBinding,
                  hubCaches, agentVars, faults>>
  BY DEF BindRole
<1>3. /\ worker' \in Worker /\ worker'.pc = "credentials" /\ worker'.ns = worker.ns
      /\ worker'.held = worker.held /\ worker'.sa = worker.sa
  BY <1>1, WorkerFacts DEF BindRole, Worker, Stage
<1>4. /\ roleBinding' \in [Namespaces -> 0..MaxSA]
      /\ sa[worker.sa] # 0 => roleBinding'[sa[worker.sa]] = worker.sa
  <2>1. PICK n \in 1..nss : /\ sa[worker.sa] \in {0, n}
                           /\ roleBinding' = [roleBinding EXCEPT ![n] = worker.sa]
    BY DEF BindRole
  <2>2. n \in Namespaces
    BY <1>1, <2>1, Bounds DEF RegTypeOK
  <2>. QED  BY <1>1, <2>1, <2>2 DEF RegTypeOK
<1>5. RegTypeOK'
  BY <1>1, <1>2, <1>3, <1>4 DEF RegTypeOK, crrVars, hubCaches, agentVars
<1>6. StageInv' /\ BindInv'
  BY <1>1, <1>2, <1>3, <1>4 DEF StageInv, BindInv, RoleBound
<1>7. AnswerInv'
  BY <1>1, <1>2, <1>3, StageStep DEF crrVars
<1>. QED  BY <1>5, <1>6, <1>7 DEF RegInv, RegTypeInv

(* The handler gives the CRR up, after it wrote the cached copy at most. *)
LEMMA HandlerEnds ==
  ASSUME RegInv, worker' = Idle, UNCHANGED <<crr, crrWatch, hubObjects>>,
         crrCache' \in CRR, crrCache'.exists = crrCache.exists,
         Settled(crrCache) => Settled(crrCache'),
         "delete" \notin faults' => "delete" \notin faults
  PROVE  StageInv' /\ BindInv' /\ AnswerInv'
<1>1. worker'.pc = "idle"
  BY DEF Idle
<1>2. StageInv' /\ BindInv'
  BY <1>1 DEF RegInv, RegTypeInv, StageInv, BindInv, WithNamespace, WithAccount, hubObjects
<1>3. AnswerInv'
  BY <1>1 DEF RegInv, AnswerInv, RoleBound, hubObjects
<1>. QED  BY <1>2, <1>3

LEMMA GetCredentialsInv ==
  ASSUME RegInv, GetCredentials
  PROVE  RegInv'
<1>1. RegTypeOK /\ StageInv /\ BindInv /\ worker.pc = "credentials"
  BY DEF RegInv, RegTypeInv, GetCredentials
<1>2. UNCHANGED <<crr, crrWatch, crrCache, hubObjects, hubCaches, agentVars, faults>>
  BY DEF GetCredentials
<1>3. CASE worker' = [worker EXCEPT !.pc = "status"] /\ UNCHANGED crrQueued
  <2>1. /\ worker' \in Worker /\ worker'.pc = "status" /\ worker'.ns = worker.ns
        /\ worker'.held = worker.held /\ worker'.sa = worker.sa
    BY <1>1, <1>3, WorkerFacts DEF Worker, Stage
  <2>2. RegTypeOK'
    BY <1>1, <1>2, <1>3, <2>1, RegTypeKept DEF RegTypeOK
  <2>3. StageInv' /\ BindInv'
    BY <1>1, <1>2, <2>1
    DEF StageInv, BindInv, RoleBound, hubObjects, WithNamespace, WithAccount
  <2>4. AnswerInv'
    BY <1>1, <1>2, <2>1, StageStep
  <2>. QED  BY <2>2, <2>3, <2>4 DEF RegInv, RegTypeInv
<1>4. CASE worker' = Idle /\ crrQueued' = TRUE
  <2>1. crrCache' \in CRR /\ worker' \in Worker
    BY <1>1, <1>2, <1>4, WorkerFacts DEF RegTypeOK
  <2>2. RegTypeOK'
    BY <1>1, <1>2, <1>4, <2>1, RegTypeKept DEF RegTypeOK
  <2>3. StageInv' /\ BindInv' /\ AnswerInv'
    BY <1>2, <1>4, <2>1, HandlerEnds
  <2>. QED  BY <2>2, <2>3 DEF RegInv, RegTypeInv
<1>. QED  BY <1>3, <1>4 DEF GetCredentials

(* The answer, and what it leaves in the cache. *)
LEMMA AnswerFacts ==
  ASSUME RegInv, worker.pc \in {"status", "deny"}
  PROVE  /\ Answer \in CRR /\ Answer.exists = crr.exists /\ Answer.result # ""
         /\ Answer.result = "Approved" => worker.pc = "status" /\ Answer.token = worker.sa
         /\ AnsweredInCache \in CRR /\ AnsweredInCache.exists = crrCache.exists
         /\ Settled(crrCache) \/ worker.held => Settled(AnsweredInCache)
<1>1. crr \in CRR /\ crrCache \in CRR /\ worker.ns \in 0..MaxNs /\ worker.sa \in 0..MaxSA
  BY WorkerFacts DEF RegInv, RegTypeInv, RegTypeOK
<1>2. /\ Approved \in CRR /\ Approved.exists = crr.exists /\ Approved.result = "Approved"
      /\ Approved.token = worker.sa
  BY <1>1 DEF Approved, CRR
<1>3. Denied \in CRR /\ Denied.exists = crr.exists /\ Denied.result = "Denied"
  <2>1. 0 \in 0..MaxNs /\ Empty \in 0..MaxSA
    BY Bounds
  <2>. QED  BY <1>1, <2>1 DEF Denied, CRR
<1>4. /\ Answer \in CRR /\ Answer.exists = crr.exists /\ Answer.result # ""
      /\ Answer.result = "Approved" => worker.pc = "status" /\ Answer.token = worker.sa
  BY <1>2, <1>3 DEF Answer
<1>5. /\ AnsweredInCache \in CRR /\ AnsweredInCache.exists = crrCache.exists
      /\ worker.held => AnsweredInCache.result # ""
      /\ ~worker.held => AnsweredInCache = crrCache
  BY <1>1, <1>4 DEF AnsweredInCache, CRR
<1>6. Settled(crrCache) \/ worker.held => Settled(AnsweredInCache)
  BY <1>5 DEF Settled
<1>. QED  BY <1>4, <1>5, <1>6

LEMMA UpdateCRRStatusInv ==
  ASSUME RegInv, UpdateCRRStatus
  PROVE  RegInv'
<1>1. /\ RegTypeOK /\ StageInv /\ BindInv /\ AnswerInv
      /\ worker.pc \in {"status", "deny"} /\ crr.exists
  BY DEF RegInv, RegTypeInv, UpdateCRRStatus
<1>2. /\ UNCHANGED <<crrQueued, hubObjects, hubCaches, agentVars, faults>>
      /\ crrCache' = AnsweredInCache /\ worker' = Idle /\ crrWatch = <<>> /\ WriteCRR(Answer)
  BY DEF UpdateCRRStatus
<1>3. /\ Answer \in CRR /\ Answer.exists = crr.exists /\ Answer.result # ""
      /\ Answer.result = "Approved" => worker.pc = "status" /\ Answer.token = worker.sa
      /\ AnsweredInCache \in CRR /\ AnsweredInCache.exists = crrCache.exists
      /\ Settled(crrCache) \/ worker.held => Settled(AnsweredInCache)
  BY <1>1, AnswerFacts
<1>4. /\ crr' = Answer /\ crrWatch' \in Seq(CRR) /\ DOMAIN crrWatch' = {1}
      /\ crrWatch'[1] = Answer
  <2>1. Len(crrWatch) = 0
    BY <1>2
  <2>2. DOMAIN crrWatch' = 1..(0 + 1) /\ crrWatch'[0 + 1] = Answer
    BY <1>1, <1>2, <1>3, <2>1, WriteCRRFacts
  <2>3. 1..(0 + 1) = {1} /\ 0 + 1 = 1
    OBVIOUS
  <2>4. crr' = Answer /\ crrWatch' \in Seq(CRR)
    BY <1>1, <1>2, <1>3, WriteCRRFacts
  <2>. QED  BY <2>2, <2>3, <2>4
<1>5. worker' \in Worker /\ worker'.pc = "idle"
  BY <1>1, <1>2, WorkerFacts
<1>6. RegTypeOK'
  BY <1>1, <1>2, <1>3, <1>4, <1>5, RegTypeKept DEF RegTypeOK
<1>7. StageInv' /\ BindInv'
  BY <1>1, <1>2, <1>5 DEF StageInv, BindInv, WithNamespace, WithAccount, hubObjects
<1>8. AnswerInv'
  <2>1. SUFFICES ASSUME "delete" \notin faults PROVE AnswerInv'
    BY <1>2 DEF AnswerInv
  <2>2. Settled(crrCache') /\ crrCache'.exists
    BY <1>1, <1>2, <1>3, <2>1 DEF AnswerInv
  <2>3. \A i \in DOMAIN crrWatch' : crrWatch'[i].exists /\ Settled(crrWatch'[i])
    BY <1>1, <1>3, <1>4 DEF Settled
  <2>4. crr'.result = "Approved" => /\ crr'.token \in 1..saCount
                                    /\ clusterRoleBinding = crr'.token
                                    /\ RoleBound(crr'.token)
    BY <1>1, <1>3, <1>4 DEF StageInv, BindInv, WithAccount
  <2>. QED  BY <1>1, <1>2, <1>3, <1>4, <1>5, <2>2, <2>3, <2>4 DEF AnswerInv, RoleBound, hubObjects
<1>. QED  BY <1>6, <1>7, <1>8 DEF RegInv, RegTypeInv

LEMMA RequestFailsInv ==
  ASSUME RegInv, RequestFails
  PROVE  RegInv'
<1>1. RegTypeOK /\ worker.pc # "idle"
  BY DEF RegInv, RegTypeInv, RequestFails
<1>2. UNCHANGED <<crr, crrWatch, hubObjects, hubCaches, agentVars>> /\ worker' = Idle
  BY DEF RequestFails
<1>3. faults' \subseteq Fault /\ ("delete" \notin faults' => "delete" \notin faults)
  BY <1>1, DisturbFacts DEF RequestFails, RegTypeOK, Fault
<1>4. /\ crrCache' \in CRR /\ crrCache'.exists = crrCache.exists
      /\ Settled(crrCache) => Settled(crrCache')
  BY <1>1, AnswerFacts DEF RequestFails, RegTypeOK
<1>5. crrQueued' \in BOOLEAN /\ worker' \in Worker
  BY <1>1, <1>2, WorkerFacts DEF RequestFails, RegTypeOK
<1>6. RegTypeOK'
  BY <1>1, <1>2, <1>3, <1>4, <1>5, RegTypeKept DEF RegTypeOK
<1>. QED  BY <1>2, <1>3, <1>4, <1>6, HandlerEnds DEF RegInv, RegTypeInv

LEMMA RestartHubInv ==
  ASSUME RegInv, RestartHub
  PROVE  RegInv'
<1>1. RegTypeOK /\ StageInv /\ BindInv /\ AnswerInv
  BY DEF RegInv, RegTypeInv
<1>2. /\ UNCHANGED <<crr, hubObjects, agentVars>> /\ worker' = Idle
      /\ crrCache' = crr /\ crrWatch' = <<>> /\ crrQueued' = crr.exists
      /\ nsCache' = 1..nss /\ mcCache' = mcs /\ saCache' = LiveAccounts
  BY DEF RestartHub, FilledCaches
<1>3. faults' \subseteq Fault /\ ("delete" \notin faults' => "delete" \notin faults)
  BY <1>1, DisturbFacts DEF RestartHub, RegTypeOK, Fault
<1>4. LiveAccounts \subseteq 1..saCount
  BY <1>1 DEF StageInv, LiveAccounts
<1>5. worker' \in Worker /\ worker'.pc = "idle"
  BY <1>1, <1>2, WorkerFacts
<1>6. crrWatch' \in Seq(CRR) /\ DOMAIN crrWatch' = {} /\ Len(crrWatch') = 0
  BY <1>2
<1>7. crr \in CRR /\ crr.exists \in BOOLEAN
  BY <1>1 DEF RegTypeOK, CRR
<1>8. RegTypeOK'
  BY <1>1, <1>2, <1>3, <1>4, <1>5, <1>6, <1>7 DEF RegTypeOK, hubObjects, agentVars
<1>9. StageInv' /\ BindInv'
  BY <1>1, <1>2, <1>5 DEF StageInv, BindInv, WithNamespace, WithAccount, hubObjects
<1>10. AnswerInv'
  BY <1>1, <1>2, <1>3, <1>5, <1>6 DEF AnswerInv, RoleBound, hubObjects, Settled
<1>. QED  BY <1>8, <1>9, <1>10 DEF RegInv, RegTypeInv

-----------------------------------------------------------------------------
(* The agent and the administrators.                                       *)

(* Where a sequence grows. *)
LEMMA NextIndex ==
  /\ ~(0 + 1 > 1)
  /\ \A n \in Nat : \A i \in 1..(n + 1) : i \in 1..n \/ i = n + 1
OBVIOUS

(* A write of the CRR by somebody else than the approver. *)
LEMMA CRRWritten ==
  ASSUME RegInv, NEW o \in CRR, WriteCRR(o),
         UNCHANGED <<crrCache, worker, sa, saCount, nss, roleBinding, clusterRoleBinding>>,
         "delete" \notin faults' => /\ "delete" \notin faults /\ o.exists
                                    /\ ~crr.exists \/ Settled(o)
                                    /\ o.result # "" => crr.exists /\ o.result = crr.result
                                                        /\ o.token = crr.token
  PROVE  StageInv' /\ BindInv' /\ AnswerInv'
<1>1. RegTypeOK /\ StageInv /\ BindInv /\ AnswerInv
  BY DEF RegInv, RegTypeInv
<1>2. /\ crr' = o /\ Len(crrWatch) \in Nat /\ DOMAIN crrWatch = 1..Len(crrWatch)
      /\ DOMAIN crrWatch' = 1..(Len(crrWatch) + 1)
      /\ crrWatch'[Len(crrWatch) + 1] = o
      /\ \A i \in DOMAIN crrWatch : crrWatch'[i] = crrWatch[i]
  BY <1>1, WriteCRRFacts
<1>3. StageInv' /\ BindInv'
  BY <1>1 DEF StageInv, BindInv, RoleBound
<1>4. ASSUME "delete" \notin faults' PROVE AnswerInv'
  <2>1. ASSUME NEW i \in DOMAIN crrWatch'
        PROVE  /\ crrWatch'[i].exists
               /\ i > 1 \/ crrCache.exists => Settled(crrWatch'[i])
               /\ o.result # "" => Settled(crrWatch'[i])
    <3>1. CASE i \in DOMAIN crrWatch
      BY <1>1, <1>2, <1>4, <3>1 DEF AnswerInv
    <3>2. CASE i = Len(crrWatch) + 1
      <4>1. ~crr.exists => ~crrCache.exists /\ Len(crrWatch) = 0
        BY <1>1, <1>4 DEF AnswerInv
      <4>2. i > 1 \/ crrCache.exists => crr.exists
        <5>1. ASSUME ~crr.exists PROVE ~(i > 1) /\ ~crrCache.exists
          <6>1. Len(crrWatch) = 0 /\ ~crrCache.exists
            BY <4>1, <5>1
          <6>2. i = 0 + 1
            BY <3>2, <6>1
          <6>3. ~(i > 1)
            BY <6>2, NextIndex
          <6>. QED  BY <6>1, <6>3
        <5>. QED  BY <5>1
      <4>. QED  BY <1>2, <1>4, <3>2, <4>2 DEF Settled
    <3>3. i \in DOMAIN crrWatch \/ i = Len(crrWatch) + 1
      <4>1. i \in 1..(Len(crrWatch) + 1)
        BY <1>2
      <4>. QED  BY <1>2, <4>1, NextIndex
    <3>. QED  BY <3>1, <3>2, <3>3
  <2>2. crr'.result # "" => /\ Settled(crrCache) /\ worker.pc \in {"idle", "deny"}
    BY <1>1, <1>2, <1>4 DEF AnswerInv
  <2>3. crr'.result = "Approved" => /\ crr'.token \in 1..saCount
                                    /\ clusterRoleBinding = crr'.token
                                    /\ RoleBound(crr'.token)
    BY <1>1, <1>2, <1>4 DEF AnswerInv
  <2>. QED  BY <1>1, <1>2, <1>4, <2>1, <2>2, <2>3 DEF AnswerInv, RoleBound
<1>5. AnswerInv'
  BY <1>4 DEF AnswerInv
<1>. QED  BY <1>3, <1>5

LEMMA AgentFacts ==
  ASSUME RegTypeOK
  PROVE  /\ agent \in Agent /\ Down \in Agent /\ secret \in Tokens /\ storing \in Tokens
         /\ TokenToUse \in Tokens /\ agent.token \in Tokens
<1>1. agent \in Agent /\ secret \in Tokens /\ storing \in Tokens
  BY DEF RegTypeOK
<1>2. agent.token \in Tokens
  BY <1>1 DEF Agent
<1>3. Down \in Agent
  BY Bounds DEF Down, Agent
<1>. QED  BY <1>1, <1>2, <1>3 DEF TokenToUse

LEMMA AgentSteps ==
  ASSUME RegInv, StartAgent \/ Registered \/ StoreCredentials \/ StopAgent
  PROVE  RegInv'
<1>1. RegTypeOK
  BY DEF RegInv, RegTypeInv
<1>2. /\ UNCHANGED <<crrVars, hubObjects, hubCaches, worker>>
      /\ faults' \subseteq Fault /\ ("delete" \notin faults' => "delete" \notin faults)
  BY <1>1, DisturbFacts
  DEF StartAgent, Registered, StoreCredentials, StopAgent, RegTypeOK, Fault
<1>3. agent' \in Agent /\ secret' \in Tokens /\ storing' \in Tokens
  <2>1. CASE StartAgent
    <3>1. [Down EXCEPT !.pc = "register"] \in Agent
      BY <1>1, AgentFacts DEF Agent
    <3>. QED  BY <1>1, <2>1, <3>1, AgentFacts DEF StartAgent
  <2>2. CASE Registered
    <3>1. crr.token \in Tokens /\ crr.ns \in 0..MaxNs
      BY <1>1, Bounds DEF RegTypeOK, CRR
    <3>2. [agent EXCEPT !.pc = "running", !.token = crr.token, !.ns = crr.ns] \in Agent
      BY <1>1, <3>1, AgentFacts DEF Agent
    <3>. QED  BY <1>1, <2>2, <3>1, <3>2, AgentFacts DEF Registered
  <2>3. CASE StoreCredentials
    BY <1>1, <2>3, AgentFacts, Bounds DEF StoreCredentials
  <2>4. CASE StopAgent
    BY <1>1, <2>4, AgentFacts, Bounds DEF StopAgent
  <2>. QED  BY <2>1, <2>2, <2>3, <2>4
<1>4. RegTypeOK'
  BY <1>1, <1>2, <1>3 DEF RegTypeOK, crrVars, hubObjects, hubCaches
<1>5. StageInv' /\ BindInv' /\ AnswerInv'
  BY <1>2, HandlerKept DEF crrVars, hubObjects
<1>. QED  BY <1>4, <1>5 DEF RegInv, RegTypeInv

LEMMA RegisterInv ==
  ASSUME RegInv, Register
  PROVE  RegInv'
<1>1. RegTypeOK
  BY DEF RegInv, RegTypeInv
<1>2. UNCHANGED <<crrCache, crrQueued, hubObjects, hubCaches, worker, secret, storing, faults>>
  BY DEF Register
<1>3. agent' \in Agent
  <2>1. [agent EXCEPT !.pc = "wait", !.token = TokenToUse] \in Agent
    BY <1>1, AgentFacts DEF Agent
  <2>2. [agent EXCEPT !.trySecret = FALSE, !.token = Bootstrap] \in Agent
    BY <1>1, AgentFacts, Bounds DEF Agent
  <2>. QED  BY <2>1, <2>2 DEF Register
<1>4. CASE UNCHANGED <<crr, crrWatch>>
  <2>1. RegTypeOK'
    BY <1>1, <1>2, <1>3, <1>4 DEF RegTypeOK, hubObjects, hubCaches
  <2>2. StageInv' /\ BindInv' /\ AnswerInv'
    BY <1>2, <1>4, HandlerKept DEF hubObjects
  <2>. QED  BY <2>1, <2>2 DEF RegInv, RegTypeInv
<1>5. CASE ~crr.exists /\ WriteCRR([NoCRR EXCEPT !.exists = TRUE])
  <2> DEFINE o == [NoCRR EXCEPT !.exists = TRUE]
  <2>1. o \in CRR /\ o.exists /\ o.result = ""
    <3>1. NoCRR \in CRR /\ NoCRR.result = ""
      BY Bounds DEF NoCRR, CRR
    <3>. QED  BY <3>1 DEF CRR
  <2>2. WriteCRR(o)
    BY <1>5
  <2> HIDE DEF o
  <2>3. crr' \in CRR /\ crrWatch' \in Seq(CRR)
    BY <1>1, <2>1, <2>2, WriteCRRFacts
  <2>4. RegTypeOK'
    BY <1>1, <1>2, <1>3, <2>3 DEF RegTypeOK, hubObjects, hubCaches
  <2>5. StageInv' /\ BindInv' /\ AnswerInv'
    BY <1>2, <1>5, <2>1, <2>2, CRRWritten DEF hubObjects
  <2>. QED  BY <2>4, <2>5 DEF RegInv, RegTypeInv
<1>. QED  BY <1>4, <1>5 DEF Register

LEMMA DeleteCRRInv ==
  ASSUME RegInv, DeleteCRR
  PROVE  RegInv'
<1>1. RegTypeOK
  BY DEF RegInv, RegTypeInv
<1>2. UNCHANGED <<crrCache, crrQueued, hubObjects, hubCaches, worker, agentVars>>
      /\ WriteCRR(NoCRR)
  BY DEF DeleteCRR
<1>3. faults' \subseteq Fault /\ "delete" \in faults'
  BY <1>1, DisturbFacts DEF DeleteCRR, Fault
<1>4. NoCRR \in CRR
  BY Bounds DEF NoCRR, CRR
<1>5. crr' \in CRR /\ crrWatch' \in Seq(CRR)
  BY <1>1, <1>2, <1>4, WriteCRRFacts
<1>6. RegTypeOK'
  BY <1>1, <1>2, <1>3, <1>5, RegTypeKept DEF RegTypeOK
<1>7. StageInv' /\ BindInv' /\ AnswerInv'
  BY <1>2, <1>3, <1>4, CRRWritten DEF hubObjects
<1>. QED  BY <1>6, <1>7 DEF RegInv, RegTypeInv

LEMMA EditClusterIDInv ==
  ASSUME RegInv, EditClusterID
  PROVE  RegInv'
<1> DEFINE o == [crr EXCEPT !.legal = FALSE]
<1>1. RegTypeOK /\ crr \in CRR /\ crr.exists
  BY DEF RegInv, RegTypeInv, RegTypeOK, EditClusterID
<1>2. UNCHANGED <<crrCache, crrQueued, hubObjects, hubCaches, worker, agentVars>>
      /\ WriteCRR(o)
  BY DEF EditClusterID
<1>3. faults' \subseteq Fault /\ ("delete" \notin faults' => "delete" \notin faults)
  BY <1>1, DisturbFacts DEF EditClusterID, Fault
<1>4. /\ o \in CRR /\ o.exists /\ Settled(o) /\ o.result = crr.result /\ o.token = crr.token
  BY <1>1 DEF CRR, Settled
<1> HIDE DEF o
<1>5. crr' \in CRR /\ crrWatch' \in Seq(CRR)
  BY <1>1, <1>2, <1>4, WriteCRRFacts
<1>6. RegTypeOK'
  BY <1>1, <1>2, <1>3, <1>5, RegTypeKept DEF RegTypeOK
<1>7. StageInv' /\ BindInv' /\ AnswerInv'
  BY <1>1, <1>2, <1>3, <1>4, CRRWritten DEF hubObjects
<1>. QED  BY <1>6, <1>7 DEF RegInv, RegTypeInv

LEMMA DeleteAccountInv ==
  ASSUME RegInv, NEW a \in Accounts, DeleteAccount(a)
  PROVE  RegInv'
<1>1. RegTypeOK /\ StageInv /\ BindInv /\ AnswerInv
  BY DEF RegInv, RegTypeInv
<1>2. UNCHANGED <<crrVars, nss, mcs, saCount, minted, roleBinding, clusterRoleBinding,
                  hubCaches, worker, agentVars>>
  BY DEF DeleteAccount
<1>3. faults' \subseteq Fault /\ ("delete" \notin faults' => "delete" \notin faults)
  BY <1>1, DisturbFacts DEF DeleteAccount, Fault
<1>4. /\ sa' \in [Accounts -> 0..MaxNs]
      /\ \A b \in Accounts : sa'[b] = sa[b] \/ sa'[b] = 0
  BY <1>1, Bounds DEF DeleteAccount, RegTypeOK
<1>5. RegTypeOK'
  BY <1>1, <1>2, <1>3, <1>4 DEF RegTypeOK, crrVars, hubCaches, agentVars
<1>6. StageInv'
  BY <1>1, <1>2, <1>4 DEF StageInv
<1>7. 1..saCount \subseteq Accounts
  BY <1>1, Bounds DEF RegTypeOK
<1>8. \A b \in 1..saCount : RoleBound(b) => RoleBound(b)'
  BY <1>2, <1>4, <1>7 DEF RoleBound
<1>9. BindInv'
  BY <1>1, <1>2, <1>8 DEF BindInv, StageInv, WithAccount
<1>10. AnswerInv'
  BY <1>1, <1>2, <1>3, <1>8 DEF AnswerInv, crrVars
<1>. QED  BY <1>5, <1>6, <1>9, <1>10 DEF RegInv, RegTypeInv

-----------------------------------------------------------------------------
(* The heartbeats.                                                         *)

LEMMA Homes == Home = Namespaces /\ None = 0 /\ None \notin Home
BY SharedNamespaces, HomeAssumption

LEMMA HealthInitial ==
  ASSUME HealthInit
  PROVE  HealthInv
<1>1. NoCluster \in ManagedCluster /\ NoCopy \in Copy
  BY DEF NoCluster, ManagedCluster, NoCopy, Copy, Age, Ready
<1>2. Nothing \in [ns: Home \cup {None}, current: BOOLEAN]
  BY DEF Nothing
<1>3. HealthTypeOK
  BY <1>1, <1>2 DEF HealthInit, HealthTypeOK, Age
<1>4. ListerInv
  BY DEF HealthInit, ListerInv, NoCluster, NoCopy
<1>. QED  BY <1>3, <1>4 DEF HealthInv

(* A write makes the hub's copy stale. *)
LEMMA WriteStatusFacts ==
  ASSUME HealthInv, NEW n \in Home, NEW o \in ManagedCluster, WriteStatus(n, o)
  PROVE  /\ mc' \in [Home -> ManagedCluster] /\ lister' \in [Home -> Copy] /\ ListerInv'
         /\ mc'[n] = o /\ \A m \in Home : m # n => mc'[m] = mc[m]
<1>1. mc \in [Home -> ManagedCluster] /\ lister \in [Home -> Copy] /\ ListerInv
  BY DEF HealthInv, HealthTypeOK
<1>2. /\ mc' \in [Home -> ManagedCluster] /\ mc'[n] = o
      /\ \A m \in Home : m # n => mc'[m] = mc[m]
  BY <1>1 DEF WriteStatus
<1>3. [lister[n] EXCEPT !.current = FALSE] \in Copy /\ ~[lister[n] EXCEPT !.current = FALSE].current
  BY <1>1 DEF Copy
<1>4. /\ lister' \in [Home -> Copy] /\ ~lister'[n].current
      /\ \A m \in Home : m # n => lister'[m] = lister[m]
  BY <1>1, <1>3 DEF WriteStatus
<1>5. ListerInv'
  BY <1>1, <1>2, <1>4 DEF ListerInv
<1>. QED  BY <1>2, <1>4, <1>5

LEMMA ClusterCreatedInv ==
  ASSUME HealthInv, NEW n \in Home, ClusterCreated(n)
  PROVE  HealthInv'
<1>1. [NoCluster EXCEPT !.exists = TRUE] \in ManagedCluster
  BY DEF NoCluster, ManagedCluster, Age, Ready
<1>2. WriteStatus(n, [NoCluster EXCEPT !.exists = TRUE])
      /\ UNCHANGED <<keys, delayed, collected, manager>>
  BY DEF ClusterCreated
<1>. QED  BY <1>1, <1>2, WriteStatusFacts DEF HealthInv, HealthTypeOK

LEMMA CollectInv ==
  ASSUME HealthInv, Collect
  PROVE  HealthInv'
BY DEF HealthInv, HealthTypeOK, ListerInv, Collect, Age

LEMMA FindClusterInv ==
  ASSUME HealthInv, NEW n \in Home, FindCluster(n)
  PROVE  HealthInv'
BY DEF HealthInv, HealthTypeOK, ListerInv, FindCluster

LEMMA ReportInv ==
  ASSUME HealthInv, Report
  PROVE  HealthInv'
<1>1. manager.ns \in Home
  BY DEF HealthInv, HealthTypeOK, Report
<1>2. [exists |-> TRUE, probe |-> collected, ready |-> "Reported"] \in ManagedCluster
  BY DEF HealthInv, HealthTypeOK, Report, ManagedCluster, Ready
<1>. QED  BY <1>1, <1>2, WriteStatusFacts DEF Report, HealthInv, HealthTypeOK

LEMMA RefreshClusterInv ==
  ASSUME HealthInv, RefreshCluster
  PROVE  HealthInv'
BY DEF HealthInv, HealthTypeOK, ListerInv, RefreshCluster

LEMMA AgentGoneInv ==
  ASSUME HealthInv, AgentGone
  PROVE  HealthInv'
BY DEF HealthInv, HealthTypeOK, ListerInv, AgentGone, Nothing

LEMMA SyncListerInv ==
  ASSUME HealthInv, NEW n \in Home, SyncLister(n)
  PROVE  HealthInv'
<1> DEFINE k == [exists |-> mc[n].exists, probe |-> mc[n].probe, current |-> TRUE]
<1>1. mc \in [Home -> ManagedCluster] /\ lister \in [Home -> Copy] /\ ListerInv
  BY DEF HealthInv, HealthTypeOK
<1>2. k \in Copy /\ k.exists = mc[n].exists /\ k.probe = mc[n].probe
  BY <1>1 DEF Copy, ManagedCluster
<1>3. lister' = [lister EXCEPT ![n] = k]
  BY DEF SyncLister
<1> HIDE DEF k
<1>4. lister' \in [Home -> Copy] /\ lister'[n] = k /\ \A m \in Home : m # n => lister'[m] = lister[m]
  BY <1>1, <1>2, <1>3
<1>5. ListerInv'
  BY <1>1, <1>2, <1>4 DEF ListerInv, SyncLister
<1>. QED  BY <1>4, <1>5 DEF HealthInv, HealthTypeOK, SyncLister

(* The monitor writes Unknown only from a copy of what is stored. *)
LEMMA SyncClusterInv ==
  ASSUME HealthInv, NEW n \in Home, SyncCluster(n)
  PROVE  /\ HealthInv'
         /\ \A m \in Home : mc[m].ready # "Unknown" /\ mc'[m].ready = "Unknown"
                              => mc[m].probe = "old"
<1>1. HealthTypeOK /\ ListerInv
  BY DEF HealthInv
<1>2. keys' \subseteq Home /\ delayed' \subseteq Home /\ collected' = collected
  BY <1>1 DEF SyncCluster, UpdateClusterCondition, RequeueAfter, HealthTypeOK
<1>3. CASE UNCHANGED <<mc, lister, manager>>
  BY <1>1, <1>2, <1>3 DEF HealthInv, HealthTypeOK, ListerInv
<1>4. CASE /\ Silent(lister[n]) /\ Accepted(lister[n])
           /\ WriteStatus(n, [mc[n] EXCEPT !.ready = "Unknown"])
           /\ manager' = IF manager.ns = n THEN [manager EXCEPT !.current = FALSE] ELSE manager
  <2>1. [mc[n] EXCEPT !.ready = "Unknown"] \in ManagedCluster
    BY <1>1 DEF HealthTypeOK, ManagedCluster, Ready
  <2>2. manager' \in [ns: Home \cup {None}, current: BOOLEAN]
    BY <1>1, <1>4 DEF HealthTypeOK
  <2>3. /\ mc' \in [Home -> ManagedCluster] /\ lister' \in [Home -> Copy] /\ ListerInv'
        /\ \A m \in Home : m # n => mc'[m] = mc[m]
    BY <1>4, <2>1, WriteStatusFacts
  <2>4. mc[n].probe = "old"
    BY <1>1, <1>4 DEF ListerInv, Silent, Accepted
  <2>5. HealthInv'
    BY <1>1, <1>2, <2>2, <2>3 DEF HealthInv, HealthTypeOK
  <2>. QED  BY <2>3, <2>4, <2>5
<1>. QED  BY <1>3, <1>4 DEF SyncCluster, UpdateClusterCondition

LEMMA DelayElapsedInv ==
  ASSUME HealthInv, NEW n \in Home, DelayElapsed(n)
  PROVE  HealthInv'
BY DEF HealthInv, HealthTypeOK, ListerInv, DelayElapsed

LEMMA HubGoneInv ==
  ASSUME HealthInv, HubGone
  PROVE  HealthInv'
<1>1. HealthTypeOK
  BY DEF HealthInv
<1>2. \A n \in Home : mc[n].exists \in BOOLEAN /\ mc[n].probe \in Age
  BY <1>1 DEF HealthTypeOK, ManagedCluster
<1>3. lister' \in [Home -> Copy]
  BY <1>2 DEF HubGone, Copy
<1>4. ListerInv'
  BY DEF HubGone, ListerInv
<1>. QED  BY <1>1, <1>3, <1>4 DEF HealthInv, HealthTypeOK, HubGone

LEMMA GracePeriodInv ==
  ASSUME HealthInv, GracePeriodPasses
  PROVE  HealthInv' /\ \A n \in Home : mc'[n].ready = mc[n].ready
<1>1. HealthTypeOK /\ ListerInv
  BY DEF HealthInv
<1>2. \A n \in Home : /\ mc'[n] \in ManagedCluster /\ mc'[n].ready = mc[n].ready
                      /\ mc'[n].exists = mc[n].exists
                      /\ mc'[n].probe = IF mc[n].exists THEN "old" ELSE mc[n].probe
  BY <1>1 DEF GracePeriodPasses, Aged, HealthTypeOK, ManagedCluster, Age
<1>3. \A n \in Home : /\ lister'[n] \in Copy /\ lister'[n].current = lister[n].current
                      /\ lister'[n].exists = lister[n].exists
                      /\ lister'[n].probe = IF lister[n].exists THEN "old" ELSE lister[n].probe
  BY <1>1 DEF GracePeriodPasses, Aged, HealthTypeOK, Copy, Age
<1>4. mc' \in [Home -> ManagedCluster] /\ lister' \in [Home -> Copy]
  BY <1>2, <1>3 DEF GracePeriodPasses
<1>5. ListerInv'
  BY <1>1, <1>2, <1>3 DEF ListerInv
<1>6. HealthTypeOK'
  BY <1>1, <1>4 DEF GracePeriodPasses, HealthTypeOK, Age
<1>. QED  BY <1>2, <1>5, <1>6 DEF HealthInv

-----------------------------------------------------------------------------
(* The two composed.                                                       *)

Inv == RegInv /\ HealthInv

LEMMA RegKept ==
  ASSUME RegInv, UNCHANGED regVars
  PROVE  RegInv'
<1>1. RegTypeInv'
  <2>1. RegTypeOK'
    BY DEF RegInv, RegTypeInv, RegTypeOK, regVars, crrVars, hubObjects, hubCaches, agentVars
  <2>2. StageInv'
    BY DEF RegInv, RegTypeInv, StageInv, regVars, crrVars, hubObjects, hubCaches, agentVars
  <2>. QED  BY <2>1, <2>2 DEF RegTypeInv
<1>2. BindInv'
  BY DEF RegInv, BindInv, RoleBound, regVars, crrVars, hubObjects, hubCaches, agentVars
<1>3. AnswerInv'
  BY DEF RegInv, AnswerInv, RoleBound, Settled, regVars, crrVars, hubObjects, hubCaches, agentVars
<1>. QED  BY <1>1, <1>2, <1>3 DEF RegInv

LEMMA HealthKept ==
  ASSUME HealthInv, UNCHANGED healthVars
  PROVE  HealthInv' /\ mc' = mc
BY DEF HealthInv, HealthTypeOK, ListerInv, healthVars

(* What the monitor's write is allowed to do, as one step of the cluster. *)
OnlySilent == \A n \in Home : (mc[n].ready # "Unknown" /\ mc'[n].ready = "Unknown")
                              => mc[n].probe = "old"

LEMMA RegisteringStep ==
  ASSUME RegInv, Registering
  PROVE  RegInv'
<1>1. CASE Inform
  BY <1>1, SyncCRRInv, SyncCachesInv DEF Inform
<1>2. CASE Approve
  BY <1>2, GetRequestInv, CreateNamespaceInv, CreateServiceAccountInv, BindClusterRoleInv,
     BindRoleInv, GetCredentialsInv, UpdateCRRStatusInv DEF Approve
<1>3. CASE MintTokens
  BY <1>3, MintTokenInv DEF MintTokens
<1>4. CASE RequestFails
  BY <1>4, RequestFailsInv
<1>5. CASE StartAgent \/ Join
  BY <1>5, AgentSteps, RegisterInv DEF Join
<1>6. CASE Administrate
  BY <1>6, DeleteCRRInv, EditClusterIDInv, DeleteAccountInv DEF Administrate
<1>. QED  BY <1>1, <1>2, <1>3, <1>4, <1>5, <1>6 DEF Registering

LEMMA HealthStep ==
  ASSUME HealthInv, Health
  PROVE  HealthInv' /\ OnlySilent
<1>1. CASE CollectStatus
  <2>1. mc' = mc /\ HealthInv'
    BY <1>1, CollectInv DEF CollectStatus, Collect
  <2>. QED  BY <2>1 DEF OnlySilent
<1>2. CASE FindManagedCluster
  <2>1. agent.ns \in Home
    BY <1>2, Homes DEF FindManagedCluster, Reporting, MayReport
  <2>2. mc' = mc /\ HealthInv'
    BY <1>2, <2>1, FindClusterInv DEF FindManagedCluster, FindCluster
  <2>. QED  BY <2>2 DEF OnlySilent
<1>3. CASE ReportStatus
  <2>1. Report /\ HealthInv'
    BY <1>3, ReportInv DEF ReportStatus
  <2>2. manager.ns \in Home
    BY <2>1 DEF Report, HealthInv, HealthTypeOK
  <2>3. /\ mc'[manager.ns].ready = "Reported"
        /\ \A n \in Home : n # manager.ns => mc'[n] = mc[n]
    BY <2>1, <2>2 DEF Report, WriteStatus, HealthInv, HealthTypeOK
  <2>. QED  BY <2>1, <2>2, <2>3 DEF OnlySilent
<1>4. CASE RefreshManagedCluster
  <2>1. mc' = mc /\ HealthInv'
    BY <1>4, RefreshClusterInv DEF RefreshManagedCluster, RefreshCluster
  <2>. QED  BY <2>1 DEF OnlySilent
<1>5. ASSUME NEW n \in Home, SyncLister(n) \/ DelayElapsed(n) PROVE HealthInv' /\ OnlySilent
  <2>1. mc' = mc /\ HealthInv'
    BY <1>5, SyncListerInv, DelayElapsedInv DEF SyncLister, DelayElapsed
  <2>. QED  BY <2>1 DEF OnlySilent
<1>6. ASSUME NEW n \in Home, SyncCluster(n) PROVE HealthInv' /\ OnlySilent
  BY <1>6, SyncClusterInv DEF OnlySilent
<1>7. CASE GracePeriodPasses
  BY <1>7, GracePeriodInv DEF OnlySilent
<1>. QED  BY <1>1, <1>2, <1>3, <1>4, <1>5, <1>6, <1>7 DEF Health, Monitor

LEMMA ComposedStep ==
  ASSUME Inv, [Next]_vars
  PROVE  Inv' /\ OnlySilent
<1>0. RegInv /\ HealthInv
  BY DEF Inv
<1>1. CASE Registering
  <2>1. UNCHANGED healthVars
    BY <1>1 DEF Registering
  <2>. QED  BY <1>0, <1>1, <2>1, RegisteringStep, HealthKept DEF Inv, OnlySilent
<1>2. CASE CreateCluster
  <2>1. RegInv' /\ worker.ns \in Home
    BY <1>0, <1>2, CreateManagedClusterInv, Homes DEF CreateCluster
  <2>2. CASE UNCHANGED healthVars
    BY <1>0, <2>1, <2>2, HealthKept DEF Inv, OnlySilent
  <2>3. CASE ClusterCreated(worker.ns)
    <3>1. HealthInv'
      BY <1>0, <2>1, <2>3, ClusterCreatedInv
    <3>2. /\ mc'[worker.ns].ready = "none"
          /\ \A n \in Home : n # worker.ns => mc'[n] = mc[n]
      BY <1>0, <2>1, <2>3
      DEF ClusterCreated, WriteStatus, NoCluster, HealthInv, HealthTypeOK
    <3>3. OnlySilent
      BY <3>2 DEF OnlySilent
    <3>. QED  BY <2>1, <3>1, <3>3 DEF Inv
  <2>. QED  BY <1>2, <2>2, <2>3 DEF CreateCluster
<1>3. CASE Health
  <2>1. UNCHANGED regVars
    BY <1>3 DEF Health
  <2>. QED  BY <1>0, <1>3, <2>1, HealthStep, RegKept DEF Inv
<1>4. CASE AgentStops
  <2>1. mc' = mc
    BY <1>4 DEF AgentStops, AgentGone
  <2>. QED  BY <1>0, <1>4, <2>1, AgentSteps, AgentGoneInv DEF AgentStops, Inv, OnlySilent
<1>5. CASE HubRestarts
  <2>1. mc' = mc
    BY <1>5 DEF HubRestarts, HubGone
  <2>. QED  BY <1>0, <1>5, <2>1, RestartHubInv, HubGoneInv DEF HubRestarts, Inv, OnlySilent
<1>6. CASE UNCHANGED vars
  BY <1>0, <1>6, RegKept, HealthKept DEF vars, Inv, OnlySilent
<1>. QED  BY <1>1, <1>2, <1>3, <1>4, <1>5, <1>6 DEF Next

LEMMA ComposedInvariant == Spec => []Inv
<1>1. Init => Inv
  BY RegInitial, HealthInitial DEF Init, Inv
<1>2. Inv /\ [Next]_vars => Inv'
  BY ComposedStep
<1>. QED  BY <1>1, <1>2, PTL DEF Spec

(* Every reachable state of registration and heartbeats is typed, for any  *)
(* number of Namespaces, accounts and disturbances; the caches of the hub  *)
(* only ever hold objects that were created.                               *)
THEOREM ClusterLifeTypeCorrect == Spec => []TypeOK
<1>1. Inv => TypeOK
  BY DEF Inv, RegInv, RegTypeInv, HealthInv, TypeOK
<1>. QED  BY <1>1, ComposedInvariant, PTL

(* The token in an approved request belongs to the account that the        *)
(* bindings name: no retry, restart, lost answer or edit of the CRR makes  *)
(* handleClusterRegistrationRequests bind another account once it has      *)
(* answered, however many accounts its stale caches made it create.        *)
THEOREM ApprovalIsBound == Spec => []ApprovedTokenBound
<1>1. Inv => ApprovedTokenBound
  BY DEF Inv, RegInv, AnswerInv, RoleBound, ApprovedTokenBound
<1>. QED  BY <1>1, ComposedInvariant, PTL

(* The monitor declares a cluster Unknown only when the stored status is   *)
(* older than the grace period: the version check of updateClusterCondition *)
(* refuses a write from a copy that a heartbeat has overtaken.             *)
THEOREM UnknownIsDeserved == Spec => UnknownOnlyWhenSilent
<1>1. Inv /\ [Next]_vars => OnlySilent
  BY ComposedStep
<1>2. ASSUME Inv, [Next]_vars
      PROVE  [OnlySilent]_vars
  BY <1>1, <1>2
<1>3. UnknownOnlyWhenSilent <=> [][OnlySilent]_vars
  BY DEF UnknownOnlyWhenSilent, OnlySilent
<1>. QED  BY <1>2, <1>3, ComposedInvariant, PTL DEF Spec
=============================================================================
