---------------------------- MODULE Registration ----------------------------
(***************************************************************************)
(* A child cluster joins: clusternet-agent asks with a                     *)
(* ClusterRegistrationRequest (CRR), the hub's approver creates namespace, *)
(* ManagedCluster and service account, binds roles, and answers with the   *)
(* account's token.  One cluster ID; the code never mixes two of them.     *)
(*                                                                         *)
(* Names are generated, so every Namespace and every ServiceAccount that   *)
(* is created is a new one, numbered from 1.  The hub looks for existing   *)
(* ones in informer caches (nsCache, mcCache, saCache, crrCache) that are  *)
(* filled one by one and lag.  The worker handles the CRR in place: the    *)
(* object of the cache itself, not a copy.                                 *)
(***************************************************************************)
EXTENDS Integers, Sequences, FiniteSets

CONSTANTS
  MaxNs,       \* bound: Namespaces created
  MaxSA,       \* bound: ServiceAccounts created
  Allowed,     \* which disturbances this instance exercises
  MaxFaults    \* bound: disturbances in a behaviour

(* A request of the hub fails, the hub or the agent ends, an administrator *)
(* deletes the CRR, edits its cluster ID, or deletes an account.           *)
Fault == {"fail", "restart", "crash", "delete", "edit", "revoke"}

ASSUME BoundsAssumption ==
  /\ MaxNs \in Nat \ {0} /\ MaxSA \in Nat \ {0}
  /\ Allowed \subseteq Fault /\ MaxFaults \in Nat

VARIABLES
  crr,        \* the CRR in the API server
  crrWatch,   \* its versions on their way to the hub
  crrCache,   \* the hub's copy, which the worker writes to
  crrQueued,  \* the key of the CRR is in the work queue
  nss,        \* Namespaces created so far: 1..nss
  mcs,        \* the Namespaces with a ManagedCluster
  sa,         \* the Namespace of each ServiceAccount; 0: no such account
  saCount,    \* ServiceAccounts created so far
  minted,     \* accounts for which a token exists
  nsCache, mcCache, saCache,
  roleBinding,        \* the account bound in each Namespace; 0: none
  clusterRoleBinding, \* the account that may create and get CRRs; 0: none
  worker,     \* where the handler of the approver is
  agent,      \* the agent process
  secret,     \* token in the Secret "parent-cluster" of the child cluster;
              \* Bootstrap: no Secret, or one for another parent URL
  storing,    \* token that a goroutine of the agent is storing; Bootstrap: none
  faults      \* disturbances so far, each of them once at most

hubObjects == <<nss, mcs, sa, saCount, minted, roleBinding, clusterRoleBinding>>
hubCaches  == <<nsCache, mcCache, saCache>>
crrVars    == <<crr, crrWatch, crrCache, crrQueued>>
agentVars  == <<agent, secret, storing>>
regVars == <<crrVars, hubObjects, hubCaches, worker, agentVars, faults>>

Namespaces == 1..MaxNs
Accounts   == 1..MaxSA
Bootstrap  == -1    \* the bootstrap token, valid for CRRs only
Empty      == 0     \* an empty token

CRR == [exists: BOOLEAN, legal: BOOLEAN, result: {"", "Approved", "Denied"},
        ns: 0..MaxNs, token: 0..MaxSA]
Tokens == {Bootstrap} \cup (0..MaxSA)
Agent == [pc: {"down", "register", "wait", "running"}, trySecret: BOOLEAN,
          token: Tokens, ns: 0..MaxNs]
Stage == {"idle", "namespace", "cluster", "account", "clusterrole", "role",
          "credentials", "status", "deny"}
Worker == [pc: Stage, ns: 0..MaxNs, sa: 0..MaxSA, held: BOOLEAN]

RegTypeOK ==
  /\ crr \in CRR /\ crrCache \in CRR /\ crrWatch \in Seq(CRR)
  /\ crrQueued \in BOOLEAN
  /\ nss \in 0..MaxNs /\ mcs \subseteq 1..nss
  /\ sa \in [Accounts -> 0..MaxNs] /\ saCount \in 0..MaxSA
  /\ minted \subseteq Accounts
  /\ nsCache \subseteq 1..nss /\ mcCache \subseteq mcs /\ saCache \subseteq 1..saCount
  /\ roleBinding \in [Namespaces -> 0..MaxSA] /\ clusterRoleBinding \in 0..MaxSA
  /\ worker \in Worker
  /\ agent \in Agent /\ secret \in Tokens /\ storing \in Tokens
  /\ faults \subseteq Fault

NoCRR    == [exists |-> FALSE, legal |-> TRUE, result |-> "", ns |-> 0, token |-> 0]
Idle     == [pc |-> "idle", ns |-> 0, sa |-> 0, held |-> FALSE]
Down     == [pc |-> "down", trySecret |-> TRUE, token |-> Bootstrap, ns |-> 0]

(* a child cluster that is new here: at most a Secret for another parent *)
RegInit ==
  /\ crr = NoCRR /\ crrWatch = <<>> /\ crrCache = NoCRR /\ crrQueued = FALSE
  /\ nss = 0 /\ mcs = {} /\ sa = [a \in Accounts |-> 0] /\ saCount = 0 /\ minted = {}
  /\ nsCache = {} /\ mcCache = {} /\ saCache = {}
  /\ roleBinding = [n \in Namespaces |-> 0] /\ clusterRoleBinding = 0
  /\ worker = Idle
  /\ agent = Down /\ storing = Bootstrap /\ secret = Bootstrap
  /\ faults = {}

Disturb(kind) ==
  /\ kind \in Allowed \ faults /\ Cardinality(faults) < MaxFaults
  /\ faults' = faults \cup {kind}

WriteCRR(o) == crr' = o /\ crrWatch' = Append(crrWatch, o)

(* what the bindings let the holder of a token do *)
MayRegister(t) ==
  \/ t = Bootstrap
  \/ t \in Accounts /\ sa[t] # 0 /\ clusterRoleBinding = t
MayReport(t, n) == t \in Accounts /\ n \in Namespaces /\ sa[t] # 0 /\ roleBinding[n] = t

-----------------------------------------------------------------------------
(* clusternet-hub: the informers and the handlers of the CRR controller.   *)

(* updateCRR looks at the spec only; Add and Delete always enqueue *)
CRREventEnqueues(old, new) == old.exists # new.exists \/ old.legal # new.legal

SyncCRR ==
  /\ crrWatch # <<>>
  /\ crrCache' = Head(crrWatch) /\ crrWatch' = Tail(crrWatch)
  /\ crrQueued' = (crrQueued \/ CRREventEnqueues(crrCache, Head(crrWatch)))
  /\ worker' = [worker EXCEPT !.held = FALSE]
  /\ UNCHANGED <<crr, hubObjects, hubCaches, agentVars, faults>>

SyncNamespaces ==
  /\ nsCache # 1..nss
  /\ nsCache' = 1..nss
  /\ UNCHANGED <<crrVars, hubObjects, mcCache, saCache, worker, agentVars, faults>>

SyncClusters ==
  /\ mcCache # mcs
  /\ mcCache' = mcs
  /\ UNCHANGED <<crrVars, hubObjects, nsCache, saCache, worker, agentVars, faults>>

LiveAccounts == {a \in Accounts : sa[a] # 0}

SyncAccounts ==
  /\ saCache # LiveAccounts
  /\ saCache' = LiveAccounts
  /\ UNCHANGED <<crrVars, hubObjects, nsCache, mcCache, worker, agentVars, faults>>

(* the token controller of Kubernetes gives every account a secret *)
MintToken(a) ==
  /\ sa[a] # 0 /\ a \notin minted
  /\ minted' = minted \cup {a}
  /\ UNCHANGED <<crrVars, nss, mcs, sa, saCount, roleBinding, clusterRoleBinding,
                 hubCaches, worker, agentVars, faults>>

-----------------------------------------------------------------------------
(* clusternet-hub: handleClusterRegistrationRequests, one request a step.  *)

Handled(c) == ~c.exists \/ (c.legal /\ c.result # "")

(* the key is taken, and what the cache holds decides whether to go on *)
GetRequest ==
  /\ worker.pc = "idle" /\ crrQueued
  /\ crrQueued' = FALSE
  /\ worker' = IF Handled(crrCache) THEN Idle
               ELSE [Idle EXCEPT !.pc = IF crrCache.legal THEN "namespace" ELSE "deny",
                                 !.held = TRUE]
  /\ UNCHANGED <<crr, crrWatch, crrCache, hubObjects, hubCaches, agentVars, faults>>

CreateNamespace ==
  /\ worker.pc = "namespace"
  /\ \/ /\ nsCache # {}
        /\ \E n \in nsCache : worker' = [worker EXCEPT !.pc = "cluster", !.ns = n]
        /\ UNCHANGED nss
     \/ /\ nsCache = {} /\ nss < MaxNs
        /\ nss' = nss + 1
        /\ worker' = [worker EXCEPT !.pc = "cluster", !.ns = nss + 1]
  /\ UNCHANGED <<crrVars, mcs, sa, saCount, minted, roleBinding, clusterRoleBinding,
                 hubCaches, agentVars, faults>>

(* the ManagedCluster that is found may be in another Namespace *)
CreateManagedCluster ==
  /\ worker.pc = "cluster"
  /\ mcCache # {} \/ worker.ns \notin mcs
  /\ mcs' = IF mcCache # {} THEN mcs ELSE mcs \cup {worker.ns}
  /\ worker' = [worker EXCEPT !.pc = "account"]
  /\ UNCHANGED <<crrVars, nss, sa, saCount, minted, roleBinding, clusterRoleBinding,
                 hubCaches, agentVars, faults>>

CreateServiceAccount ==
  /\ worker.pc = "account"
  /\ \/ /\ saCache # {}
        /\ \E a \in saCache : worker' = [worker EXCEPT !.pc = "clusterrole", !.sa = a]
        /\ UNCHANGED <<sa, saCount>>
     \/ /\ saCache = {} /\ saCount < MaxSA
        /\ saCount' = saCount + 1
        /\ sa' = [sa EXCEPT ![saCount + 1] = worker.ns]
        /\ worker' = [worker EXCEPT !.pc = "clusterrole", !.sa = saCount + 1]
  /\ UNCHANGED <<crrVars, nss, mcs, minted, roleBinding, clusterRoleBinding,
                 hubCaches, agentVars, faults>>

(* mutant: a binding that exists is left as it is *)
BindClusterRoleOnce ==
  /\ worker.pc = "clusterrole"
  /\ clusterRoleBinding' = IF clusterRoleBinding = 0 THEN worker.sa ELSE clusterRoleBinding
  /\ worker' = [worker EXCEPT !.pc = "role"]
  /\ UNCHANGED <<crrVars, nss, mcs, sa, saCount, minted, roleBinding,
                 hubCaches, agentVars, faults>>

(* bindings are created, or updated to the new subject *)
BindClusterRole ==
  /\ worker.pc = "clusterrole"
  /\ clusterRoleBinding' = worker.sa
  /\ worker' = [worker EXCEPT !.pc = "role"]
  /\ UNCHANGED <<crrVars, nss, mcs, sa, saCount, minted, roleBinding,
                 hubCaches, agentVars, faults>>

(* in the Namespace that the account has or, if it is gone, had *)
BindRole ==
  /\ worker.pc = "role"
  /\ \E n \in 1..nss : /\ sa[worker.sa] \in {0, n}
                       /\ roleBinding' = [roleBinding EXCEPT ![n] = worker.sa]
  /\ worker' = [worker EXCEPT !.pc = "credentials"]
  /\ UNCHANGED <<crrVars, nss, mcs, sa, saCount, minted, clusterRoleBinding,
                 hubCaches, agentVars, faults>>

(* mutant: a missing token is logged only *)
GetCredentialsOnce ==
  /\ worker.pc = "credentials"
  /\ worker' = IF worker.sa \in minted /\ sa[worker.sa] # 0
               THEN [worker EXCEPT !.pc = "status"] ELSE Idle
  /\ UNCHANGED <<crrVars, hubObjects, hubCaches, agentVars, faults>>

(* the token is read; without one the backoff runs out and the key comes back *)
GetCredentials ==
  /\ worker.pc = "credentials"
  /\ \/ /\ worker.sa \in minted /\ sa[worker.sa] # 0
        /\ worker' = [worker EXCEPT !.pc = "status"]
        /\ UNCHANGED crrQueued
     \/ /\ worker.sa \notin minted \/ sa[worker.sa] = 0
        /\ worker' = Idle
        /\ crrQueued' = TRUE
  /\ UNCHANGED <<crr, crrWatch, crrCache, hubObjects, hubCaches, agentVars, faults>>

Approved == [crr EXCEPT !.result = "Approved", !.ns = worker.ns, !.token = worker.sa]
Denied   == [crr EXCEPT !.result = "Denied", !.ns = 0, !.token = Empty]
Answer   == IF worker.pc = "deny" THEN Denied ELSE Approved


(* the worker's pointer, as long as the cache has no newer object *)
AnsweredInCache == IF ~worker.held THEN crrCache
                   ELSE [crrCache EXCEPT !.result = Answer.result, !.ns = Answer.ns,
                                         !.token = Answer.token]

(* UpdateCRRStatus writes the object it was given, then asks the API       *)
(* server; after a conflict it takes a copy of what the lister has by then *)
UpdateCRRStatus ==
  /\ worker.pc \in {"status", "deny"} /\ crr.exists /\ crrWatch = <<>>
  /\ WriteCRR(Answer)
  /\ crrCache' = AnsweredInCache
  /\ worker' = Idle
  /\ UNCHANGED <<crrQueued, hubObjects, hubCaches, agentVars, faults>>

(* a request that cannot succeed: the CRR changed, or the name is taken *)
Refused ==
  \/ worker.pc \in {"status", "deny"} /\ (~crr.exists \/ crrWatch # <<>>)
  \/ worker.pc = "cluster" /\ mcCache = {} /\ worker.ns \in mcs

(* A request fails and the handler returns the error: the key comes back.  *)
(* The answer is in the cache by then; a denial ignores the error.         *)
RequestFails ==
  /\ worker.pc \notin {"idle", "credentials"}
  /\ Disturb("fail") \/ (Refused /\ UNCHANGED faults)
  /\ crrCache' = IF worker.pc \in {"status", "deny"} THEN AnsweredInCache ELSE crrCache
  /\ crrQueued' = (crrQueued \/ worker.pc # "deny")
  /\ worker' = Idle
  /\ UNCHANGED <<crr, crrWatch, hubObjects, hubCaches, agentVars>>

FilledCaches == /\ nsCache' = 1..nss /\ mcCache' = mcs /\ saCache' = LiveAccounts

(* a new hub process fills its caches and then handles what is there *)
RestartHub ==
  /\ Disturb("restart")
  /\ FilledCaches
  /\ crrCache' = crr /\ crrWatch' = <<>> /\ crrQueued' = crr.exists
  /\ worker' = Idle
  /\ UNCHANGED <<crr, hubObjects, agentVars>>

-----------------------------------------------------------------------------
(* clusternet-agent.                                                       *)

StartAgent ==
  /\ agent.pc = "down"
  /\ agent' = [Down EXCEPT !.pc = "register"]
  /\ UNCHANGED <<crrVars, hubObjects, hubCaches, worker, secret, storing, faults>>

(* a stored token is used first, if it is for this parent *)
TokenToUse == IF agent.trySecret /\ secret # Bootstrap THEN secret ELSE agent.token

(* The CRR is created, or is there already; a token that is refused is     *)
(* given up for the bootstrap token.                                       *)
Register ==
  /\ agent.pc = "register"
  /\ \/ /\ MayRegister(TokenToUse)
        /\ IF crr.exists THEN UNCHANGED <<crr, crrWatch>>
           ELSE WriteCRR([NoCRR EXCEPT !.exists = TRUE])
        /\ agent' = [agent EXCEPT !.pc = "wait", !.token = TokenToUse]
     \/ /\ ~MayRegister(TokenToUse)
        /\ agent' = [agent EXCEPT !.trySecret = FALSE, !.token = Bootstrap]
        /\ UNCHANGED <<crr, crrWatch>>
  /\ UNCHANGED <<crrCache, crrQueued, hubObjects, hubCaches, worker, secret, storing, faults>>

(* waitingForApproval: polls until the CRR is approved *)
Registered ==
  /\ agent.pc = "wait"
  /\ MayRegister(agent.token) /\ crr.exists /\ crr.result = "Approved"
  /\ agent' = [agent EXCEPT !.pc = "running", !.token = crr.token, !.ns = crr.ns]
  /\ storing' = crr.token
  /\ UNCHANGED <<crrVars, hubObjects, hubCaches, worker, secret, faults>>

(* created, or updated when there is one already; retried until it works *)
StoreCredentials ==
  /\ storing # Bootstrap
  /\ secret' = storing /\ storing' = Bootstrap
  /\ UNCHANGED <<crrVars, hubObjects, hubCaches, worker, agent, faults>>

(* The process ends.  One that loses its lease while it waits stops        *)
(* polling, takes the CRR it last read for approved, and may still store   *)
(* an empty token.                                                         *)
StopAgent ==
  /\ agent.pc # "down"
  /\ Disturb("crash")
  /\ agent' = Down /\ storing' = Bootstrap
  /\ \/ UNCHANGED secret
     \/ agent.pc = "wait" /\ secret' = Empty
  /\ UNCHANGED <<crrVars, hubObjects, hubCaches, worker>>

-----------------------------------------------------------------------------
(* An administrator removes the CRR or an account, or edits the CRR.       *)

DeleteCRR ==
  /\ crr.exists /\ Disturb("delete")
  /\ WriteCRR(NoCRR)
  /\ UNCHANGED <<crrCache, crrQueued, hubObjects, hubCaches, worker, agentVars>>

EditClusterID ==
  /\ crr.exists /\ crr.legal /\ Disturb("edit")
  /\ WriteCRR([crr EXCEPT !.legal = FALSE])
  /\ UNCHANGED <<crrCache, crrQueued, hubObjects, hubCaches, worker, agentVars>>

DeleteAccount(a) ==
  /\ sa[a] # 0 /\ Disturb("revoke")
  /\ sa' = [sa EXCEPT ![a] = 0]
  /\ UNCHANGED <<crrVars, nss, mcs, saCount, minted, roleBinding, clusterRoleBinding,
                 hubCaches, worker, agentVars>>

=============================================================================
