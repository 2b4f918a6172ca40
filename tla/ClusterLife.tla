---------------------------- MODULE ClusterLife ----------------------------
(***************************************************************************)
(* A child cluster from registration to heartbeats: Registration and       *)
(* ClusterHealth composed.  They share the ManagedCluster, which the       *)
(* approver creates, the agent process, which reports with the token and   *)
(* the Namespace that the approver answered with, and the hub process.     *)
(***************************************************************************)
EXTENDS Registration, ClusterHealth

ASSUME SharedNamespaces == Home = Namespaces /\ None = 0

vars == <<regVars, healthVars>>

TypeOK == RegTypeOK /\ HealthTypeOK

Init == RegInit /\ HealthInit

Inform == SyncCRR \/ SyncNamespaces \/ SyncClusters \/ SyncAccounts

Approve ==
  \/ GetRequest \/ CreateNamespace \/ CreateServiceAccount
  \/ BindClusterRole \/ BindRole \/ GetCredentials \/ UpdateCRRStatus

MintTokens == \E a \in Accounts : MintToken(a)

(* creating the ManagedCluster is where the two parts meet *)
CreateCluster ==
  /\ CreateManagedCluster
  /\ IF mcs' = mcs THEN UNCHANGED healthVars ELSE ClusterCreated(worker.ns)

Join == Register \/ Registered \/ StoreCredentials

(* the agent needs its token for each of its requests *)
Reporting == agent.pc = "running" /\ MayReport(agent.token, agent.ns)

CollectStatus == agent.pc = "running" /\ Collect
FindManagedCluster == Reporting /\ FindCluster(agent.ns)
ReportStatus == Reporting /\ Report
RefreshManagedCluster == Reporting /\ RefreshCluster

(* Losing the lease ends the process, and so does a panic: the collector   *)
(* does not survive a failed request for the server version.               *)
AgentStops == StopAgent /\ AgentGone
HubRestarts == RestartHub /\ HubGone

Monitor == \E n \in Home : SyncLister(n) \/ SyncCluster(n) \/ DelayElapsed(n)

Administrate == DeleteCRR \/ EditClusterID \/ \E a \in Accounts : DeleteAccount(a)

Health ==
  /\ CollectStatus \/ FindManagedCluster \/ ReportStatus \/ RefreshManagedCluster
     \/ Monitor \/ GracePeriodPasses
  /\ UNCHANGED regVars

Registering ==
  /\ Inform \/ Approve \/ MintTokens \/ RequestFails \/ StartAgent \/ Join
     \/ Administrate
  /\ UNCHANGED healthVars

Next == Registering \/ CreateCluster \/ Health \/ AgentStops \/ HubRestarts

Spec == Init /\ [][Next]_vars

(* Informers, work queues, delays and the polling loops of both processes  *)
(* go on; time passes.  A heartbeat is refused only when the monitor wrote *)
(* between the agent's read and its write, which it does at most once a    *)
(* second, hence strong fairness.  Failures, restarts and administrators   *)
(* owe nothing, and nobody has to start an agent that is down.             *)
FairSpec ==
  /\ Spec
  /\ WF_vars(Inform /\ UNCHANGED healthVars)
  /\ WF_vars((Approve /\ UNCHANGED healthVars) \/ CreateCluster
             \/ (RequestFails /\ Refused /\ UNCHANGED healthVars))
  /\ WF_vars(MintTokens /\ UNCHANGED healthVars)
  /\ WF_vars(Join /\ UNCHANGED healthVars)
  /\ WF_vars(CollectStatus /\ UNCHANGED regVars)
  /\ WF_vars(FindManagedCluster /\ UNCHANGED regVars)
  /\ SF_vars(ReportStatus /\ UNCHANGED regVars)
  /\ WF_vars(RefreshManagedCluster /\ UNCHANGED regVars)
  /\ \A n \in Home : /\ WF_vars(SyncLister(n) /\ UNCHANGED regVars)
                     /\ WF_vars(SyncCluster(n) /\ UNCHANGED regVars)
                     /\ WF_vars(DelayElapsed(n) /\ UNCHANGED regVars)
  /\ WF_vars(GracePeriodPasses /\ UNCHANGED regVars)

-----------------------------------------------------------------------------
(* The hub has nothing to do for the CRR, and knows the stored one. *)
AtRest == worker.pc = "idle" /\ ~crrQueued /\ crrWatch = <<>> /\ crrCache = crr

(* When the hub is at rest, the token it answered with belongs to the      *)
(* account that the bindings name, so that the agent can use it: no retry  *)
(* or restart leaves a CRR with the token of one account and the bindings  *)
(* of another, unless the CRR itself was replaced meanwhile                *)
(* (handleClusterRegistrationRequests).                                    *)
ApprovedTokenBound ==
  (AtRest /\ "delete" \notin faults /\ crr.result = "Approved" /\ sa[crr.token] # 0) =>
    /\ clusterRoleBinding = crr.token
    /\ roleBinding[sa[crr.token]] = crr.token

(* The monitor declares a cluster Unknown only when a whole grace period   *)
(* has passed since the status that is stored: a heartbeat that races the  *)
(* timeout wins (updateClusterCondition).                                  *)
UnknownOnlyWhenSilent ==
  [][\A n \in Home : (mc[n].ready # "Unknown" /\ mc'[n].ready = "Unknown")
                     => mc[n].probe = "old"]_vars

(* A cluster whose agent is gone for good is Unknown in the end, although  *)
(* nothing happens to its ManagedCluster any more (requeue after the grace *)
(* period in processNextWorkItem).                                         *)
SilentBecomesUnknown ==
  <>[](agent.pc = "down") =>
    <>[](\A n \in Home : mc[n].exists => mc[n].ready = "Unknown")

(* A cluster whose agent reports again does not stay Unknown, whatever     *)
(* conflicts the monitor causes (updateClusterStatus).                     *)
ReportEndsUnknown ==
  \A n \in Home :
    (mc[n].ready = "Unknown" /\ Reporting /\ agent.ns = n)
      ~> (mc[n].ready # "Unknown" \/ ~Reporting)

(* The answer in the hub's cache never reached the API server. *)
AnswerLost == crrWatch = <<>> /\ crrCache.result # crr.result

(* A request is answered in the end, through failures, restarts and late   *)
(* tokens, unless it is deleted or the hub takes it for answered because   *)
(* the status write failed after the cached object was written.            *)
PendingIsAnswered ==
  (crr.exists /\ crr.result = "") ~> (~crr.exists \/ crr.result # "" \/ AnswerLost)

(* A request is answered in the end: what the approver's comment on        *)
(* requeueing promises.                                                    *)
RequestIsAnswered == (crr.exists /\ crr.result = "") ~> (~crr.exists \/ crr.result # "")

=============================================================================
