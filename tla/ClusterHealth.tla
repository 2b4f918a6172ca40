--------------------------- MODULE ClusterHealth ---------------------------
(***************************************************************************)
(* Heartbeats: the agent's status collector and status manager, and the    *)
(* cluster lifecycle controller of the hub, which declares a cluster       *)
(* Unknown when no status arrives within the grace period.                 *)
(*                                                                         *)
(* Time is what the monitor can tell: an observation is "recent" or, once  *)
(* a grace period has passed since, "old".  A ManagedCluster that was      *)
(* never reported counts from its creation.  The condition an agent        *)
(* reports is True or False, both "Reported" here.  Status writes carry a  *)
(* resource version; a copy is "current" until another write gets in.      *)
(***************************************************************************)
EXTENDS Naturals

CONSTANTS
  Home,   \* the Namespaces a ManagedCluster may live in
  None    \* no Namespace

ASSUME HomeAssumption == None \notin Home

VARIABLES
  mc,       \* the ManagedCluster in each Namespace
  lister,   \* the hub's copy of each
  keys,     \* keys in the monitor's work queue
  delayed,  \* keys that come back after a grace period
  collected,\* the status the agent collected last
  manager   \* the ManagedCluster the status manager holds

healthVars == <<mc, lister, keys, delayed, collected, manager>>

Age == {"recent", "old"}
Ready == {"none", "Reported", "Unknown"}
ManagedCluster == [exists: BOOLEAN, probe: Age, ready: Ready]
Copy == [exists: BOOLEAN, probe: Age, current: BOOLEAN]

HealthTypeOK ==
  /\ mc \in [Home -> ManagedCluster] /\ lister \in [Home -> Copy]
  /\ keys \subseteq Home /\ delayed \subseteq Home
  /\ collected \in Age \cup {"never"}
  /\ manager \in [ns: Home \cup {None}, current: BOOLEAN]

NoCluster == [exists |-> FALSE, probe |-> "recent", ready |-> "none"]
NoCopy    == [exists |-> FALSE, probe |-> "recent", current |-> TRUE]
Nothing   == [ns |-> None, current |-> FALSE]

HealthInit ==
  /\ mc = [n \in Home |-> NoCluster] /\ lister = [n \in Home |-> NoCopy]
  /\ keys = {} /\ delayed = {}
  /\ collected = "never" /\ manager = Nothing

(* every write makes the copies of the others stale, and is watched *)
WriteStatus(n, o) ==
  /\ mc' = [mc EXCEPT ![n] = o]
  /\ lister' = [lister EXCEPT ![n].current = FALSE]

(* mutant: a new ManagedCluster counts from its first report, which may never come *)
CreatedWithoutTime(n) ==
  /\ WriteStatus(n, [NoCluster EXCEPT !.exists = TRUE, !.probe = "never"])
  /\ UNCHANGED <<keys, delayed, collected, manager>>

(* the approver creates a ManagedCluster without a status *)
ClusterCreated(n) ==
  /\ WriteStatus(n, [NoCluster EXCEPT !.exists = TRUE])
  /\ UNCHANGED <<keys, delayed, collected, manager>>

-----------------------------------------------------------------------------
(* The agent.                                                              *)

(* collectingClusterStatus: what is observed is stamped with the time *)
Collect ==
  /\ collected' = "recent"
  /\ UNCHANGED <<mc, lister, keys, delayed, manager>>

(* updateClusterStatus: the ManagedCluster is looked up once *)
FindCluster(n) ==
  /\ manager.ns = None /\ mc[n].exists
  /\ manager' = [ns |-> n, current |-> TRUE]
  /\ UNCHANGED <<mc, lister, keys, delayed, collected>>

Report ==
  /\ manager.ns # None /\ manager.current /\ collected # "never"
  /\ WriteStatus(manager.ns, [exists |-> TRUE, probe |-> collected,
                              ready |-> "Reported"])
  /\ UNCHANGED <<keys, delayed, collected, manager>>

(* mutant: after a conflict the same object is written again *)
KeepCluster ==
  /\ manager.ns # None /\ ~manager.current /\ collected # "never"
  /\ UNCHANGED healthVars

(* a conflict: the object is read again before the next try *)
RefreshCluster ==
  /\ manager.ns # None /\ ~manager.current /\ collected # "never"
  /\ manager' = [manager EXCEPT !.current = TRUE]
  /\ UNCHANGED <<mc, lister, keys, delayed, collected>>

AgentGone ==
  /\ collected' = "never" /\ manager' = Nothing
  /\ UNCHANGED <<mc, lister, keys, delayed>>

-----------------------------------------------------------------------------
(* The cluster lifecycle controller.                                       *)

(* every delivered write has another status, so that its key is enqueued *)
SyncLister(n) ==
  /\ ~lister[n].current
  /\ lister' = [lister EXCEPT ![n] = [exists |-> mc[n].exists, probe |-> mc[n].probe,
                                      current |-> TRUE]]
  /\ keys' = keys \cup {n}
  /\ UNCHANGED <<mc, delayed, collected, manager>>

(* generateClusterReadyCondition: nothing to say within the grace period *)
Silent(copy) == copy.probe = "old"

(* mutant: a key comes back only if its cluster is silent *)
RequeueSilent(n) == IF Silent(lister[n]) THEN delayed \cup {n} ELSE delayed
RequeueAfter(n) == delayed \cup {n}

(* mutant: the write is not checked against a newer version *)
AlwaysAccepted(copy) == TRUE
Accepted(copy) == copy.current

(* Unknown is written with a new transition time; within the same second   *)
(* that changes nothing.  A write after a heartbeat that the lister does   *)
(* not have yet is refused, and the error brings the key back.             *)
UpdateClusterCondition(n) ==
  \/ /\ Accepted(lister[n])
     /\ WriteStatus(n, [mc[n] EXCEPT !.ready = "Unknown"])
     /\ manager' = IF manager.ns = n THEN [manager EXCEPT !.current = FALSE] ELSE manager
     /\ keys' = keys \ {n} /\ delayed' = RequeueAfter(n)
  \/ /\ Accepted(lister[n]) /\ mc[n].ready = "Unknown"
     /\ keys' = keys \ {n} /\ delayed' = RequeueAfter(n)
     /\ UNCHANGED <<mc, lister, manager>>
  \/ /\ ~Accepted(lister[n])
     /\ UNCHANGED <<mc, lister, manager, keys, delayed>>

(* syncHandler, from the lister's copy *)
SyncCluster(n) ==
  /\ n \in keys /\ lister[n].exists
  /\ \/ Silent(lister[n]) /\ UpdateClusterCondition(n)
     \/ /\ ~Silent(lister[n])
        /\ keys' = keys \ {n} /\ delayed' = RequeueAfter(n)
        /\ UNCHANGED <<mc, lister, manager>>
  /\ UNCHANGED collected

DelayElapsed(n) ==
  /\ n \in delayed
  /\ delayed' = delayed \ {n} /\ keys' = keys \cup {n}
  /\ UNCHANGED <<mc, lister, collected, manager>>

HubGone ==
  /\ lister' = [n \in Home |-> [exists |-> mc[n].exists, probe |-> mc[n].probe,
                                current |-> TRUE]]
  /\ keys' = {n \in Home : mc[n].exists} /\ delayed' = {}
  /\ UNCHANGED <<mc, collected, manager>>

-----------------------------------------------------------------------------
(* A grace period passes.                                                  *)
Aged(o) == IF o.exists THEN [o EXCEPT !.probe = "old"] ELSE o

GracePeriodPasses ==
  /\ mc' = [n \in Home |-> Aged(mc[n])]
  /\ lister' = [n \in Home |-> Aged(lister[n])]
  /\ collected' = IF collected = "recent" THEN "old" ELSE collected
  /\ <<mc, lister, collected>>' # <<mc, lister, collected>>
  /\ UNCHANGED <<keys, delayed, manager>>

=============================================================================
