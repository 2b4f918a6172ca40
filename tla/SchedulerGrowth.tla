--------------------------- MODULE SchedulerGrowth ---------------------------
(***************************************************************************)
(* Scheduler with a history variable: whether clusters have so far only    *)
(* become eligible.  DeleteFunc of the ManagedCluster handlers does        *)
(* nothing, and UpdateFunc enqueues the Subscriptions that the cluster     *)
(* matches after an update: nothing wakes the scheduler for a bound        *)
(* cluster that is deleted or no longer matches.                           *)
(***************************************************************************)
EXTENDS Scheduler

VARIABLE growing

Grows ==
  \A c \in Cluster : LET o == clusters.obj[c] IN
    o.phase # "absent" => clusters'.obj[c] \in {o, [o EXCEPT !.tainted = FALSE]}

GrowInit == Init /\ growing = TRUE
GrowNext == Next /\ growing' = (growing /\ Grows)
GrowSpec == GrowInit /\ [][GrowNext]_<<vars, growing>>

(* SettledBindingsFit as long as clusters only become eligible: nothing    *)
(* wakes the scheduler when a bound one is deleted, tainted or relabelled. *)
GrowingBindingsFit == growing => SettledBindingsFit
=============================================================================
