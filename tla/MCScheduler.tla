---------------------------- MODULE MCScheduler ----------------------------
(* Instances of Scheduler for TLC: spec p selects label l1 only and does   *)
(* not tolerate the taint, spec q selects both labels and tolerates it.    *)
EXTENDS SchedulerGrowth, TLC

CONSTANTS p, q, l1, l2, c1, c2, b1, b2

MCAffinity == (p :> {l1}) @@ (q :> {l1, l2})
MCTolerant == {q}

(* Clusters are alike, and so are goroutines: the first cluster to join is *)
(* c1, and b2 is only started when b1 is busy.                             *)
Canonical ==
  /\ clusters.ver = 0 => clusters'.obj[c2] = clusters.obj[c2]
  /\ binder[b1] = None => binder'[b2] \in {None, binder[b2]}

MCNext == GrowNext /\ Canonical

MCSpec == GrowInit /\ [][MCNext]_<<vars, growing>> /\ Fairness
=============================================================================
