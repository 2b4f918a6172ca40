---------------------------- MODULE MCHelmSync ----------------------------
(* Instances of HelmSync for TLC: two events where the hub deploys, which  *)
(* has the most workers to race, and one in the other modes.               *)
EXTENDS HelmSync, TLC

Names == [c \in Chart |-> "nginx"]
Bound == [m \in Mode |-> IF m = "hub" THEN 2 ELSE 1]
===========================================================================
