---------------------------- MODULE MCBaseSync ----------------------------
(* Instances of BaseSync for TLC.                                          *)
EXTENDS BaseSync, TLC

CONSTANTS c1, c2

(* an adopted Subscription is edited and bound again and again ... *)
Serving == [namespaces |-> {c1, c2}, adopted |-> TRUE,
            kinds |-> EventKind \ {"revert"}, left |-> 4]
(* ... a new one is adopted, bound, also to a cluster without namespace, *)
(* and deleted                                                           *)
Deleting == [namespaces |-> {c1}, adopted |-> FALSE,
             kinds |-> EventKind \ {"edit", "revert", "relist"}, left |-> 4]
Scenarios == {Serving, Deleting}

ASSUME ScenariosAreOrderly == \A s \in Scenarios : Orderly(s)
=============================================================================
