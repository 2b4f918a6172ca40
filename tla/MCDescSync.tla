---------------------------- MODULE MCDescSync ----------------------------
(* Instances of DescSync for TLC.                                          *)
EXTENDS DescSync, TLC

CONSTANTS f1, f2

(* a new Base is deployed, and loses feeds ... *)
Deploying == [feeds |-> {f1, f2}, settled |-> FALSE,
              kinds |-> {"shrink", "apierr", "restart"}, left |-> 2]
(* ... the one Manifest of a Base is edited, and the Base deleted ... *)
Editing == [feeds |-> {f1}, settled |-> TRUE,
            kinds |-> {"edit", "delbase", "apierr"}, left |-> 4]
(* ... a Base gets more feeds, and is deleted *)
Growing == [feeds |-> {f1}, settled |-> TRUE,
            kinds |-> {"grow", "delbase", "apierr"}, left |-> 3]
Scenarios == {Deploying, Editing, Growing}

ASSUME ScenariosAreOrderly ==
  \A s \in Scenarios : OrderlyUpdates(s) /\ OrderlyDeletion(s)

(* two Manifests of a Base are edited *)
EditingTwo == {[feeds |-> {f1, f2}, settled |-> TRUE, kinds |-> {"edit"}, left |-> 2]}
=============================================================================
