---------------------------- MODULE MCAgentSync ----------------------------
(* Instances of AgentSync for TLC: r1 and r2 are of the same kind.         *)
EXTENDS AgentSync

CONSTANTS r1, r2, k1

MCKindOf == [r \in {r1, r2} |-> k1]

(* the hub deploys, the agent watches ... *)
Watching == [syncMode |-> "Dual", appPusher |-> TRUE, recovery |-> TRUE, deployed |-> TRUE,
             kinds |-> {"edit", "drift", "remove", "restart"}, left |-> 2]
Changing == [syncMode |-> "Push", appPusher |-> TRUE, recovery |-> TRUE, deployed |-> TRUE,
             kinds |-> {"shrink", "remove", "delete", "apierr"}, left |-> 2]
FirstDeploying == [Changing EXCEPT !.deployed = FALSE, !.left = 1]
(* ... or does not *)
Pushing == [syncMode |-> "Dual", appPusher |-> TRUE, recovery |-> FALSE, deployed |-> FALSE,
            kinds |-> {"edit", "shrink", "delete", "restart"}, left |-> 2]
(* the agent deploys, without and with Recovery *)
Pulling == [syncMode |-> "Pull", appPusher |-> FALSE, recovery |-> FALSE, deployed |-> FALSE,
            kinds |-> {"edit", "shrink", "delete", "apierr", "restart"}, left |-> 3]
Recovering == [syncMode |-> "Dual", appPusher |-> FALSE, recovery |-> TRUE, deployed |-> FALSE,
               kinds |-> {"edit", "drift", "apierr"}, left |-> 2]

Scenarios == {Watching, Changing, FirstDeploying, Pushing, Pulling, Recovering}

ASSUME ScenariosAreOrderly == \A s \in Scenarios : Orderly(s)
=============================================================================
