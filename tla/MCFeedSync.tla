----------------------------- MODULE MCFeedSync -----------------------------
(* Instances of FeedSync for TLC.                                          *)
EXTENDS FeedSync

CONSTANTS g1, g2, l1

MCPriority == [o \in {g1, g2, l1} |-> IF o = g1 THEN 2 ELSE 1]

(* a Globalization and a Localization of a Manifest change and go ... *)
Overriding == [kind |-> "Manifest", gate |-> FALSE, adopted |-> TRUE,
               overrides |-> {}, ready |-> {g1, l1}, later |-> {},
               kinds |-> {"value", "delete", "template"}, left |-> 2]
(* ... one is applied later, and may stand in the way of the other ... *)
Ordering == [kind |-> "Manifest", gate |-> FALSE, adopted |-> TRUE,
             overrides |-> {}, ready |-> {g1, g2}, later |-> {g2},
             kinds |-> {"value", "break", "delete"}, left |-> 3]
(* ... an override of a new feed is created, and gone at once ... *)
Creating(k) == [kind |-> k, gate |-> TRUE, adopted |-> FALSE,
                overrides |-> {g1}, ready |-> {}, later |-> {},
                kinds |-> {"create", "delete", "apierr", "restart"},
                left |-> IF k = "Manifest" THEN 3 ELSE 2]
(* ... an override of a chart that is not found at times ... *)
Charting == [kind |-> "HelmChart", gate |-> TRUE, adopted |-> TRUE,
             overrides |-> {}, ready |-> {g1}, later |-> {},
             kinds |-> {"delete", "value", "template", "norepo"}, left |-> 3]
(* ... a protected chart is deleted, and a Manifest without protection *)
Removing(k, p) == [kind |-> k, gate |-> p, adopted |-> TRUE,
                   overrides |-> {}, ready |-> {l1}, later |-> {},
                   kinds |-> {"delfeed", "list"} \cup
                             (IF p THEN {"delete", "delsub", "apierr"} ELSE {"template"}),
                   left |-> 3]

Scenarios == {Overriding, Ordering, Charting, Creating("Manifest"), Creating("HelmChart"),
              Removing("HelmChart", TRUE), Removing("Manifest", FALSE)}
=============================================================================
