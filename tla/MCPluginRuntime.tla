-------------------------- MODULE MCPluginRuntime --------------------------
(* A profile that delays with two permit plugins, one of which also        *)
(* reserves, a small one, and two that NewFramework refuses.               *)
EXTENDS PluginRuntime

CONSTANTS quota, window, binder

MCRegistry ==
  [p \in Plugin |->
     CASE p = quota -> {"Reserve", "Permit", "PreBind"}
       [] p = window -> {"PreFilter", "PreScore", "Score", "Reserve", "Permit"}
       [] p = binder -> {"Bind"}]

Small == [e \in ExtensionPoint |-> IF e = "Bind" THEN <<binder>> ELSE <<>>]
Delaying == [Small EXCEPT !["Reserve"] = <<window, quota>>, !["Permit"] = <<quota, window>>,
                          !["PreBind"] = <<quota>>]
Scoring == [Small EXCEPT !["PreFilter"] = <<window>>, !["PreScore"] = <<window>>,
                         !["Score"] = <<window>>, !["Permit"] = <<window>>]
Unable == [Small EXCEPT !["Bind"] = <<>>]
Twice == [Small EXCEPT !["Permit"] = <<quota, quota>>]

MCProfile == {Delaying, Scoring, Unable, Twice}
=============================================================================
