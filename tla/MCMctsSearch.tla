---------------------------- MODULE MCMctsSearch ----------------------------
(* Model values for MctsSearch: a join prefix with two values, of which a  *)
(* set of hints has one, and an index hint that does not change the plan.  *)
EXTENDS MctsSearch, TLC

MCHint == {"prefix1", "prefix2", "index"}

MCSlot == [h \in MCHint |-> IF h = "index" THEN "index" ELSE "prefix"]

MCPlan == {"default", "p1", "p2"}

MCPlanOf == [s \in SUBSET MCHint |->
                CASE "prefix2" \in s -> "p2"
                  [] "prefix2" \notin s /\ "prefix1" \in s -> "p1"
                  [] OTHER -> "default"]

MCOutputs == {{}, {"prefix1"}, {"prefix2"}}

MCBundles == {{"index", "prefix1"}}

MCActions == <<"A1", "A5", "A6">>
=============================================================================
