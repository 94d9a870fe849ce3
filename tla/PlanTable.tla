----------------------------- MODULE PlanTable -----------------------------
(***************************************************************************)
(* What a cache of measured plans promises (MemoryPlanCache and its use by *)
(* MCTSSearch._execute_single_node): a plan is measured at most once, the  *)
(* plan of the unhinted query never, and what is known of a plan stays.    *)
(* MctsSearch implements it.                                               *)
(***************************************************************************)
CONSTANTS
    Plan,         \* plan digests
    DefaultPlan,  \* digest of the unhinted query's plan
    Baseline,     \* its time
    Time          \* the times a measurement can give

VARIABLE known  \* the plans known so far, each with its time

Init == known = [p \in {DefaultPlan} |-> Baseline]

Learn(p, t) ==
    /\ p \in Plan \ DOMAIN known
    /\ known' = [q \in DOMAIN known \cup {p} |-> IF q = p THEN t ELSE known[q]]

Next == \E p \in Plan, t \in Time : Learn(p, t)

Spec == Init /\ [][Next]_known
=============================================================================
