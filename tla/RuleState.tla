----------------------------- MODULE RuleState -----------------------------
(***************************************************************************)
(* The rule-state table of controller/rule_state_controller.py, shared by  *)
(* the two rule appliers, by scripts/reset_rule_state.py and by perfmon.   *)
(*                                                                         *)
(* A SQL template's state is the newest row of rule_state_history that is  *)
(* not a noop: an operation and the set of plans it bound.  An optional    *)
(* timeout (Python's "int | None") is a set with at most one element.      *)
(***************************************************************************)

Operation == {"setup_plan", "modify_plan", "modify_timeout", "reset", "noop"}

\* The operations after which a template has a rule (the ACTIVE state).
BindingOperation == {"setup_plan", "modify_plan", "modify_timeout"}

\* get_latest_state returned None: the template was never touched.
NoState == [op |-> "none", plans |-> {}]

\* Rows the table can hold as a template's state, over a set of plans.
StateOver(Plans) ==
    {NoState} \cup [op : Operation \ {"noop"}, plans : SUBSET Plans]

HasCurrentRule(state) == state.op \in BindingOperation

\* The decision matrix of decide_operation.
DecideOperation(state, newPlans, isReset, currentTimeout, newTimeout) ==
    LET timeoutChanged == /\ currentTimeout # {}
                          /\ newTimeout # {}
                          /\ currentTimeout # newTimeout
    IN  CASE isReset /\ HasCurrentRule(state)    -> "reset"
          [] isReset /\ ~HasCurrentRule(state)   -> "noop"
          [] ~isReset /\ ~HasCurrentRule(state)  -> "setup_plan"
          [] ~isReset /\ HasCurrentRule(state) /\ state.plans # newPlans
                                                 -> "modify_plan"
          [] ~isReset /\ HasCurrentRule(state) /\ state.plans = newPlans
                                                 -> IF timeoutChanged
                                                    THEN "modify_timeout"
                                                    ELSE "noop"

\* Mutant: noop rows count as the newest state.
RecordEveryOperation(latest, t, op, plans) ==
    [latest EXCEPT ![t] = [op |-> op, plans |-> plans]]

\* record_operation as get_latest_state sees it afterwards: a noop row is an
\* audit entry that never becomes the template's state.
RecordOperation(latest, t, op, plans) ==
    IF op = "noop" THEN latest
                   ELSE [latest EXCEPT ![t] = [op |-> op, plans |-> plans]]

=============================================================================
