---------------------------- MODULE OutlineApply ----------------------------
(***************************************************************************)
(* Applying decided rules through statement outlines:                      *)
(* StatementOutlineRuleApplier and the StatementOutlineOperator calls it   *)
(* makes (optimizer/statement_outline_operator.py).  A rule lives on the   *)
(* online instance under an id the instance hands out; a template should   *)
(* have one rule, replaced by deleting and adding.                         *)
(*                                                                         *)
(* As in SpmApply one action is one call.  A decision is a set: empty for  *)
(* DEFAULT, else the one OPTIMIZE rule the applier looks at.               *)
(***************************************************************************)
EXTENDS Naturals, FiniteSets, RuleState

CONSTANTS
    Templates,   \* SQL templates, the pairs (db, digest)
    Plans,       \* plan ids
    Timeouts,    \* feedback timeouts
    NoTemplate,
    MaxTasks,    \* bound: tasks started in a behaviour
    MaxFaults    \* bound: failed calls and crashes in a behaviour

ASSUME OutlineAssumption ==
    /\ NoTemplate \notin Templates
    /\ Timeouts \subseteq Nat
    /\ MaxTasks \in Nat
    /\ MaxFaults \in Nat

VARIABLES
    rules,     \* online: the AI rules of the instance
    nextId,    \* online: the id of the next rule
    latest,    \* metadata: get_latest_state of each template
    pc,        \* where the applier is
    todo,      \* templates of this task still to be applied
    decision,  \* what the last task with the template in it decided
    tpl,       \* template being applied
    state,     \* its state as read at the beginning
    op,        \* operation decided for it
    existing,  \* ids of its rules as show_rules returned them
    outcome,   \* what the last application of a template returned
    tasks,     \* tasks started so far
    faults     \* faults so far

vars == <<rules, nextId, latest, pc, todo, decision, tpl, state, op, existing,
          outcome, tasks, faults>>

Choice   == [plan : Plans, timeout : Timeouts]
Decision == {{}} \cup {{c} : c \in Choice}

RulesOf(t) == {r \in rules : r.tpl = t}
ChoiceOf(r) == [plan |-> r.plan, timeout |-> r.timeout]

TypeOK ==
    /\ rules \subseteq [id : 1..(nextId - 1), tpl : Templates, plan : Plans,
                        timeout : Timeouts]
    /\ nextId \in Nat \ {0}
    /\ latest \in [Templates -> StateOver(Plans)]
    /\ pc \in {"idle", "next", "show", "delete", "add", "record"}
    /\ todo \in SUBSET Templates
    /\ decision \in [Templates -> Decision]
    /\ tpl \in Templates \cup {NoTemplate}
    /\ state \in StateOver(Plans)
    /\ op \in Operation
    /\ existing \in SUBSET Nat
    /\ outcome \in [Templates -> {"none", "success", "skip", "fail"}]
    /\ tasks \in 0..MaxTasks
    /\ faults \in 0..MaxFaults

Init ==
    /\ rules = {}
    /\ nextId = 1
    /\ latest = [t \in Templates |-> NoState]
    /\ pc = "idle"
    /\ todo = {}
    /\ decision = [t \in Templates |-> {}]
    /\ tpl = NoTemplate
    /\ state = NoState
    /\ op = "noop"
    /\ existing = {}
    /\ outcome = [t \in Templates |-> "none"]
    /\ tasks = 0
    /\ faults = 0

-----------------------------------------------------------------------------
Fault == /\ faults < MaxFaults
         /\ faults' = faults + 1

ClearTemplate ==
    /\ tpl' = NoTemplate
    /\ state' = NoState
    /\ op' = "noop"
    /\ existing' = {}

Leave(result) ==
    /\ outcome' = [outcome EXCEPT ![tpl] = result]
    /\ todo' = todo \ {tpl}
    /\ ClearTemplate
    /\ pc' = "next"

\* A training task reaches APPLYING with decisions for a batch of templates.
BeginTask ==
    /\ pc = "idle"
    /\ tasks < MaxTasks
    /\ \E batch \in SUBSET Templates :
          /\ todo' = batch
          /\ decision' \in [Templates -> Decision]
          /\ \A t \in Templates \ batch : decision'[t] = decision[t]
          /\ outcome' = [t \in Templates |->
                            IF t \in batch THEN "none" ELSE outcome[t]]
    /\ tasks' = tasks + 1
    /\ pc' = "next"
    /\ UNCHANGED <<rules, nextId, latest, tpl, state, op, existing, faults>>

\* get_latest_state of the next template.
ReadState(t) ==
    /\ pc = "next"
    /\ t \in todo
    /\ tpl' = t
    /\ state' = latest[t]
    /\ pc' = "show"
    /\ UNCHANGED <<rules, nextId, latest, todo, decision, op, existing,
                   outcome, tasks, faults>>

\* current_timeout is that of the last matching rule show_rules returned, in
\* no defined order; None when the template has no rule online.
CurrentTimeouts(t) ==
    IF RulesOf(t) = {} THEN {{}} ELSE {{r.timeout} : r \in RulesOf(t)}

\* Mutant: the applier passes no timeouts, as the SPM applier does.
OperationWithoutTimeout(t, timeout) ==
    DecideOperation(state, {c.plan : c \in decision[t]}, decision[t] = {},
                    {}, {})

OperationFor(t, timeout) ==
    DecideOperation(state, {c.plan : c \in decision[t]}, decision[t] = {},
                    timeout, {c.timeout : c \in decision[t]})

\* Mutant: a rule with the plan just decided is not listed for deletion.
OtherRuleIds(t) ==
    {r.id : r \in {x \in RulesOf(t) : x.plan \notin {c.plan : c \in decision[t]}}}

ExistingRuleIds(t) == {r.id : r \in RulesOf(t)}

\* show_rules, then decide_operation.
ShowRules ==
    /\ pc = "show"
    /\ existing' = ExistingRuleIds(tpl)
    /\ \E timeout \in CurrentTimeouts(tpl) : op' = OperationFor(tpl, timeout)
    /\ pc' = IF op' = "noop" THEN "record" ELSE "delete"
    /\ UNCHANGED <<rules, nextId, latest, todo, decision, tpl, state, outcome,
                   tasks, faults>>

\* One delete_rule; the loop swallows a failure.
DeleteRule(id) ==
    /\ pc = "delete"
    /\ id \in existing
    /\ existing' = existing \ {id}
    /\ \/ /\ rules' = {r \in rules : r.id # id}
          /\ UNCHANGED faults
       \/ /\ Fault
          /\ UNCHANGED rules
    /\ UNCHANGED <<nextId, latest, pc, todo, decision, tpl, state, op, outcome,
                   tasks>>

EndDelete ==
    /\ pc = "delete"
    /\ existing = {}
    /\ pc' = IF op = "reset" THEN "record" ELSE "add"
    /\ UNCHANGED <<rules, nextId, latest, todo, decision, tpl, state, op,
                   existing, outcome, tasks, faults>>

StoreRule ==
    /\ \E c \in decision[tpl] :
          rules' = rules \cup {[id |-> nextId, tpl |-> tpl, plan |-> c.plan,
                                timeout |-> c.timeout]}
    /\ nextId' = nextId + 1

\* add_rule_from_ai returned the new rule's id.
AddRule ==
    /\ pc = "add"
    /\ StoreRule
    /\ pc' = "record"
    /\ UNCHANGED <<latest, todo, decision, tpl, state, op, existing, outcome,
                   tasks, faults>>

\* record_operation; only operations that add a rule record plans.
Record ==
    /\ pc = "record"
    /\ latest' = RecordOperation(latest, tpl, op, {c.plan : c \in decision[tpl]})
    /\ Leave(IF op = "noop" THEN "skip" ELSE "success")
    /\ UNCHANGED <<rules, nextId, decision, tasks, faults>>

EndTask ==
    /\ pc = "next"
    /\ todo = {}
    /\ pc' = "idle"
    /\ UNCHANGED <<rules, nextId, latest, todo, decision, tpl, state, op,
                   existing, outcome, tasks, faults>>

-----------------------------------------------------------------------------
\* Reading the state of the next template raises.
ReadStateFails(t) ==
    /\ pc = "next"
    /\ t \in todo
    /\ Fault
    /\ todo' = todo \ {t}
    /\ outcome' = [outcome EXCEPT ![t] = "fail"]
    /\ UNCHANGED <<rules, nextId, latest, pc, decision, tpl, state, op,
                   existing, tasks>>

\* Mutant: a failing add is swallowed like a failing delete.
AddFailsSilently ==
    /\ pc = "add"
    /\ Fault
    /\ pc' = "record"
    /\ UNCHANGED <<rules, nextId, latest, todo, decision, tpl, state, op,
                   existing, outcome, tasks>>

\* Showing, adding or recording raises without having had an effect.
CallFails ==
    /\ pc \in {"show", "add", "record"}
    /\ Fault
    /\ Leave("fail")
    /\ UNCHANGED <<rules, nextId, latest, decision, tasks>>

\* Adding or recording had its effect, but its reply was lost.
ReplyLost ==
    /\ Fault
    /\ \/ /\ pc = "add"
          /\ StoreRule
          /\ UNCHANGED latest
       \/ /\ pc = "record"
          /\ latest' = RecordOperation(latest, tpl, op,
                                       {c.plan : c \in decision[tpl]})
          /\ UNCHANGED <<rules, nextId>>
    /\ Leave("fail")
    /\ UNCHANGED <<decision, tasks>>

\* The executor process dies.
Crash ==
    /\ pc # "idle"
    /\ Fault
    /\ pc' = "idle"
    /\ todo' = {}
    /\ ClearTemplate
    /\ UNCHANGED <<rules, nextId, latest, decision, outcome, tasks>>

-----------------------------------------------------------------------------
Applier ==
    \/ \E t \in Templates : ReadState(t)
    \/ ShowRules
    \/ \E id \in existing : DeleteRule(id)
    \/ EndDelete
    \/ AddRule
    \/ Record
    \/ EndTask

Failure ==
    \/ \E t \in Templates : ReadStateFails(t)
    \/ CallFails
    \/ ReplyLost
    \/ Crash

Next == BeginTask \/ Applier \/ Failure

Spec == Init /\ [][Next]_vars

-----------------------------------------------------------------------------
(* Properties. *)

\* An application that reported success leaves a rule with the decided plan
\* and feedback timeout online, whatever failed since (add_rule raises, the
\* deletes before it may fail).
SuccessLasts ==
    \A t \in Templates :
        outcome[t] = "success" =>
            decision[t] \subseteq {ChoiceOf(r) : r \in RulesOf(t)}

\* The rules of a template never outnumber what failures can explain: one,
\* plus one for each fault so far.
RulesBoundedByFaults ==
    \A t \in Templates : Cardinality(RulesOf(t)) <= 1 + faults

\* As long as nothing failed a template that was applied or skipped has
\* exactly the rule decided for it, timeout included, and none after a DEFAULT
\* decision: the noop really skips only what is there already.
DecisionInForce ==
    faults = 0 =>
        \A t \in Templates :
            outcome[t] \in {"success", "skip"} =>
                /\ {ChoiceOf(r) : r \in RulesOf(t)} = decision[t]
                /\ Cardinality(RulesOf(t)) <= 1

=============================================================================
