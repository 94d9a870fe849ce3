------------------------------ MODULE SpmApply ------------------------------
(***************************************************************************)
(* Applying decided rules through SPM baselines: SPMRuleApplier and the    *)
(* SPMOperator calls it makes (optimizer/spm_operator.py), the blacklist   *)
(* filter of the task that produced the rules (task/task_executor.py) and  *)
(* the management plane's disable, which ends in                           *)
(* scripts/reset_rule_state.py.                                            *)
(*                                                                         *)
(* One action is one call to the online instance or to the metadata        *)
(* database, because every one of them can fail, lose its reply, or be the *)
(* last one before the process dies.  A task is one run of the executor:   *)
(* it loads its workload and long afterwards applies the rules it decided; *)
(* tasks of an instance follow one another.                                *)
(***************************************************************************)
EXTENDS Naturals, FiniteSets, RuleState

CONSTANTS
    Templates,    \* SQL templates, the pairs (db, digest)
    Plans,        \* plan ids
    DefaultPlan,  \* the plan the optimizer picks without any rule
    NoTemplate,
    NoPlan,
    PlanDrift,    \* may an added baseline get another plan id than trained?
    MaxTasks,     \* bound: tasks started in a behaviour
    MaxFaults     \* bound: failed calls, crashes and evictions in a behaviour

ASSUME SpmAssumption ==
    /\ IsFiniteSet(Plans)
    /\ DefaultPlan \in Plans
    /\ NoTemplate \notin Templates
    /\ NoPlan \notin Plans
    /\ PlanDrift \in BOOLEAN
    /\ MaxTasks \in Nat
    /\ MaxFaults \in Nat

VARIABLES
    captured,  \* online: baselines that exist, per template
    accepted,  \* online: baselines with ACCEPTED = YES
    enabled,   \* online: baselines with ENABLED = YES
    latest,    \* metadata: get_latest_state of each template
    blacklist, \* metadata: templates with an enabled blacklist row
    mgmt,      \* the management plane's disable in progress
    pc,        \* where the applier is
    todo,      \* templates of this task, then those still to be applied
    decision,  \* plans decided for each template; {} is a DEFAULT decision
    tpl,       \* template being applied
    op,        \* operation decided for it
    pending,   \* plans still to reject, then rules still to apply
    plan,      \* rule being applied
    outcome,   \* what the last application of a template returned
    tasks,     \* tasks started so far
    faults     \* faults so far

online == <<captured, accepted, enabled>>
task   == <<todo, decision, tpl, op, pending, plan>>
vars   == <<online, latest, blacklist, mgmt, pc, task, outcome, tasks, faults>>

\* The plans the online optimizer uses for a template.
InUse(t) == accepted[t] \cap enabled[t]

NoMgmt == [step |-> "idle", tpl |-> NoTemplate, op |-> "noop"]

ApplyPhase == {"list", "reject", "rule", "add", "accept", "enable", "record"}

MgmtOn(t) == mgmt.step # "idle" /\ mgmt.tpl = t

-----------------------------------------------------------------------------
TypeOK ==
    /\ captured \in [Templates -> SUBSET Plans]
    /\ accepted \in [Templates -> SUBSET Plans]
    /\ enabled \in [Templates -> SUBSET Plans]
    /\ latest \in [Templates -> StateOver(Plans)]
    /\ blacklist \in SUBSET Templates
    /\ mgmt \in [step : {"idle", "online", "script", "record"},
                 tpl : Templates \cup {NoTemplate}, op : {"reset", "noop"}]
    /\ pc \in {"idle", "training", "next"} \cup ApplyPhase
    /\ todo \in SUBSET Templates
    /\ decision \in [Templates -> SUBSET Plans]
    /\ tpl \in Templates \cup {NoTemplate}
    /\ op \in Operation
    /\ pending \in SUBSET Plans
    /\ plan \in Plans \cup {NoPlan}
    /\ outcome \in [Templates -> {"none", "success", "skip", "fail"}]
    /\ tasks \in 0..MaxTasks
    /\ faults \in 0..MaxFaults

\* Before the first task the instance may hold any captured baselines; the
\* optimizer's own plan is the only one that can already be accepted.
Init ==
    /\ captured \in [Templates -> SUBSET Plans]
    /\ accepted = [t \in Templates |-> captured[t] \cap {DefaultPlan}]
    /\ enabled = captured
    /\ latest = [t \in Templates |-> NoState]
    /\ blacklist = {}
    /\ mgmt = NoMgmt
    /\ pc = "idle"
    /\ todo = {}
    /\ decision = [t \in Templates |-> {}]
    /\ tpl = NoTemplate
    /\ op = "noop"
    /\ pending = {}
    /\ plan = NoPlan
    /\ outcome = [t \in Templates |-> "none"]
    /\ tasks = 0
    /\ faults = 0

-----------------------------------------------------------------------------
Fault == /\ faults < MaxFaults
         /\ faults' = faults + 1

\* Mutant: only a successful template is taken off the batch.
LeaveUnlessDone(result) ==
    /\ outcome' = [outcome EXCEPT ![tpl] = result]
    /\ todo' = IF result = "success" THEN todo \ {tpl} ELSE todo
    /\ tpl' = NoTemplate
    /\ op' = "noop"
    /\ pending' = {}
    /\ plan' = NoPlan
    /\ pc' = "next"
    /\ UNCHANGED decision

\* Leave the template: its rules are done or given up.
Leave(result) ==
    /\ outcome' = [outcome EXCEPT ![tpl] = result]
    /\ todo' = todo \ {tpl}
    /\ decision' = [decision EXCEPT ![tpl] = {}]
    /\ tpl' = NoTemplate
    /\ op' = "noop"
    /\ pending' = {}
    /\ plan' = NoPlan
    /\ pc' = "next"

\* Mutant: the blacklist is not read.
EveryTemplate == Templates

\* Templates whose workload survives the blacklist filter of a task.
Eligible == Templates \ blacklist

\* A training task loads its workload and filters it with the blacklist, the
\* only time it reads it.
BeginTask ==
    /\ pc = "idle"
    /\ tasks < MaxTasks
    /\ todo' = Eligible
    /\ tasks' = tasks + 1
    /\ pc' = "training"
    /\ UNCHANGED <<online, latest, blacklist, mgmt, decision, tpl, op, pending,
                   plan, outcome, faults>>

\* Training is over, perhaps interrupted, and there are rules for some of the
\* templates loaded; a plan is only decided when it beats the default one.
BeginApplying ==
    /\ pc = "training"
    /\ \E batch \in SUBSET todo :
          /\ todo' = batch
          /\ decision' \in [Templates -> SUBSET (Plans \ {DefaultPlan})]
          /\ \A t \in Templates \ batch : decision'[t] = {}
    /\ pc' = "next"
    /\ UNCHANGED <<online, latest, blacklist, mgmt, tpl, op, pending, plan,
                   outcome, tasks, faults>>

\* get_latest_state and decide_operation for the next template; the SPM
\* applier passes no timeouts.
ReadState(t) ==
    /\ pc = "next"
    /\ t \in todo
    /\ tpl' = t
    /\ op' = DecideOperation(latest[t], decision[t], decision[t] = {}, {}, {})
    /\ pc' = IF op' = "noop" THEN "record" ELSE "list"
    /\ outcome' = [outcome EXCEPT ![t] = "none"]
    /\ UNCHANGED <<online, latest, blacklist, mgmt, todo, decision, pending,
                   plan, tasks, faults>>

\* Mutant: only the plans of the current record are rejected.
RecordedBaselines(t) == latest[t].plans

\* get_all_baselines of the template.
AllBaselines(t) == captured[t]

\* reject_all_baselines reads the baselines it is going to reject.
ListBaselines ==
    /\ pc = "list"
    /\ pending' = AllBaselines(tpl)
    /\ pc' = "reject"
    /\ UNCHANGED <<online, latest, blacklist, mgmt, todo, decision, tpl, op,
                   plan, outcome, tasks, faults>>

\* Mutant: the loop over the baselines ends with the first reject that fails.
RejectStopping(p) ==
    /\ pc = "reject"
    /\ p \in pending
    /\ \/ /\ accepted' = [accepted EXCEPT ![tpl] = @ \ {p}]
          /\ pending' = pending \ {p}
          /\ UNCHANGED faults
       \/ /\ Fault
          /\ pending' = {}
          /\ UNCHANGED accepted
    /\ UNCHANGED <<captured, enabled, latest, blacklist, mgmt, pc, todo,
                   decision, tpl, op, plan, outcome, tasks>>

\* One reject_baseline; the call on a baseline that is gone fails without
\* effect, and so may any other: the loop swallows the exception.
RejectBaseline(p) ==
    /\ pc = "reject"
    /\ p \in pending
    /\ pending' = pending \ {p}
    /\ \/ /\ accepted' = [accepted EXCEPT ![tpl] = @ \ {p}]
          /\ UNCHANGED faults
       \/ /\ Fault
          /\ UNCHANGED accepted
    /\ UNCHANGED <<captured, enabled, latest, blacklist, mgmt, pc, todo,
                   decision, tpl, op, plan, outcome, tasks>>

\* All rejects tried: a reset is recorded, an optimization adds its rules.
EndReject ==
    /\ pc = "reject"
    /\ pending = {}
    /\ pending' = decision[tpl]
    /\ pc' = IF op = "reset" THEN "record" ELSE "rule"
    /\ UNCHANGED <<online, latest, blacklist, mgmt, todo, decision, tpl, op,
                   plan, outcome, tasks, faults>>

\* For each OPTIMIZE rule: does the baseline exist already?
LookupBaseline(p) ==
    /\ pc = "rule"
    /\ p \in pending
    /\ plan' = p
    /\ pc' = IF p \in captured[tpl] THEN "accept" ELSE "add"
    /\ UNCHANGED <<online, latest, blacklist, mgmt, todo, decision, tpl, op,
                   pending, outcome, tasks, faults>>

EndRules ==
    /\ pc = "rule"
    /\ pending = {}
    /\ pc' = "record"
    /\ UNCHANGED <<online, latest, blacklist, mgmt, task, outcome, tasks,
                   faults>>

\* The effect of EXPLAIN txsql_spm type=apply: the online optimizer plans the
\* hinted text and stores that plan as an accepted, enabled baseline.
StoreBaseline(q) ==
    /\ captured' = [captured EXCEPT ![tpl] = @ \cup {q}]
    /\ accepted' = [accepted EXCEPT ![tpl] = @ \cup {q}]
    /\ enabled' = [enabled EXCEPT ![tpl] = @ \cup {q}]

\* The plan the hinted text gets on the online instance.
HintedPlan == IF PlanDrift THEN Plans ELSE {plan}

\* add_baseline_from_sql returns True, then the rule's plan id is enabled.
AddBaseline ==
    /\ pc = "add"
    /\ \E q \in HintedPlan : StoreBaseline(q)
    /\ pc' = "enable"
    /\ UNCHANGED <<latest, blacklist, mgmt, task, outcome, tasks, faults>>

\* add_baseline_from_sql returns False, with or without having had its
\* effect: the applier falls back to accepting the plan.
AddFails ==
    /\ pc = "add"
    /\ Fault
    /\ \/ \E q \in HintedPlan : StoreBaseline(q)
       \/ UNCHANGED online
    /\ pc' = "accept"
    /\ UNCHANGED <<latest, blacklist, mgmt, task, outcome, tasks>>

\* accept_baseline; it raises when the baseline does not exist.
AcceptBaseline ==
    /\ pc = "accept"
    /\ IF plan \in captured[tpl]
       THEN /\ accepted' = [accepted EXCEPT ![tpl] = @ \cup {plan}]
            /\ pc' = "enable"
            /\ UNCHANGED <<task, outcome>>
       ELSE Leave("fail") /\ UNCHANGED accepted
    /\ UNCHANGED <<captured, enabled, latest, blacklist, mgmt, tasks, faults>>

\* enable_baseline ends the rule; it raises when the baseline does not exist.
EnableBaseline ==
    /\ pc = "enable"
    /\ IF plan \in captured[tpl]
       THEN /\ enabled' = [enabled EXCEPT ![tpl] = @ \cup {plan}]
            /\ pending' = pending \ {plan}
            /\ plan' = NoPlan
            /\ pc' = "rule"
            /\ UNCHANGED <<todo, decision, tpl, op, outcome>>
       ELSE Leave("fail") /\ UNCHANGED enabled
    /\ UNCHANGED <<captured, accepted, latest, blacklist, mgmt, tasks, faults>>

\* record_operation, after the online effects; a noop counts as a skip.
Record ==
    /\ pc = "record"
    /\ latest' = RecordOperation(latest, tpl, op, decision[tpl])
    /\ Leave(IF op = "noop" THEN "skip" ELSE "success")
    /\ UNCHANGED <<online, blacklist, mgmt, tasks, faults>>

EndTask ==
    /\ pc = "next"
    /\ todo = {}
    /\ pc' = "idle"
    /\ UNCHANGED <<online, latest, blacklist, mgmt, task, outcome, tasks,
                   faults>>

-----------------------------------------------------------------------------
(* Failures of the calls whose exceptions apply_rules catches per template. *)

\* The state of the next template cannot be read.
ReadStateFails(t) ==
    /\ pc = "next"
    /\ t \in todo
    /\ Fault
    /\ todo' = todo \ {t}
    /\ decision' = [decision EXCEPT ![t] = {}]
    /\ outcome' = [outcome EXCEPT ![t] = "fail"]
    /\ UNCHANGED <<online, latest, blacklist, mgmt, pc, tpl, op, pending, plan,
                   tasks>>

\* Mutant: a failing accept or enable is swallowed like a failing reject.
AlterFailsSilently ==
    /\ pc \in {"accept", "enable"}
    /\ Fault
    /\ pending' = pending \ {plan}
    /\ plan' = NoPlan
    /\ pc' = "rule"
    /\ UNCHANGED <<online, latest, blacklist, mgmt, todo, decision, tpl, op,
                   outcome, tasks>>

\* A listing, accept, enable or record raises without having had an effect.
CallFails ==
    /\ pc \in {"list", "rule", "accept", "enable", "record"}
    /\ Fault
    /\ Leave("fail")
    /\ UNCHANGED <<online, latest, blacklist, mgmt, tasks>>

\* The call had its effect but its reply was lost, and the call raises.
ReplyLost ==
    /\ Fault
    /\ \/ /\ pc = "accept"
          /\ plan \in captured[tpl]
          /\ accepted' = [accepted EXCEPT ![tpl] = @ \cup {plan}]
          /\ UNCHANGED <<enabled, latest>>
       \/ /\ pc = "enable"
          /\ plan \in captured[tpl]
          /\ enabled' = [enabled EXCEPT ![tpl] = @ \cup {plan}]
          /\ UNCHANGED <<accepted, latest>>
       \/ /\ pc = "record"
          /\ latest' = RecordOperation(latest, tpl, op, decision[tpl])
          /\ UNCHANGED <<accepted, enabled>>
    /\ Leave("fail")
    /\ UNCHANGED <<captured, blacklist, mgmt, tasks>>

\* The executor process dies; nothing of the task survives it.
Crash ==
    /\ pc # "idle"
    /\ Fault
    /\ pc' = "idle"
    /\ todo' = {}
    /\ decision' = [t \in Templates |-> {}]
    /\ tpl' = NoTemplate
    /\ op' = "noop"
    /\ pending' = {}
    /\ plan' = NoPlan
    /\ UNCHANGED <<online, latest, blacklist, mgmt, outcome, tasks>>

-----------------------------------------------------------------------------
(* Other programs that act on the same baselines. *)

\* SPM auto-capture, or another program, stores a plan it has not accepted.
Capture(t, p) ==
    /\ p \notin captured[t]
    /\ captured' = [captured EXCEPT ![t] = @ \cup {p}]
    /\ enabled' = [enabled EXCEPT ![t] = @ \cup {p}]
    /\ UNCHANGED <<accepted, latest, blacklist, mgmt, pc, task, outcome, tasks,
                   faults>>

\* A baseline that is not accepted is deleted by another process.
Evict(t, p) ==
    /\ p \in captured[t] \ accepted[t]
    /\ Fault
    /\ captured' = [captured EXCEPT ![t] = @ \ {p}]
    /\ enabled' = [enabled EXCEPT ![t] = @ \ {p}]
    /\ UNCHANGED <<accepted, latest, blacklist, mgmt, pc, task, outcome, tasks>>

\* Disabling a template, step 1: blacklist it, also while a task trains it.
MgmtBlacklist(t) ==
    /\ mgmt = NoMgmt
    /\ t \notin blacklist
    /\ blacklist' = blacklist \cup {t}
    /\ mgmt' = [step |-> "online", tpl |-> t, op |-> "noop"]
    /\ UNCHANGED <<online, latest, pc, task, outcome, tasks, faults>>

\* Step 2: reject and disable every baseline of the template, once
\* task_progress shows no active training.
MgmtClear ==
    /\ mgmt.step = "online"
    /\ pc = "idle"
    /\ accepted' = [accepted EXCEPT ![mgmt.tpl] = {}]
    /\ enabled' = [enabled EXCEPT ![mgmt.tpl] = {}]
    /\ mgmt' = [mgmt EXCEPT !.step = "script"]
    /\ UNCHANGED <<captured, latest, blacklist, pc, task, outcome, tasks,
                   faults>>

\* Mutant: the script does not find the template's state.
ScriptOperationBlind == DecideOperation(NoState, {}, TRUE, {}, {})

ScriptOperation == DecideOperation(latest[mgmt.tpl], {}, TRUE, {}, {})

\* Step 4, reset_rule_state.py: read the state and decide with is_reset.
ScriptDecide ==
    /\ mgmt.step = "script"
    /\ mgmt' = [mgmt EXCEPT !.step = "record", !.op = ScriptOperation]
    /\ UNCHANGED <<online, latest, blacklist, pc, task, outcome, tasks, faults>>

ScriptRecord ==
    /\ mgmt.step = "record"
    /\ latest' = RecordOperation(latest, mgmt.tpl, mgmt.op, {})
    /\ mgmt' = NoMgmt
    /\ UNCHANGED <<online, blacklist, pc, task, outcome, tasks, faults>>

\* The script exits with an error, its row written or not, and the management
\* plane runs it again.
ScriptFails ==
    /\ mgmt.step = "record"
    /\ Fault
    /\ mgmt' = [mgmt EXCEPT !.step = "script", !.op = "noop"]
    /\ \/ UNCHANGED latest
       \/ latest' = RecordOperation(latest, mgmt.tpl, mgmt.op, {})
    /\ UNCHANGED <<online, blacklist, pc, task, outcome, tasks>>

\* Enabling only lifts the blacklist row.
MgmtEnable(t) ==
    /\ t \in blacklist
    /\ ~MgmtOn(t)
    /\ blacklist' = blacklist \ {t}
    /\ UNCHANGED <<online, latest, mgmt, pc, task, outcome, tasks, faults>>

-----------------------------------------------------------------------------
Applier ==
    \/ BeginApplying
    \/ \E t \in Templates : ReadState(t)
    \/ ListBaselines
    \/ \E p \in Plans : RejectBaseline(p) \/ LookupBaseline(p)
    \/ EndReject
    \/ EndRules
    \/ AddBaseline
    \/ AcceptBaseline
    \/ EnableBaseline
    \/ Record
    \/ EndTask

Failure ==
    \/ \E t \in Templates : ReadStateFails(t)
    \/ AddFails
    \/ CallFails
    \/ ReplyLost
    \/ Crash

Script == ScriptDecide \/ ScriptRecord

External ==
    \/ \E t \in Templates, p \in Plans : Capture(t, p) \/ Evict(t, p)
    \/ \E t \in Templates : MgmtBlacklist(t) \/ MgmtEnable(t)
    \/ MgmtClear
    \/ Script
    \/ ScriptFails

Next == BeginTask \/ Applier \/ Failure \/ External

Spec == Init /\ [][Next]_vars

\* The applier and the script are sequential programs that keep running; the
\* management plane finishes what it began.  Nothing makes it begin.
FairSpec == Spec /\ WF_vars(Applier) /\ WF_vars(MgmtClear) /\ WF_vars(Script)

-----------------------------------------------------------------------------
(* Properties. *)

\* The template is not being applied, and not between its baselines being
\* cleared and its state being reset.
AtRest(t) == tpl # t /\ ~(mgmt.step \in {"script", "record"} /\ mgmt.tpl = t)

\* An application that reported success stays true: the plans it recorded are
\* in force until the template is applied again or disabled, whatever calls
\* failed meanwhile and wherever tasks died (_apply_template_rules records
\* after the accepts and enables, which raise).  Where plans drift another
\* program can have captured the trained plan without accepting it.
SuccessLasts ==
    ~PlanDrift =>
        \A t \in Templates :
            outcome[t] = "success" /\ HasCurrentRule(latest[t]) /\ AtRest(t)
                => latest[t].plans \subseteq InUse(t)

\* After a reported success at most as many unrecorded plans are in force as
\* calls failed: one per reject that was swallowed (reject_all_baselines goes on
\* with the others), however many plans earlier tasks had accepted.
LeftoversAreFailures ==
    ~PlanDrift =>
        \A t \in Templates :
            outcome[t] = "success" /\ AtRest(t)
                => Cardinality(InUse(t) \ latest[t].plans) <= faults

\* What a reported success says of the instance: the recorded plans are in force,
\* and beside them no more than one for each failure.
SuccessAccounted == SuccessLasts /\ LeftoversAreFailures

\* A template the management plane disabled is left alone: while blacklisted
\* no plan of it is in force and its state is DEFAULT, although a task may have
\* read the blacklist before, tasks for other templates run, captures go on and
\* calls fail.
BlacklistedQuiescent ==
    \A t \in blacklist :
        ~MgmtOn(t) => InUse(t) = {} /\ ~HasCurrentRule(latest[t])

\* As long as nothing failed and added baselines get the trained plan's id,
\* the metadata tells the truth: a template at rest has exactly the recorded
\* plans in force, none after a reset.
OnlineMatchesRecord ==
    ~PlanDrift /\ faults = 0 =>
        \A t \in Templates :
            AtRest(t) /\ latest[t] # NoState => InUse(t) = latest[t].plans

\* Operations alternate as the decision matrix says, although the row is
\* written long after the state was read and two programs write rows: a setup
\* only from DEFAULT, a modify only to other plans, a reset only from ACTIVE.
HistoryAlternates ==
    [][\A t \in Templates : latest'[t] # latest[t] =>
          \/ latest'[t].op = "setup_plan" /\ ~HasCurrentRule(latest[t])
          \/ /\ latest'[t].op = "modify_plan"
             /\ HasCurrentRule(latest[t])
             /\ latest'[t].plans # latest[t].plans
          \/ /\ latest'[t].op = "reset"
             /\ HasCurrentRule(latest[t])
             /\ latest'[t].plans = {}]_vars

\* A template is applied at most once by a task, and a failing template does
\* not keep apply_rules from the others: every task's batch is used up.
BatchFinishes == pc # "idle" ~> pc = "idle"

\* Disabling a template takes effect although tasks, captures and script
\* failures go on around it.
DisableTakesEffect ==
    \A t \in Templates :
        MgmtOn(t) ~> InUse(t) = {} /\ ~HasCurrentRule(latest[t])

-----------------------------------------------------------------------------
(* What a document says and the code does not do. *)

\* docs/DESIGN_latest.md on noop: the rule is completely the same.  Yet the
\* record the decision compares with can be out of date: the plans it names
\* were rejected by an application that failed halfway.
NoopMeansSamePlans ==
    pc = "record" /\ op = "noop" /\ decision[tpl] # {}
        => decision[tpl] \subseteq InUse(tpl)

=============================================================================
