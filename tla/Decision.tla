------------------------------ MODULE Decision ------------------------------
(***************************************************************************)
(* How a template's rule is decided (BasicOptimizer.optimize_template,     *)
(* optimizer/basic_optimizer.py): candidate plans are collected, each is   *)
(* measured on every sample of the template, and plans that are safe on    *)
(* all samples and gain on one become rules.                               *)
(*                                                                         *)
(* A candidate is known by the plan it had when it was collected; which    *)
(* plan its hints give on another sample, and how long that takes, is the  *)
(* server's choice.  Times are in tenths of a second.                      *)
(***************************************************************************)
EXTENDS Integers, Sequences, FiniteSets, SequencesExt

CONSTANTS
    Sample,        \* the SQL samples of the template, a sequence
    CandidatePlan,
    DefaultPlans,   \* the plans the server chooses without hints
    PlanTimes,     \* possible execution times
    Never,         \* 1e9: the time of a candidate that failed
    Ratio,         \* better_plan_ratio in percent
    MinQueryTime,  \* workload_min_query_time
    MaxCandidates  \* bound of the candidates looked at

ASSUME DecisionAssumption ==
    /\ Sample \in Seq(STRING) /\ Len(Sample) > 0
    /\ IsFiniteSet(CandidatePlan)
    /\ DefaultPlans \subseteq CandidatePlan
    /\ PlanTimes \subseteq Nat
    /\ \A t \in PlanTimes : t < Never
    /\ {Ratio, MinQueryTime, Never, MaxCandidates} \subseteq Nat

VARIABLES
    stage,       \* "idle", "measure", "evaluate", "decide", "decided", "failed"
    outlineType, \* "spm" or "statement_outline"
    extraction,  \* can the instance extract outline hints?
    defaults,    \* the default plan of each sample
    collected,   \* samples whose default plan was collected
    candidates,  \* the candidates, in order
    turn,        \* sample and candidate to evaluate next
    defaultTime, \* measured time of each sample's default plan
    results,     \* sample_results: sample to plan to time
    trials,      \* what each candidate's hints did on each sample
    evaluated,   \* plans in evaluated_logs whose sample's time is no noise
    rules        \* plans of the OPTIMIZE rules, {} for a DEFAULT rule

decisionVars == <<stage, outlineType, extraction, defaults, collected, candidates,
                  turn, defaultTime, results, trials, evaluated, rules>>

Samples == DOMAIN Sample

\* _is_better_plan.
IsBetter(t, default) == default > 0 /\ (default - t) * 100 >= Ratio * default

DecisionInit ==
    /\ stage = "idle"
    /\ outlineType = "spm"
    /\ extraction = TRUE
    /\ defaults = <<>>
    /\ collected = {}
    /\ candidates = <<>>
    /\ turn = <<1, 1>>
    /\ defaultTime = [s \in Samples |-> 0]
    /\ results = [s \in Samples |-> <<>>]
    /\ trials = [s \in Samples |-> <<>>]
    /\ evaluated = {}
    /\ rules = {}

\* LLMOptimizer._collect_additional_candidates: plans the search found enough
\* faster than its baseline.
LlmPlans(elapsed, baseline) ==
    {p \in DOMAIN elapsed : baseline > 0 /\ IsBetter(elapsed[p], baseline)}

\* What the optimizer adds: nothing, plans of enumerated index hints, or those
\* of the search.
AdditionalPlans(optimizer, enumerated, elapsed, baseline) ==
    CASE optimizer = "basic" -> {}
      [] optimizer = "small_model" -> enumerated
      [] optimizer = "llm" -> LlmPlans(elapsed, baseline)

\* _collect_base_candidates and _collect_all_candidates: default plans, plans
\* SPM captured, additional ones; of one plan the first.
Candidates(defaultPlans, captured, additional) ==
    LET Kind(plans, kind) == {[plan |-> p, hints |-> kind] : p \in plans}
        hinted == IF extraction' THEN "outline" ELSE "enumerated"
    IN  SetToSeq(Kind(defaultPlans, IF extraction' THEN "outline" ELSE "none"))
          \o SetToSeq(Kind(captured \ defaultPlans, "outline"))
          \o SetToSeq(Kind(additional \ (captured \cup defaultPlans), hinted))

\* Steps 1 to 3.1 of optimize_template.  With no candidate, or different
\* default plans and one statement outline to give, the rule is DEFAULT.
Collect(known, captured, additional) ==
    /\ extraction' \in BOOLEAN
    /\ outlineType' \in {"spm", "statement_outline"}
    /\ outlineType' # "spm" => captured = {}
    /\ defaults' \in [Samples -> DefaultPlans]
    /\ collected' = known
    /\ LET distinct == {defaults'[s] : s \in known}
       IN  /\ candidates' = Candidates(distinct, captured, additional)
           /\ Len(candidates') <= MaxCandidates
           /\ stage' = IF \/ candidates' = <<>>
                          \/ /\ Cardinality(distinct) > 1
                             /\ outlineType' = "statement_outline"
                       THEN "decided" ELSE "measure"
    /\ UNCHANGED <<turn, defaultTime, results, trials, evaluated, rules>>

\* optimize_template returns None.
Skipped ==
    /\ stage' = "failed"
    /\ turn' = <<1, 1>>
    /\ defaultTime' = [s \in Samples |-> 0]
    /\ results' = [s \in Samples |-> <<>>]
    /\ trials' = [s \in Samples |-> <<>>]
    /\ evaluated' = {}
    /\ UNCHANGED <<outlineType, extraction, defaults, collected, candidates, rules>>

\* Step 4.1: the default plan is measured, with a warm-up run; if that fails
\* the template is skipped.
MeasureDefault ==
    /\ stage = "measure"
    /\ \/ \E t \in PlanTimes :
             /\ defaultTime' = [defaultTime EXCEPT ![turn[1]] = t]
             /\ results' = [results EXCEPT ![turn[1]] =
                              [p \in {defaults[turn[1]]} |-> t]]
             /\ stage' = "evaluate"
             /\ UNCHANGED <<outlineType, extraction, defaults, collected, candidates,
                            turn, trials, evaluated, rules>>
       \/ Skipped

\* timeout_val: half as much again, at most ten seconds more.
TimesOut(t, default) ==
    LET base == IF default > 1 THEN default ELSE 1
    IN  2 * t >= 3 * base \/ t >= base + 100

NextTurn ==
    IF turn[2] < Len(candidates) THEN <<turn[1], turn[2] + 1>> ELSE <<turn[1] + 1, 1>>

\* After the last candidate of a sample the next sample is measured.
Advance ==
    /\ turn' = NextTurn
    /\ stage' = IF turn'[1] > Len(Sample) THEN "decide"
                ELSE IF turn'[2] = 1 THEN "measure" ELSE "evaluate"

\* fields of a function at one more point
Put(f, x, v) == [y \in DOMAIN f \cup {x} |-> IF y = x THEN v ELSE f[y]]

Outcome(s, c, plan, t) ==
    /\ trials' = [trials EXCEPT ![s] =
                    Put(@, c.plan, [default |-> plan = defaults[s], time |-> t])]
    /\ results' = [results EXCEPT ![s] = Put(@, c.plan, t)]

\* _create_* keep the plans one of whose validations had a default time of at
\* least workload_min_query_time.
Evaluated(s, plan) ==
    evaluated' = IF defaultTime[s] >= MinQueryTime THEN evaluated \cup {plan}
                 ELSE evaluated

\* Step 4.2: the plan the hints give on this sample decides whether they are
\* executed.
Evaluate(plan) ==
    /\ stage = "evaluate"
    /\ LET s == turn[1]
           c == candidates[turn[2]]
       IN  /\ c.hints = "none" => plan = defaults[s]
           /\ \/ /\ plan = defaults[s]
                 /\ Outcome(s, c, plan, defaultTime[s])
                 /\ Evaluated(s, plan)
                 /\ Advance
              \/ /\ plan # defaults[s]
                 /\ plan \in DOMAIN results[s]
                 /\ trials' = [trials EXCEPT ![s] =
                        Put(@, c.plan, [default |-> FALSE, time |-> results[s][plan]])]
                 /\ Advance
                 /\ UNCHANGED <<results, evaluated>>
              \/ /\ plan # defaults[s]
                 /\ plan \notin DOMAIN results[s]
                 /\ extraction => plan = c.plan
                 /\ \E t \in PlanTimes \cup {Never} :
                       IF TimesOut(t, defaultTime[s])
                         THEN Outcome(s, c, plan, Never) /\ Evaluated(s, c.plan)
                         ELSE Outcome(s, c, plan, t) /\ Evaluated(s, plan)
                 /\ Advance
    /\ UNCHANGED <<outlineType, extraction, defaults, collected, candidates,
                   defaultTime, rules>>

\* Where hints can be extracted, hints that give another plan than they were
\* extracted from end the work on the template.
UnstableOutline(plan) ==
    /\ stage = "evaluate"
    /\ extraction
    /\ plan \notin DOMAIN results[turn[1]] \cup {defaults[turn[1]], candidates[turn[2]].plan}
    /\ Skipped

\* So does an EXPLAIN of the rewritten statement that fails.
PlanUnknown ==
    /\ stage = "evaluate"
    /\ Skipped

-----------------------------------------------------------------------------
(* Step 5, the decision.                                                   *)

\* A plan is valid on a sample if it is the default or better than it.
Valid(s) ==
    {p \in DOMAIN results[s] :
        \/ p = defaults[s]
        \/ IsBetter(results[s][p], results[s][defaults[s]])}

\* Safe on some sample.
ValidSomewhere == UNION {Valid(s) : s \in Samples}

\* Safe on every sample.
ValidEverywhere == {p \in ValidSomewhere : \A s \in Samples : p \in Valid(s)}

\* has_gain.
Gains(p) ==
    \E s \in Samples :
        /\ p \in DOMAIN results[s]
        /\ p # defaults[s]
        /\ IsBetter(results[s][p], results[s][defaults[s]])

Qualified == {p \in ValidEverywhere : Gains(p)}

\* find_global_best: the fastest of the qualified plans on every sample.
GlobalBest ==
    {p \in Qualified :
        \A s \in Samples : \A o \in Qualified : results[s][p] <= results[s][o]}

\* One best plan; without one, SPM takes all that qualify.
Selection ==
    IF GlobalBest # {} THEN {{p} : p \in GlobalBest}
    ELSE IF outlineType = "spm" THEN {Qualified} ELSE {{}}

Decided ==
    /\ stage = "decide"
    /\ \E selected \in Selection :
          rules' = {p \in selected :
                      p \in evaluated /\ \E i \in DOMAIN candidates : candidates[i].plan = p}
    /\ stage' = "decided"
    /\ UNCHANGED <<outlineType, extraction, defaults, collected, candidates, turn,
                   defaultTime, results, trials, evaluated>>

DecisionNext ==
    \/ /\ stage = "idle"
       /\ \E known \in SUBSET Samples, captured \in SUBSET CandidatePlan,
             optimizer \in {"basic", "small_model", "llm"},
             enumerated \in SUBSET CandidatePlan, baseline \in PlanTimes :
             \E elapsed \in [enumerated -> PlanTimes] :
               Collect(known, captured,
                       AdditionalPlans(optimizer, enumerated, elapsed, baseline))
    \/ MeasureDefault
    \/ \E plan \in CandidatePlan : Evaluate(plan) \/ UnstableOutline(plan)
    \/ PlanUnknown
    \/ Decided

DecisionSpec == DecisionInit /\ [][DecisionNext]_decisionVars

-----------------------------------------------------------------------------
DecisionTypeOK ==
    /\ stage \in {"idle", "measure", "evaluate", "decide", "decided", "failed"}
    /\ rules \subseteq CandidatePlan
    /\ \A s \in Samples : DOMAIN results[s] \subseteq CandidatePlan
    /\ \A i, j \in DOMAIN candidates : candidates[i].plan = candidates[j].plan => i = j

\* A rule never slows a sample down, as measured: on every sample its plan is
\* the default one, or its hints gave the default plan or one measured better;
\* on one sample they did, and a reliable default time stands behind it; a
\* statement outline has one plan and all samples one default.  Results are
\* kept under the plan a candidate had when it was collected, so this needs
\* every sample's default plan among the candidates (optimize_template,
\* "Safety Check (must be safe in ALL samples)").
RulesSafe ==
    stage = "decided" /\ rules # {} /\ collected = Samples =>
        /\ \A p \in rules :
              /\ \A s \in Samples :
                    \/ p = defaults[s] \/ trials[s][p].default
                    \/ IsBetter(trials[s][p].time, defaultTime[s])
              /\ \E s \in Samples : IsBetter(trials[s][p].time, defaultTime[s])
        /\ \E s \in Samples : defaultTime[s] >= MinQueryTime
        /\ outlineType = "statement_outline" =>
              /\ Cardinality(rules) = 1
              /\ \A r, s \in Samples : defaults[r] = defaults[s]
=============================================================================
