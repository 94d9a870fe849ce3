----------------------------- MODULE MctsSearch -----------------------------
(***************************************************************************)
(* The search of one query (mcts/search.py, class MCTSSearch) over its     *)
(* tree (mcts/tree.py) and its cache of plans (mcts/modules/               *)
(* memory_plan_cache.py), up to the result the optimizer receives          *)
(* (mcts/solver.py).                                                       *)
(*                                                                         *)
(* A node is its tag: the positions of the actions (of the bundles, in a   *)
(* warm start) that lead to it from the root, in whose order siblings are  *)
(* executed.  A hint is a member of Hint and has a slot (a table's index,  *)
(* the join prefix or suffix, an optimizer switch): of two hints for one   *)
(* slot deduplicate_hints keeps the later.  A reward is the sign of           *)
(* tanh(ln(baseline / time)).  PUCT scores are left out: selection may     *)
(* take any child that is not terminal.                                    *)
(***************************************************************************)
EXTENDS Integers, Sequences, FiniteSets, SequencesExt

CONSTANTS
    Hint,
    Slot,              \* the slot of each hint
    PlanOf,            \* the plan the optimizer chooses under a set of hints
    Plan,
    DefaultPlan,
    None,              \* Python's None
    Times,             \* execution times a measurement can return
    Baseline,          \* input.baseline_time_seconds
    TimeoutTime,       \* baseline * timeout_amplifier
    Outputs,           \* sets of hints a completion can hold
    Bundles,           \* hint bundles retrieval can find, {} without RAG
    ActionType,        \* the actions in use, a sequence out of "A1".."A6"
    MaxDepth,          \* max_depth
    LimitGlobalDepth,  \* limit_global_depth
    Iterations,        \* iterations
    Threshold,         \* plan_time_threshold_seconds, 0 disables
    TokenBudget        \* estimated_tokens_budget in completions, 0 disables

Reason == {"final_answer", "depth_exceeded", "ineffective_hints", "llm_error",
           "db_execution_error"}

ASSUME SearchAssumption ==
    /\ Slot \in [Hint -> STRING]
    /\ Outputs \subseteq SUBSET Hint
    /\ None \notin Outputs
    /\ Bundles \subseteq SUBSET Hint /\ IsFiniteSet(Bundles)
    /\ ActionType \in Seq({"A1", "A2", "A3", "A4", "A5", "A6"})
    /\ \E i \in DOMAIN ActionType : ActionType[i] = "A6"
    /\ PlanOf \in [SUBSET Hint -> Plan]
    /\ DefaultPlan \in Plan
    /\ PlanOf[{}] = DefaultPlan
    /\ None \notin Plan \cup Nat \cup Reason
    /\ Times \subseteq Nat \ {0}
    /\ Baseline \in Nat \ {0}
    /\ TimeoutTime \in Nat \ {0}
    /\ MaxDepth \in Nat \ {0}
    /\ LimitGlobalDepth \in BOOLEAN
    /\ Iterations \in Nat
    /\ Threshold \in Nat
    /\ TokenBudget \in Nat

VARIABLES
    tree,       \* the nodes: tag to node
    tally,      \* _visit_count and _value_sum of each
    time,       \* plan cache: digest to execution_time_s
    info,       \* plan cache: digest to the rest of its entry
    unsettled,  \* plan cache: _pending
    current,    \* node the rollout stands at
    rollout,    \* rollouts completed
    step,       \* steps begun in this rollout, 0 in a warm start
    phase,      \* what run() does next
    batch,      \* the children of this step
    queue,      \* those still to be executed
    calls,      \* completions requested
    stop,       \* early_stop_reason, "leafless" after a rollout cut short
    result      \* the solutions handed to the optimizer

planCache == <<time, info, unsettled>>
searchVars == <<tree, tally, planCache, current, rollout, step, phase, batch, queue, calls,
          stop, result>>

Root == <<>>

Node == [action : {"A1", "A2", "A3", "A4", "A5", "A6", None},
         status : {"pending", "expanded", "terminal"},
         reason : Reason \cup {None},
         reward : {-1, 0, 1, None},
         own : SUBSET Hint, deleted : SUBSET Hint, executed : SUBSET Hint,
         plan : Plan \cup {None}, elapsed : Nat \cup {None},
         finder : BOOLEAN, rollout : Nat]

NoVisit == [visits |-> 0, value |-> 0]

-----------------------------------------------------------------------------
(* Hints and rewards.                                                      *)

\* deduplicate_hints(earlier + later), both free of duplicate slots.
Override(earlier, later) ==
    {h \in earlier : \A l \in later : Slot[h] # Slot[l]} \cup later

\* compute_reward.
Reward(t) == IF t < Baseline THEN 1 ELSE IF t = Baseline THEN 0 ELSE -1

NegativeReward == -1

-----------------------------------------------------------------------------
(* The tree.                                                               *)

NewNode(action) ==
    [action |-> action, status |-> "pending", reason |-> None, reward |-> None,
     own |-> {}, deleted |-> {}, executed |-> {}, plan |-> None,
     elapsed |-> None, finder |-> FALSE, rollout |-> rollout]

Children(n) == {m \in DOMAIN tree : Len(m) = Len(n) + 1 /\ IsPrefix(n, m)}

IsLeaf(n) == Children(n) = {}

IsTerminal(n) == tree[n].status = "terminal"

Parent(n) == Front(n)

\* get_allowed_actions: each with its position.
AllowedActions(n) ==
    LET node == tree[n]
        Allowed ==
            CASE n = Root -> {"A1", "A2", "A3", "A4", "A6"}
              [] n # Root /\ node.action = "A4" -> {"A1", "A2", "A3", "A6"}
              [] n # Root /\ node.action # "A4" ->
                   IF node.action = "A5" \/ node.own # {} \/ node.deleted # {}
                     THEN {"A1", "A2", "A3", "A4", "A5", "A6"}
                     ELSE {node.action, "A4", "A5", "A6"}
    IN  Restrict(ActionType, {i \in DOMAIN ActionType : ActionType[i] \in Allowed})

WithChildrenOnly(n, actions) ==
    [m \in DOMAIN tree \cup {Append(n, i) : i \in DOMAIN actions} |->
        IF m \notin DOMAIN tree THEN NewNode(actions[Last(m)]) ELSE tree[m]]

\* create_child_nodes and the parent's new status.
WithChildren(n, actions) ==
    [m \in DOMAIN tree \cup {Append(n, i) : i \in DOMAIN actions} |->
        IF m \notin DOMAIN tree THEN NewNode(actions[Last(m)])
        ELSE IF m = n THEN [tree[n] EXCEPT !.status = "expanded"]
        ELSE tree[m]]

Unvisited(nodes) ==
    [n \in nodes |-> IF n \in DOMAIN tally THEN tally[n] ELSE NoVisit]

\* Where the descent of select_leaf from n can end: it passes children that
\* are not terminal and stops where there is none.
Descents(n) ==
    {m \in DOMAIN tree :
        /\ IsPrefix(n, m)
        /\ \A i \in Len(n)+1 .. Len(m) : ~IsTerminal(SubSeq(m, 1, i))
        /\ \A c \in Children(m) : IsTerminal(c)}

\* collect_ancestor_hints replays the changes from the root to the parent:
\* what an ancestor added and none below it deleted.
AncestorHintsKeepDeleted(n) ==
    UNION {tree[SubSeq(n, 1, i)].own : i \in 1 .. Len(n) - 1}

AncestorHints(n) ==
    {h \in Hint :
        \E i \in 1 .. Len(n) - 1 :
            /\ h \in tree[SubSeq(n, 1, i)].own
            /\ \A j \in i+1 .. Len(n) - 1 : h \notin tree[SubSeq(n, 1, j)].deleted}

\* What collect_solutions returns.
Solution(n) ==
    /\ tree[n].executed # {}
    /\ \/ IsTerminal(n) /\ tree[n].reason = "final_answer"
       \/ tree[n].finder

SolutionOf(n) ==
    [hints |-> tree[n].executed, elapsed |-> tree[n].elapsed,
     plan |-> tree[n].plan, reward |-> tree[n].reward]

Solutions == {SolutionOf(n) : n \in {m \in DOMAIN tree : Solution(m)}}

\* convert_search_result_to_dict: per plan the first in the order of falling
\* reward, and every solution without a plan.
ConvertedAll(solutions) == solutions

Converted(solutions) ==
    {s \in solutions : s.plan = None}
      \cup {CHOOSE s \in solutions :
               /\ s.plan = p
               /\ \A o \in solutions : o.plan = p => o.reward <= s.reward :
            p \in {s.plan : s \in solutions} \ {None}}

-----------------------------------------------------------------------------
(* The steps of run().                                                     *)

\* MemoryPlanCache.__init__ and init_baseline.
InitEmpty ==
    /\ time = [p \in {} |-> Baseline]
    /\ info = [p \in {} |-> [first |-> -1, repeats |-> {}, stats |-> <<>>]]
    /\ unsettled = {}

InitBaseline ==
    /\ time = [p \in {DefaultPlan} |-> Baseline]
    /\ info = [p \in {DefaultPlan} |->
                  [first |-> -1, repeats |-> {}, stats |-> <<>>]]
    /\ unsettled = {}

\* MCTSSearch.__init__: the measured baseline seeds the root and the cache.
SearchInit ==
    /\ tree = [n \in {Root} |->
                  [action |-> None, status |-> "expanded", reason |-> None,
                   reward |-> None, own |-> {}, deleted |-> {},
                   executed |-> {}, plan |-> DefaultPlan,
                   elapsed |-> Baseline, finder |-> FALSE, rollout |-> 0]]
    /\ tally = [n \in {Root} |-> NoVisit]
    /\ InitBaseline
    /\ current = Root
    /\ rollout = 0
    /\ step = 0
    /\ phase = "warm"
    /\ batch = {}
    /\ queue = {}
    /\ calls = 0
    /\ stop = None
    /\ result = {}

\* _warm_start_from_rag: a root child per retrieved bundle, filled without a
\* completion.  Without RAG, or if retrieval finds none, there is none.
WarmStart(bundles) ==
    /\ phase = "warm"
    /\ LET grown == WithChildren(Root, [i \in DOMAIN bundles |-> "A5"])
       IN  IF bundles = <<>>
             THEN /\ phase' = "rollout"
                  /\ UNCHANGED <<tree, batch, queue>>
             ELSE /\ tree' = [n \in DOMAIN grown |->
                                IF n = Root THEN grown[n]
                                ELSE [grown[n] EXCEPT !.own = bundles[Last(n)],
                                                      !.executed = bundles[Last(n)]]]
                  /\ batch' = {<<i>> : i \in DOMAIN bundles}
                  /\ queue' = batch'
                  /\ phase' = "execute"
    /\ tally' = Unvisited(DOMAIN tree')
    /\ UNCHANGED <<planCache, current, rollout, step, calls, stop, result>>

\* _run_single_rollout starts at the root; without a rollout left the search
\* is over.
StartRollout ==
    /\ phase = "rollout"
    /\ IF rollout < Iterations
         THEN phase' = "select" /\ current' = Root /\ step' = 0
         ELSE phase' = "finish" /\ UNCHANGED <<current, step>>
    /\ UNCHANGED <<tree, tally, planCache, rollout, batch, queue, calls, stop, result>>

\* select_leaf finds a leaf and it is expanded.
Expand(leaf) ==
    /\ phase = "select"
    /\ leaf \in Descents(current)
    /\ IsLeaf(leaf)
    /\ LET actions == AllowedActions(leaf)
       IN  /\ tree' = WithChildren(leaf, actions)
           /\ tally' = Unvisited(DOMAIN tree')
           /\ batch' = {Append(leaf, i) : i \in DOMAIN actions}
    /\ current' = leaf
    /\ step' = step + 1
    /\ phase' = "generate"
    /\ UNCHANGED <<planCache, rollout, queue, calls, stop, result>>

\* select_leaf returns None: the rollout ends.
NoLeaf ==
    /\ phase = "select"
    /\ \E n \in Descents(current) : ~IsLeaf(n)
    /\ phase' = "check"
    /\ UNCHANGED <<tree, tally, planCache, current, rollout, step, batch, queue, calls,
                   stop, result>>

\* What _generate_and_fill_children makes of a completion; None is a call
\* that failed on every endpoint.
Filled(n, output) ==
    LET node   == tree[n]
        parsed == IF output = None THEN {} ELSE output
        before == AncestorHints(n)
        all    == IF node.action \in {"A5", "A6"} THEN parsed
                  ELSE Override(before, parsed)
        filled == [node EXCEPT !.own = all \ before, !.deleted = before \ all,
                               !.executed = all]
    IN  IF output = None
          THEN [filled EXCEPT !.status = "terminal", !.reason = "llm_error"]
          ELSE filled

\* The completions are requested by threads, but each fills its own node and
\* the main thread waits for all: one action.
Generate ==
    /\ phase = "generate"
    /\ \E output \in [batch -> Outputs \cup {None}] :
          tree' = [n \in DOMAIN tree |->
                      IF n \in batch THEN Filled(n, output[n]) ELSE tree[n]]
    /\ calls' = calls + Cardinality(batch)
    /\ phase' = "filter"
    /\ UNCHANGED <<tally, planCache, current, rollout, step, batch, queue, stop, result>>

\* Within limit_global_depth: a node at max_depth is not expanded.
AtMaxDepth(n) == LimitGlobalDepth /\ Len(n) >= MaxDepth

Unchanged(n) == tree[n].own = {} /\ tree[n].deleted = {}

\* A child whose hints are those of its ancestors is not executed.
Settled(n) ==
    IF AtMaxDepth(n)
      THEN [tree[n] EXCEPT !.status = "terminal", !.reason = "depth_exceeded",
                           !.reward = 0]
      ELSE IF tree[n].action = "A6"
        THEN [tree[n] EXCEPT !.status = "terminal", !.reason = "final_answer",
                             !.reward = NegativeReward, !.elapsed = Baseline]
        ELSE [tree[n] EXCEPT !.reward = 0]

\* _execute_children, the pass that picks the nodes to execute.
Filter ==
    /\ phase = "filter"
    /\ tree' = [n \in DOMAIN tree |->
                  IF n \in batch /\ ~IsTerminal(n) /\ Unchanged(n)
                    THEN Settled(n) ELSE tree[n]]
    /\ queue' = {n \in batch : ~IsTerminal(n) /\ ~Unchanged(n)}
    /\ phase' = "execute"
    /\ UNCHANGED <<tally, planCache, current, rollout, step, batch, calls, stop, result>>

-----------------------------------------------------------------------------
(* _execute_single_node.                                                   *)

\* The next node to execute.
Foremost == {n \in queue : \A m \in queue : Last(n) <= Last(m)}

\* It is done and becomes "node".
Executed(n, node) ==
    /\ phase = "execute"
    /\ tree' = [tree EXCEPT ![n] = node]
    /\ queue' = queue \ {n}
    /\ UNCHANGED <<tally, current, rollout, step, phase, batch, calls, stop, result>>

\* The end of _execute_single_node: reward and status of a node with a time.
Rewarded(n, p, t) ==
    LET node == [tree[n] EXCEPT !.plan = p, !.elapsed = t, !.reward = Reward(t)]
    IN  IF node.action = "A6"
          THEN [node EXCEPT !.status = "terminal", !.reason = "final_answer"]
          ELSE IF AtMaxDepth(n)
            THEN [node EXCEPT !.status = "terminal", !.reason = "depth_exceeded"]
            ELSE node

ExplainFails(n) ==
    /\ Executed(n, [tree[n] EXCEPT !.status = "terminal", !.reason = "db_execution_error"])
    /\ UNCHANGED planCache

\* Below depth 1 a plan equal to the parent's ends the branch.
SamePlanAsParent(n, p) == Len(n) > 1 /\ tree[Parent(n)].plan = p

Ineffective(n) ==
    /\ LET p == PlanOf[tree[n].executed]
       IN  /\ SamePlanAsParent(n, p)
           /\ Executed(n, [tree[n] EXCEPT
                  !.status = "terminal", !.reason = "ineffective_hints",
                  !.reward = 0, !.plan = p,
                  !.elapsed = tree[Parent(n)].elapsed])
    /\ UNCHANGED planCache

LookupThisRollout(p) == p \in DOMAIN time /\ info[p].first = rollout

\* MemoryPlanCache.lookup: is the plan's time known?
Lookup(p) == p \in DOMAIN time

\* lookup succeeds: record_hit notes the rollout once.
CacheHit(n) ==
    /\ LET p == PlanOf[tree[n].executed]
           r == tree[n].rollout
       IN  /\ ~SamePlanAsParent(n, p)
           /\ Lookup(p)
           /\ Executed(n, Rewarded(n, p, time[p]))
           /\ info' = [info EXCEPT ![p].repeats =
                          IF r = info[p].first THEN @ ELSE @ \cup {r}]
    /\ UNCHANGED <<time, unsettled>>

\* execute_and_measure returns a time, or times out, which counts as the
\* timeout's length: register_new.
Measure(n, t) ==
    /\ LET p == PlanOf[tree[n].executed]
       IN  /\ ~SamePlanAsParent(n, p)
           /\ ~Lookup(p)
           /\ Executed(n, [Rewarded(n, p, t) EXCEPT !.finder = TRUE])
           /\ time' = [q \in DOMAIN time \cup {p} |-> IF q = p THEN t ELSE time[q]]
           /\ info' = [q \in DOMAIN info \cup {p} |->
                          IF q = p THEN [first |-> tree[n].rollout,
                                         repeats |-> {}, stats |-> <<>>]
                          ELSE info[q]]
           /\ unsettled' = unsettled \cup {p}

ExecutionFails(n) ==
    /\ LET p == PlanOf[tree[n].executed]
       IN  /\ ~SamePlanAsParent(n, p)
           /\ ~Lookup(p)
           /\ Executed(n, [tree[n] EXCEPT !.status = "terminal", !.plan = p,
                                       !.reason = "db_execution_error"])
    /\ UNCHANGED planCache

-----------------------------------------------------------------------------
(* Backpropagation, early stop, result.                                    *)

\* Does the child pass its reward on to its ancestors?
Propagates(n) ==
    /\ tree[n].reward # None
    /\ \/ IsTerminal(n) /\ tree[n].reason = "final_answer"
       \/ tree[n].finder

BackersAll(n) ==
    {c \in batch : tree[c].reward # None /\ IsPrefix(n, c)}

\* The children of this step whose reward reaches n.
Backers(n) ==
    {c \in batch :
        /\ tree[c].reward # None
        /\ \/ c = n
           \/ Propagates(c) /\ IsPrefix(n, c)}

\* The sum of their rewards, each a sign.
Balance(nodes) ==
    Cardinality({c \in nodes : tree[c].reward = 1})
      - Cardinality({c \in nodes : tree[c].reward = -1})

\* _backpropagate_children, then finalize_stats: plans found in this step get
\* the visit counts of the root's children, once.
Backpropagate ==
    /\ phase = "execute"
    /\ queue = {}
    /\ tally' = [n \in DOMAIN tally |->
                   [visits |-> tally[n].visits + Cardinality(Backers(n)),
                    value |-> tally[n].value + Balance(Backers(n))]]
    /\ info' = [p \in DOMAIN info |->
                  IF p \in unsettled
                    THEN [info[p] EXCEPT !.stats =
                            [n \in Children(Root) |-> tally'[n].visits]]
                    ELSE info[p]]
    /\ unsettled' = {}
    /\ phase' = CASE step = 0 -> "rollout"
                  [] step \in 1 .. MaxDepth - 1 -> "select"
                  [] OTHER -> "check"
    /\ batch' = {}
    /\ UNCHANGED <<tree, time, current, rollout, step, queue, calls, stop, result>>

\* _check_early_stop, after every rollout.
EarlyStop ==
    CASE \E s \in Solutions : s.elapsed < Threshold -> "plan_time"
      [] TokenBudget > 0 /\ calls > TokenBudget -> "estimated_tokens"
      [] OTHER -> None

EndRollout ==
    /\ phase = "check"
    /\ rollout' = rollout + 1
    /\ stop' = EarlyStop
    /\ phase' = IF stop' = None THEN "rollout" ELSE "finish"
    /\ UNCHANGED <<tree, tally, planCache, current, step, batch, queue, calls, result>>

\* The end of run() and convert_search_result_to_dict.
Finish ==
    /\ phase = "finish"
    /\ result' = Converted(Solutions)
    /\ phase' = "done"
    /\ UNCHANGED <<tree, tally, planCache, current, rollout, step, batch, queue, calls, stop>>

SearchNext ==
    \/ \E found \in SUBSET (Bundles \ {{}}) :
          \E bundles \in SetToSeqs(found) : WarmStart(bundles)
    \/ StartRollout
    \/ \E leaf \in DOMAIN tree : Expand(leaf)
    \/ NoLeaf
    \/ Generate
    \/ Filter
    \/ \E n \in Foremost :
          \/ ExplainFails(n)
          \/ Ineffective(n)
          \/ CacheHit(n)
          \/ \E t \in Times \cup {TimeoutTime} : Measure(n, t)
          \/ ExecutionFails(n)
    \/ Backpropagate
    \/ EndRollout
    \/ Finish

SearchSpec == SearchInit /\ [][SearchNext]_searchVars

-----------------------------------------------------------------------------
(* Properties.                                                             *)

\* Every variable has its type: the tree is closed under parents, a node
\* without children is not expanded, and cache entries agree.
SearchTypeOK ==
    /\ tree \in [DOMAIN tree -> Node]
    /\ tally \in [DOMAIN tree -> [visits : Nat, value : Int]]
    /\ Root \in DOMAIN tree
    /\ \A n \in DOMAIN tree \ {Root} :
          /\ Parent(n) \in DOMAIN tree
          /\ tree[n].status \in {"pending", "expanded", "terminal"}
          /\ IsLeaf(n) <=> tree[n].status # "expanded"
          /\ tree[n].reason # None <=> IsTerminal(n)
    /\ time \in [DOMAIN info -> Nat]
    /\ DOMAIN info \subseteq Plan
    /\ \A p \in DOMAIN info : info[p].first \in -1 .. Iterations
    /\ unsettled \subseteq DOMAIN info
    /\ current \in DOMAIN tree
    /\ rollout \in 0 .. Iterations
    /\ step \in 0 .. MaxDepth
    /\ queue \subseteq batch
    /\ batch \subseteq DOMAIN tree

\* Hints are kept per node as changes to its ancestors'.  Replayed they give
\* what was executed at the node, so that the next step builds on it, also
\* after an A5 dropped hints or a later hint took a slot
\* (_generate_and_fill_children and collect_ancestor_hints).
TrailGivesHints ==
    \A n \in DOMAIN tree :
        (phase = "generate" => n \notin batch) =>
            AncestorHints(Append(n, 1)) = tree[n].executed

\* A plan has one time: nodes that ended up with the same plan report the
\* same time, however each of them got it (measured, cached, timed out, or
\* copied from the parent).
OneTimePerPlan ==
    \A m, n \in DOMAIN tree :
        tree[m].plan = tree[n].plan /\ tree[m].elapsed # None
          /\ tree[n].elapsed # None /\ tree[m].plan # None
            => tree[m].elapsed = tree[n].elapsed

\* Statistics are conserved: whatever the order of rollouts, a node was
\* visited once by itself, if it got a reward, and once per node below it
\* that found a new plan or answered, and its value is the sum of their
\* rewards (_backpropagate_children).
VisitsConserved ==
    phase \in {"rollout", "select", "check", "finish", "done"} =>
        \A n \in DOMAIN tree :
            LET visitors == {m \in DOMAIN tree :
                               /\ tree[m].reward # None
                               /\ \/ m = n
                                  \/ Propagates(m) /\ IsPrefix(n, m)}
            IN  tally[n] = [visits |-> Cardinality(visitors),
                            value |-> Balance(visitors)]

\* The optimizer gets every plan the search found, once, with its time; what
\* it gets besides are answers that changed nothing and were not executed.
ResultComplete ==
    phase = "done" =>
        /\ \A p \in DOMAIN time \ {DefaultPlan} :
              Cardinality({s \in result : s.plan = p}) = 1
        /\ \A s \in result :
              s.elapsed = IF s.plan = None THEN Baseline ELSE time[s.plan]

\* The cache of plans is a PlanTable: a plan is measured once, and what was
\* measured is never replaced.
Table == INSTANCE PlanTable WITH known <- time, Time <- Times \cup {TimeoutTime}

WriteOnce == Table!Spec
=============================================================================
