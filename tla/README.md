# A TLA+ model of the AIOPT executor

AIOPT trains execution plans for slow SQL templates on a training node, decides
per template whether another plan beats the default one, and applies the
decision as a plan-intervention rule on the master of the online instance.
This directory holds the specifications kept beside that code: modules that
model it, TLC configurations that check them on small instances, and proofs of
the theorems that hold for every instance.

1. [The system](#1-the-system)
2. [Modules](#2-modules)
3. [Runs](#3-runs)
4. [Proofs](#4-proofs)
5. [Where documents and code disagree](#5-where-documents-and-code-disagree)
6. [What is not modelled](#6-what-is-not-modelled)
7. [Plan](#7-plan)

Run a check with `tlc -workers 2 -config MCSpmApply_faults.cfg MCSpmApply`, the
proofs of a module with `tlapm SpmApply_proofs.tla`, and so on for each
`..._proofs.tla`.

## 1. The system

### Components, their state and their operations

| Component (source) | State | Operations |
|---|---|---|
| Training executor (`task/task_executor.py`) | its position (stage), the SIGUSR1 flag, the workload left, generated rules, counters; all lost when it dies | one task: find a task to resume, load and filter the workload, stop at the checkpoint, run the pool, apply, record |
| Parallel pool (`task/parallel_pool_manager.py`, `task/parallel_worker.py`) | executor object, futures, abort flag, worker processes | submit, collect with a callback per result, abort from a signal handler, shut down |
| Resume metadata (`controller/execution_history_controller.py`, `workload_controller.py`, `rules_controller.py`, `task_progress_controller.py`) | history rows, workload rows with `is_processed`, rules, progress rows | newest row, interrupted chain, processed templates; inserts and upserts |
| Rule state (`controller/rule_state_controller.py`) | `rule_state_history`: who bound which plans when | latest state, decision matrix, record, two history queries |
| SPM applier (`optimizer/spm_operator.py`) | baselines of the online instance: captured, accepted, enabled | reject all, add from SQL, accept, enable, record |
| Outline applier (`optimizer/statement_outline_operator.py`) | AI rules of the online instance, under ids | show, delete, add, record |
| Blacklist and reset script (`controller/blacklist_controller.py`, `scripts/reset_rule_state.py`) | blacklist rows | the management plane's disable and enable; reading it when a task loads its workload |
| Decision (`optimizer/basic_optimizer.py`) | none | from measured plans of all samples to a DEFAULT or OPTIMIZE rule |
| MCTS search (`mcts/`) | tree, visited plans, budget | select, expand, simulate, backpropagate, stop early |
| LLM client (`mcts/modules/llm_client.py`) | endpoint cooldowns | complete with failover |
| Plan caches (`mcts/modules/*_plan_cache.py`, `remote_cache_manager.py`) | plans and hints by digest, shared by workers | look up, insert, extend |
| RAG store (`mcts/rag/store.py`) | vectors, metadata, index files | add, save, load, search |
| Perfmon (`perfmon/`) | periods per rule, metrics | derive periods from the state history, compare |
| Database access (`db_controller.py`) | a connection per thread | execute, reconnect and execute again |
| Workload (`workload/`, `workload_controller.py`) | rows in memory, table `workload` | query with retries, filter, compute digests, restrict, save |
| Batch drivers (`mcts_scripts/benchmark/benchmark_runner.py` and two shorter relatives) | task and result queues, worker processes, the validation's rounds | take, report, collect, shut down, validate behind a barrier |
| Training samples (`mcts_scripts/sft_data/run_posterior_correction.py`) | two files that are appended to | choose samples, judge them, resume |
| Program entry, logging, configuration, analysis scripts | — | not modelled, see section 6 |

### How they interact

A task is one process. The executor calls controllers, which write the metadata
database; it forks worker processes, whose results reach a callback in the main
thread; it calls one of the two appliers, which call the online instance and
the rule state. SIGUSR1 runs a handler between any two steps of the main
thread: the executor's handler sets a flag, the pool manager's, installed while
the pool runs, aborts the pool. What outlives a task is in the metadata
database and on the online instance, and the next task of the node reads it.
The management plane acts on the same tables and baselines from outside: it
disables a template by blacklisting it, rejecting its baselines and running the
reset script.

### What is hard, and what makes it correct

* **Applying** is a sequence of calls without a transaction, on an instance
  other programs change. A call fails, loses its reply or is the last one.
  Correct is: a reported success is and stays true; the recorded history
  alternates; a disabled template is left alone; a failing template neither
  stops the others nor is applied twice; rules do not pile up.
* **Signals** come at any moment, under three handlers. Correct is: a signal is
  not overlooked, the pool leaves no worker behind, the task ends, and what it
  stored is applied.
* **Resuming** joins tasks through what they happened to write. Correct is: a
  round of tasks covers every template once it is reported complete, and
  progress stays within the workload.
* **Deciding** must never accept a plan slower than the default on any sample.
* **Searching** replays hints along a path, counts visits and shares what it
  measured between nodes, for many rollouts. Correct is: a node's hints are
  those its path gives, no plan has two times, and no plan is lost.
* **Caching** is shared by processes without transactions, under caps that
  differ. Correct is: what the cache says is true, whoever wrote it.
* **Completing** rotates endpoints that fail, for several threads at once.
  Correct is: a round of retries is not spent in vain, and a request ends.
* **Statements** survive lost connections. Correct is: the caller can tell how
  often one was executed, and it ran in its database and under its limit.
* **The RAG store and the sample files** are saved piece by piece by processes
  that die. Correct is: what is read back belongs together, and what a death
  costs is bounded.
* **Loading a workload** retries, falls back and skips. Correct is: what is
  stored is safe and what was asked for.
* **Batches** must account for every query although workers are killed, and
  compare instances after the same number of rounds.
* **Perfmon** derives periods from a history that grows meanwhile: one open
  period per template at most, closed ones untouched.

`PROJECT.json` lists every such hazard at its line, with the properties that
catch it, and the components with what is and is not modelled.

## 2. Modules

| Module | Models | Kind |
|---|---|---|
| `RuleState` | `rule_state_controller.py` | operators shared by the appliers |
| `SpmApply` | `spm_operator.py`, the blacklist filter, a disable with `reset_rule_state.py` | state machine |
| `SpmApply_proofs` | | theorems about `SpmApply` |
| `OutlineApply` | `statement_outline_operator.py` | state machine |
| `OutlineApply_proofs` | | theorems about `OutlineApply` |
| `TrainingRounds` | what resuming promises of the tasks of a node | abstract specification |
| `TrainingTask` | `task_executor.py`, the pool, the resume metadata | state machine, implements `TrainingRounds` |
| `TrainingTask_proofs` | | theorems about `TrainingTask`, the refinement among them |
| `PerfMon` | `performance_comparator.py`, `update_metrics.py`, `perf_metrics_controller.py` | state machine |
| `PerfMon_proofs` | | theorems about `PerfMon` |
| `PlanTable` | what a search's cache of plans promises | abstract specification |
| `MctsSearch` | `mcts/search.py`, `tree.py`, `memory_plan_cache.py`, the result of `solver.py` | state machine, implements `PlanTable` |
| `LlmClient` | `mcts/modules/llm_client.py` | state machine |
| `RemoteCache` | `remote_plan_cache.py`, `remote_cache_manager.py`, `db_executor.py` | state machine |
| `DbAccess` | `db_controller.py`, the plan id pair of `db_utils.py` | state machine |
| `Access_proofs` | | theorems about `LlmClient`, `RemoteCache` and `DbAccess`, the services reached |
| `RagStore` | `mcts/rag/`, the save of `build_store.py` | state machine |
| `Decision` | `basic_optimizer.py` and its two variants | state machine |
| `Workload` | `workload/`, `workload_controller.py` | state machine |
| `Optimize_proofs` | | theorems about `Workload`, `MctsSearch` and `Decision`: what is optimized, found and decided |
| `BatchRunner` | `benchmark_runner.py`, `mcts_parallel_runner.py`, `test_tpcds_queries_parallel.py` | state machine |
| `Posterior` | `run_posterior_correction.py` | state machine |
| `Batch_proofs` | | theorems about `BatchRunner`, `RagStore` and `Posterior`, what many searches leave behind |
| `MCServices` | the nine modules above that share no state | one instance of each, for one run |
| `Services_proofs` | | theorems about `MCServices`: what holds of each component holds in the run |
| `MC...` | | model values and symmetry for TLC |

### RuleState

The state of a template is the newest row of `rule_state_history` that is not a
noop, so a table is a function from templates to states and `RecordOperation`
ignores a noop, exactly as `get_latest_state` skips it. `DecideOperation` is the
decision matrix; Python's `int | None` is a set with at most one element.
Plans are a set because the code compares `set(current) != set(new)`.

### SpmApply

One action per call. `captured`, `accepted` and `enabled` are what
`dbms_admin` keeps for a template; `InUse` is what the online optimizer may
choose from. `latest` is the metadata. `pc`, `tpl`, `op`, `pending`, `plan` are
the local variables of `apply_rules` and `_apply_template_rules`:

| `pc` | Call | Actions |
|---|---|---|
| `training` | the task has loaded its workload and read the blacklist | `BeginApplying` |
| `next` | `get_latest_state`, `decide_operation` | `ReadState`, `ReadStateFails`, `EndTask` |
| `list` | `get_all_baselines` | `ListBaselines`, `CallFails` |
| `reject` | `reject_baseline`, once per plan, failures swallowed | `RejectBaseline`, `EndReject` |
| `rule` | existence check per OPTIMIZE rule | `LookupBaseline`, `EndRules`, `CallFails` |
| `add` | `add_baseline_from_sql`; `False` falls back to accepting | `AddBaseline`, `AddFails` |
| `accept`, `enable` | `accept_baseline`, `enable_baseline` | `AcceptBaseline`, `EnableBaseline`, `CallFails`, `ReplyLost` |
| `record` | `record_operation` | `Record`, `CallFails`, `ReplyLost` |

`Leave` is the way out of a template, good or bad: `apply_rules` counts the
outcome and goes on. `Crash` can follow any step. `Capture` and `Evict` are
other programs. `PlanDrift` says whether the plan the online optimizer stores
for the hinted text can be another one than the trained plan; where it can, a
trained plan is not certain to be in force and the properties about plans in
force say so.

The management plane's disable is `MgmtBlacklist`, `MgmtClear`, `ScriptDecide`,
`ScriptRecord`, in the order of `docs/DESIGN_blacklist.md`. A template can be
blacklisted at any time, also while a task that has read the blacklist still trains
or applies it. That document has the baselines cleared only when no training
task is active, hence the guard of `MgmtClear`; tasks may begin at any time after it.

`BeginTask` loads the templates that are not blacklisted; `BeginApplying`, hours
later, begins with any batch of them and any plans but the default for each: what
training decides is another module's matter. The executor's test for a rewritten
text (`elif rule.sql_text_rewritten`) is left out, since every stored OPTIMIZE rule
has one.

### OutlineApply

The same for statement outlines: `rules` is what `show_rules` returns, an id per
rule. A decision carries a feedback timeout, and the timeout compared is that
of whichever matching rule the instance returned last (`CurrentTimeouts`).
A noop is decided after `show_rules`, as in the code.

### TrainingTask and TrainingRounds

Tasks of one node, one after another. The variables before `pc` are tables and
the online instance and survive a task; the rest is the process. Names of
`pc` follow the code of `execute` from top to bottom:

`resume`, `chain` (the two queries of resume detection), `load`, `filter`,
`checkpoint`, `pool`, `create` (the pool manager's handler is installed, the
executor object is not yet there), `submit`, `submitting` (the abort check and
the submit are two steps), `collect`, `store`, `mark` (the callback), `leave`,
`shutdown`, `master`, `apply`, `finally` (the default signal action comes
back), `progress`, `record`.

`future` has the state of each submitted template's future; workers take a
pending one and finish it, well or badly. `Terminated` is `_terminate_pool`: it
sends SIGTERM and does not wait, so a worker is `dying` until it ends, and may
still get its result out.
`handler` tells which handler a signal meets: `SignalExecutor`, `SignalPool`,
`SignalKills`. `expired` is the number of history rows older than the resume
window; the window moves just before and between the two queries that look at
it, the only places where it matters.

History rows carry three fields the table does not have: the chain the task
resumed, the templates whose results it saw, and the phases in which signals
reached it. They are written with the row and never read by the code's
actions; the properties relate a row to what led to it.

`TrainingRounds` keeps a ledger of the tasks that ended and says what resuming
makes of it: a task takes up the newest interrupted ones without a gap, repeats
none of their results unless something failed, and is complete only with a result,
its own or one taken up, for each template of its workload. `TrainingTask`
implements it with `Ledger`, the history rows with their chains turned into
positions, as refinement mapping; there the chain is read by two queries from a
window that moves, and results are marked one by one by a callback.

### PerfMon

The update job of perfmon over the rows of one node. Rules change meanwhile:
`RecordRule` writes a row of `rule_state_history` with the operation
`DecideOperation` of `RuleState` answers; operations other than a changed timeout
are what `get_all_changes_by_instance` selects (`changes`). A job is a process
that runs `update_metrics.py`: `Begin` reads the changes and groups them,
`ReadPeriods` reads a template's rows and identifies its periods at that time
(`Period` is `_identify_periods`), `SkipPeriod` and `UpsertPeriod` are the two
branches of the loop, `EndTemplate` and `EndRun` its end. `TemplateFails` is the
caught exception of a template, its last upsert done or not; `Kill` the death of
the process, which also stands for an exception before the loop over templates.

Time is the number of history rows written, so every change has a time of its
own; the clock of the job and that of the database agree. `plans` of a row are
those `best_validation_log_id` is looked up with. Several jobs can run: nothing
in the code keeps two runs apart, and a run with errors ends with an exit code
that asks for another. `overlap` is a history variable that says that this has
happened.

### MctsSearch and PlanTable

A search is one thread of control: `phase` is what `run()` does next. A node is
its tag, the positions of the actions that lead to it, which is also the order
in which siblings are executed. `WarmStart` is `_warm_start_from_rag`; a rollout
is `StartRollout`, then per step `Expand` (or `NoLeaf`), `Generate`, `Filter`, one
of `ExplainFails`, `Ineffective`, `CacheHit`, `Measure`, `ExecutionFails` per node
to be executed, and `Backpropagate`; then `EndRollout` with the early stop.
Completions are requested by threads, but each fills its own node and all are
waited for, so `Generate` is one action. Abstracted: a hint is a value with a slot
(of two for one slot `deduplicate_hints` keeps the later), the optimizer's choice
of a plan is a function `PlanOf` of the hints, a reward is its sign, and PUCT
scores are left out: selection may take any child the code may take. `ActionType`
is the sequence of actions in use, of which the code uses all six; "A6" is always one
of them, since `get_allowed_actions` allows it after every action. A value of a node,
`_value_sum`, is a sum of signs, so `Balance` is a difference of two counts.
`time` and `info` are the entry of a plan in `MemoryPlanCache`, `unsettled` its
`_pending`. `PlanTable` says what the search makes of that cache: a plan is
learned once, the default plan is known from the start, nothing known changes.

### LlmClient

Several threads in `complete`, over one `APIPool`. `at` follows the loop:
`choose` (`get_available`), `call`, `mark` (`mark_cooldown`), `test`
(`all_in_cooldown`, after the lock was free), `sleep`, `done`. Time is relative:
remaining cooldowns and sleeps, which `Tick` lowers; a call ends by its timeout.
With `Prompt` the client's own steps take no time, without it any.
`failures` counts failed calls of all threads since a request began and is
read by no action.

### RemoteCache

Processes that measure a query under sets of hints. `doing` is where a
measurement is: `lookup` (`get_by_digest`), `readHints` and `writeHints` (the two
statements of `update_hints_by_digest`), `decide`, `execute`, `store`, and `plain`
for a measurement without the cache. Each statement is atomic and may fail;
nothing spans two. Each process measures the baseline first, under the cache's
own timeout (`llm_optimizer.py`); `StartSearch` (`MCTSSearch.__init__`) then sets the
timeout it reports from the baseline's time, and where configured lowers the cap
under which it executes to that time (`cap_timeout`), so processes differ in both,
and one process changes them between its measurements. `created_at` has seconds,
so two rows can have the same.

### DbAccess

One thread and its `DBController`. A session of the server knows its database,
its limit, whether it was prepared and whether the plan id was requested.
`BeginCall` starts `use_db`, `execute` with or without a timeout, a profiled
evaluation, or one of the two statements of `get_plan_id_only`; `ConnectIfLoss`,
`SetLimit`, `RunStatement`, `StatementFails`, `Restore` and `Conclude` (the retry
wrapper) follow. `Refused` and the `Bare` session are what SQLAlchemy does with a
connection it invalidated. `strayed` is a history variable: a call ended on such
a session, after a disconnect with an error code the wrapper does not know.

### RagStore

Searches that load the store, retrieve and write back, and `build_store.py`.
`files` are the file of rows, that of configurations and the existence of the
manifest. The rows are a set: a search picks from them by similarity, a row holds the
position of its configuration, and upsert never makes two alike. `SaveRows`, `SaveConfigs` and `SaveManifest` replace them one by one and
`Dies` can come between any two. A vector is the configuration it was computed
from; similarities are a table of numbers.

### Decision

One template. `Collect` gathers candidates, `MeasureDefault` and `Evaluate` go
through samples and candidates in the order of the code, `Decided` is step 5. Which
plan a candidate's hints give on another sample, and how long it takes, is the
server's choice, made anew at each evaluation; where EXPLAIN of the rewritten statement
fails the template is skipped (`PlanUnknown`). `trials` is what really came out and
is read only by the property.

### Workload

`stage0` follows `preprocess`: the two counts of the diagnosis, the query and its
fallback, the filter, the digests with the restriction to the templates asked
for, and the upserts one by one. The mock tables can also be refused or not be
there (`ReadTable`). A logged execution is a record; `RowOf` is what
the aggregating queries make of a group of them.

### BatchRunner

Worker processes, the queue per instance that ends with sentinels, the feeder
thread that sends a result later (`unsent`, `Send`), the collection with its empty
`get`, and the validation: a coordinator that opens a round for all live instances
and closes it when each has answered. `WorkerDies` and `ValidatorKilled` are kills.
What a worker does with a query is left out.

### Posterior

`StartPass` begins a run of the script on one tree; the samples are functions of
the tree as in the code. `pen` is the holder of `writer_lock` with the append it
makes next. `PassDies` may leave half a line, which swallows the next append of
that file. Resuming is on, as by default; `--prompts-only`, `--limit`, the phantom
filter and `review.jsonl` are left out.

### MCServices

These nine share no state in one process of the program that two of them could
change, so a run of TLC may hold all of them: `chosen` says, from the initial state
on, which one takes steps, and the others rest in an initial state. The states are
the disjoint union of those of nine runs, and an invariant of a component
is checked in exactly its part of them.

## 3. Runs

Every state machine has its type invariant checked once. Deadlock checking is off
because a behaviour really stops: all tasks have been run.

| Run | Instance | Distinct states | Shows |
|---|---|---|---|
| `MCSpmApply_faults` | 1 template, 3 plans, 3 tasks, 2 faults | 140 thousand | `SuccessAccounted`, `OnlineMatchesRecord`, `HistoryAlternates` |
| `MCSpmApply_shared` | 2 templates, 2 plans, drift, 1 task, 1 fault, fair | 178 thousand | `BlacklistedQuiescent`, `BatchFinishes`, `DisableTakesEffect` |
| `MCOutlineApply_faults` | 2 templates, 2 plans, 2 timeouts, 2 tasks, 2 faults | 85 thousand | `SuccessLasts`, `RulesBoundedByFaults`, `DecisionInForce` |
| `MCTrainingTask_pool` | 3 templates, 2 workers, limit 2, 1 task, 2 signals, 1 fault, fair | 92 thousand | `SignalInterrupts`, `NoWorkerAfterPool`, `StoredIsApplied`, `TaskEnds` |
| `MCTrainingTask_resume` | 2 templates, 2 workers, 2 tasks, 2 signals, 1 fault | 1.2 million | `RoundCovers` when steps fail |
| `MCTrainingTask_rounds` | 1 template, 4 tasks, 2 signals | 1.3 million | `TrainsInRounds`, `ProgressWithinWorkload` over chains of tasks |
| `MCPerfMon_overlap` | 1 template, 2 jobs, 3 history rows, 1 fault, fair | 176 thousand | `FinalizedIsTrue`, `PeriodsInOrder`, `SuccessCovers`, `BecomesUpToDate` |
| `MCServices_all` | see below, one component at a time | 1.1 million | the properties of the nine components from `TrailGivesHints` on |
| `MCSpmApply_noop`, `MCTrainingTask_gap`, `MCTrainingTask_race`, `MCLlmClient_endless` | minimal | — | counterexamples, section 5 |

What the properties say:

* `SuccessAccounted` (SPM) has two parts. `SuccessLasts`: the plans of a success are in
  force until the next
  application or disable of the template. This is a statement about every later
  call of anybody: rejects of the wrong plan, a swallowed accept, a record that
  precedes its effects would all break it. `LeftoversAreFailures`: a reject that fails
  is swallowed, so a success can leave plans in force beside the recorded ones, but no
  more than calls failed: the loop goes on after a failure, and no later step or
  task adds to them.
* `OnlineMatchesRecord`: while nothing failed the metadata is the truth about
  the instance, in both directions; a plan accepted earlier and not in the
  record must have been rejected.
* `HistoryAlternates`: the operation is decided minutes before its row is
  written, and two programs write rows. An action property.
* `BlacklistedQuiescent`, `DisableTakesEffect`: a disable stays in effect, and
  takes effect, also where a task read the blacklist before it.
* `BatchFinishes`: no template is applied for ever, or again and again.
* `RulesBoundedByFaults`, `DecisionInForce` (outlines): surplus rules are
  accounted for by faults; without faults a noop is right to do nothing.
* `SignalInterrupts`: while the workload is prepared and while the pool runs no
  signal is overlooked. `NoWorkerAfterPool`: training ends before applying.
  `StoredIsApplied`: of the rules that tasks stored and that did not end as failed,
  no more are missing on the instance than calls failed.
  `TaskEnds`: the main thread is never left waiting for a future.
* `RoundCovers`: a completed task and the interrupted ones before it saw a
  result for each template of its workload. It is about the skips: a template is
  skipped because some task marked it, and that task must belong to the round.
* `TrainsInRounds`: the tasks implement `TrainingRounds`. Where `RoundCovers` speaks
  of a completed task, this relates any ended task to the ones before it: a chain
  that reaches behind a completed task or skips an interrupted one, or a task that
  trains a template again without a failure, would break it.
* `ProgressWithinWorkload`: the sum of templates of earlier tasks and of this
  task never exceeds the workload.
* `FinalizedIsTrue`: a finalized row, which the next run will skip for ever, is
  the period of that index in the history as it is now. It was derived from an
  older history, by one of several runs.
* `PeriodsInOrder`: only a template's last row is open, wherever a run failed,
  as long as runs did not overlap; with overlap this is false (section 5).
* `SuccessCovers`: a run that ends as a success left no period out, although
  failures of templates are swallowed one level down.
* `BecomesUpToDate`: gaps, open rows and whatever overlapping runs left behind
  are repaired by later runs, for good.

* `TrailGivesHints`: hints are kept as changes along the path; replayed by
  `collect_ancestor_hints` they give what was executed at each node, also after
  an A5 dropped some or a later hint took a slot.
* `OneTimePerPlan`: nodes with one plan report one time, whether measured, cached,
  timed out or copied from the parent.
* `VisitsConserved`: the visits of a node are one for itself and one for each
  finder or answer below it, after any order of rollouts, and its value is the sum of
  their rewards.
* `ResultComplete`: the optimizer gets each plan found once, with its time.
* `WriteOnce`: the search implements `PlanTable`, with `known` mapped to `time`.
* `RoundsAreFailures`: no round of retries is counted without a call that
  failed, if the sleep is at least a cooldown; a round counted because of an
  endpoint that was about to return would break it.
* `CacheTruthful`: a row tells the truth of its plan, and so does each answer,
  although it may stem from a process with another cap and another timeout.
* `EntriesAccounted` has two parts. `OneEntryPerPlan`: without overlap and failures a
  plan has one row with all its hint sets. `DuplicatesBounded`: with them there are duplicates, but never more rows
  of a plan than processes and failures, since who finds a row inserts none.
* `StatementAccounted`: a statement was executed once for its success and once for
  each lost reply. A failed restore that became an error would break it.
* `StatementInContext`: the database, the limit and the session settings of a
  statement are those the caller set, across reconnects and retries.
* `RowsResolveRight`: after deaths between the files of a save a vector leads to
  its own hints or to none, and nothing written back is lost. Both as long as writers
  do not overlap and no build replaces a store.
* `RulesSafe`: a rule is safe on each sample and gains on one, as measured. It
  relates the rule to what its hints did, not to the table the decision reads, in
  which results stand under the plan a candidate had when it was collected.
* `StoredAsAsked`: what is stored is safe and under the server's digest, and after
  a success it is all that was asked for.
* `SamplesAccounted`: a death costs at most one sample and two repeated ones.
* `BatchAccounted`: a query has at most one result, only a worker that died takes
  one away, a collection that ended by itself has the rest; the instances of a
  validation summary have run the same rounds, and the coordinator waits only for
  those who will answer, unless one was killed.

### Bounds

`MaxTasks`, `MaxSignals`, `MaxFaults` bound counters in guards and bound nothing
else; without them nothing in the actions changes. Three plans are the default
one and two to switch between. Three SPM tasks are setup, modify and a reset or
noop, with a disable before, between or after. Two faults let a failed
application be followed by one that fails elsewhere. Two templates are enough
for everything about batches, since applications share nothing but the loop.
For chains the number of tasks matters and a template is like another: four
tasks make an interrupted chain, a task that breaks it, one that starts a new
one, and one more; two templates, two tasks and a fault then give the partial
results. With `TemplateLimit = 2` of three templates the limit bites.
For perfmon three changes make a baseline, a finalized period that was open
before, and an open one, and two jobs are what it takes to overlap; templates of
a run share nothing but its result, which one failing template decides.
Symmetry over templates (and over plans and templates for outlines) is used
where no liveness is checked.

`MCServices_all` has of each component the smallest instance in which what its
property is about happens. Search: three hints in two slots, three plans, two times
around the baseline and the timeout's, a bundle, three actions, two rollouts to
depth 2: a second rollout meets plans of the first, an index hint leaves the plan
as it is, and a prefix replaces another. Client: two callers, two endpoints, two
rounds, cooldown and wait of 2 with calls up to 2. Cache: two processes, one of which
caps by its baseline, two measurements each and two failed statements. The baseline takes 2
and shares its plan with a hint set; another leads to a plan that takes 3. Under the
cap of 2 both time out, under the cache's timeout of 5 neither does, and at the
amplifier 1 the reporting timeout is 3. Two processes can both insert the
baseline's row, a row inserted as a timeout is executed again by the other
process, and a failed lookup inserts another. An update of several rows at once takes a
third measurement and is left to the proof. Sessions: three calls, three faults, which is
a loss in an attempt, one in the second, and one in a restore. Store: two searches and
the builder, three configurations of two queries, one death. Decision: two samples,
two default plans of three, two candidates, two times and failure. Workload: six
executions with a digest under two plans, two texts of one digest, an unsafe one and
a fast one; three attempts. Posterior: all trees of two nodes in a chain, three runs,
two deaths, two threads. Batch: three queries, two instances, three workers, one
killed process, one and two rounds of validation.

### Fairness

`MCSpmApply_shared`: weak fairness of the applier (one process, which the
operating system keeps scheduling and whose calls return or raise), of the
reset script, and of the clearing step of a disable already begun. That step waits
until no task is active; tasks end, and the bound on their number leaves it a time
without one for good. Where tasks followed one another without a pause it would
have to be strongly fair: the management plane would have to use a pause. Nothing
makes a task or a disable begin, and a fault need not stop.
`MCTrainingTask_pool`: weak fairness of the executor's main thread and of each
template's worker, justified by the per-statement timeouts of the training
controller, which bound an optimization. Signals, faults and new tasks are not
assumed to happen.
`MCPerfMon_overlap`: weak fairness of each job, which includes its beginning
again: `README.md:228` has it scheduled every day, without end. Rule changes and
faults end because they are bounded; the liveness property is about what follows.
`MCLlmClient_endless`: weak fairness of time and of each caller: threads are
scheduled, clocks run, and an HTTP request ends by its timeout. The counterexample
needs nothing but endpoints that keep failing in turn.

## 4. Proofs

Every theorem has the form `Spec => []P` or `Spec => Q` for the unbounded
specification: any sets of templates, plans, workers or queries, and any number
of tasks, faults and kills. Next to the specification it uses only the named
assumption of the module's constants. Most of these say that special values are
apart, that bounds are numbers and that plans, templates or processes are finitely many;
four of them also say something about the program:

* `SearchAssumption`: `PlanOf[{}] = DefaultPlan`, since
  `default_plan_digest` is the digest of the query without hints
  (`mcts/search.py`), the sets of hints that retrieval offers are finitely
  many, since it returns a list, and the final answer "A6" is among the actions
  (`mcts/tree.py`), so that a leaf that is expanded gets a child;
* `BatchAssumption`: each instance with queries has a worker, workers and
  queries are finitely many, and no query is one of the words the model uses for
  a worker's state (`"free"`, `"left"`, `"dead"`) or for the sentinel;
* `ClientAssumption`: there is an endpoint and finitely many callers;
* `RagAssumption`: hint sets come from result files, so they are finitely many,
  `SchematicType` (`mcts/rag/schematic.py`) has members and finitely many, and
  similarities are numbers.

None of the properties below is inductive alone. Each proof module begins with
the invariant that is, as a conjunction of named parts, proves with one lemma or
step per action that every action preserves it, and derives the properties.

### SpmApply_proofs

`InductiveInvariant` (`IInv`), `TypeCorrect`, `SuccessIsLasting`,
`LeftoversAreAccounted`, `SuccessIsAccounted`, `DisabledStaysDisabled`, `MetadataIsTrue`
prove the invariants `TypeOK`, `SuccessLasts`, `LeftoversAreFailures`, `SuccessAccounted`
(both of them), `BlacklistedQuiescent` and `OnlineMatchesRecord`, and
`HistoryIsAlternating` the action property `HistoryAlternates`, with or without
plan drift.

`SuccessLasts` says nothing of an application on its way, so the step that
records a success needs `RulesDoneInv`: each decided plan is in force or still
pending, and at `record` none is pending. That needs the phases (`PhaseInv`: the
template applied is in the batch and its outcome is open; the plan being added
is pending), and that nobody else takes a plan out of force meanwhile, which is
`ApartInv`: a template of the batch that is blacklisted meanwhile waits for its
clearing, and the management plane works on blacklisted templates. `HistoryAlternates` needs `DecidedInv`: the operation
decided is what `decide_operation` would answer now, because no one else records
for the template. `BlacklistedQuiescent` needs `DisabledInv`, what the disable
has achieved after each of its steps.

`OnlineMatchesRecord` holds of a template at rest and needs what holds of one on
its way (`TruthInv`): without failures the rejects remove everything that was
accepted, so that later only decided plans are in force (`ExactInv`), every
accepted baseline was captured, and a reset names no plans (`StoredInv`).

`LeftoversAreFailures` is proved by counting along an application (`LeftInv`): while
plans are rejected, the accepted ones that are not pending any more are at most the
failures, and afterwards those that are not decided. A noop leaves what the last
success left, and nobody else accepts plans.

### OutlineApply_proofs

All four invariants of the run: `TypeCorrect`, `SuccessIsLasting`
(`SuccessLasts`), `LeaksAreFaults` (`RulesBoundedByFaults`), `DecisionsAreInForce`
(`DecisionInForce`), from `InductiveInvariant`.

The applier lists a template's rules, and deletes by id what it listed, with
failures and lost replies in between. `IdInv`: ids are handed out once, so that
what is listed can only be rules of the template in progress, and no success of
another is undone. `BoundInv` counts: while a template is being applied, the rules
that are not on the list any more, and still online, are at most the faults so
far; adding one makes the bound of the property. `FaultlessInv` relates metadata
and instance where nothing failed: outside of the template in progress the plans
online are those of the recorded state, so that the noop, which compares with
that state, skips only what is there. `OpInv` and `PlaceInv` are what a decided
operation says of its decision and of the state it was decided from.

### TrainingTask_proofs

All six invariants of the runs and the refinement, from `InductiveInvariant`: `TypeCorrect`,
`SignalsAreHeard` (`SignalInterrupts`), `PoolIsOver` (`NoWorkerAfterPool`),
`ProgressIsHonest` (`ProgressWithinWorkload`), `CompletedRounds` (`RoundCovers`),
`RulesReachTheInstance` (`StoredIsApplied`) and `TasksTrainInRounds`
(`TrainsInRounds`), for any number of tasks after one another on one database,
killed anywhere.

* Signals: which of the two handlers is installed follows from the step
  (`PlaceInv`), so the flag a signal has set is the one that is read later on
  the way to the status (`SignalInv`).
* The pool: a future is unfinished only while the executor object is alive, and
  it is alive only from its creation to the shutdown (`PoolInv`).
* Progress: what the chain processed before and what is left to do are disjoint
  parts of the workload, and the count never passes their sum (`CountInv`).
* Rounds: the tasks of a chain are those of the newest rows, all interrupted
  (`ChainInv`); what the filter left out has a result in that chain
  (`RowsInv`: a template is marked only after its result was collected), and a
  task that was not aborted collects what it submitted (`CoverInv`).
* Rules: what is stored is in memory for the applier, and applied when a status
  other than failed is set, or it was dropped by a failure of its own, which is
  counted (`StoreInv`).
* The refinement: only `RecordHistory` appends to `Ledger`, and it has to be
  `EndTask` of the row it writes; every other step leaves the ledger alone, and a
  fault may disturb. The row's chain must be a set of the newest positions, all
  interrupted, without a gap, although it was read long before: `ChainInv` gives the
  outcomes, `JoinInv` the missing gap, and `OrderInv`, rows in the order of their
  tasks, that positions stand for tasks, so that a later row changes none of the
  mapped ones. That no result is repeated is `FreshInv`: without failures what a
  row of the chain has seen was marked, so that the filter took it out of the work.
  Completeness is `CoverInv`, as for `RoundCovers`.

### PerfMon_proofs

All safety properties of the update jobs: `InductiveInvariant`, `TypeCorrect`,
`FinalizedRowsAreTrue` (`FinalizedIsTrue`), `SuccessIsComplete`
(`SuccessCovers`), `RowsInOrder` (`PeriodsInOrder`).

The argument for `FinalizedIsTrue`: what a job read is a prefix of the history
(`SnapInv`), and a period that is over is the same in a prefix and in the whole
(lemma `PeriodOfPrefix`), so a row written from the prefix is right about the
present. For `SuccessCovers` a job's progress is related to the rows while other
jobs write (`CoverInv`): rows below its index are stored, templates it has
finished are complete unless it failed, and no upsert removes a row. For
`PeriodsInOrder` there is one active job (`OneJob`), no row lies beyond the history
it read (`WithinSnap`), the rows below its index are final, and the others are
as it read them (`JobRows`).

### Access_proofs

`RoundsArePaid` proves `RoundsAreFailures` for any number of callers and endpoints
and any timing. `CreditInv` is the argument: every round is paid by a failure whose
endpoint was put into cooldown, and during a sleep that is at least a cooldown
long, an endpoint that will outlast the sleep was marked after the round was
counted, so its failure is not yet spent.

`ExecutionsAccounted` and `ContextKept` prove `StatementAccounted` and
`StatementInContext` for any databases, calls and faults. `ExecutionInv`: executions
are lost replies plus the answered one, and fewer than the attempts so far, at
each place of a call. `SessionInv`: the session of the link is limited only while a
limited statement runs, and prepared and in the right database unless `strayed` is
set or is about to be.

`CacheTellsTruth` proves `CacheTruthful` for any processes, plans, timeouts, amplifier
and failed statements. `KnowsTruth` says what a process holds at each place of its
measurement: the row it was served is true and of its plan, its outcome is what
an execution under its cap can show of the plan's time, its answer is sound. Truth
is a matter of a plan, not of a row's age, so no step of another process takes it
away, in any interleaving. `PlanHasOneEntry` proves `OneEntryPerPlan`, which does
depend on the others: as long as measurements do not overlap (`Alone`), a process
that is about to store has seen that its plan has no row, or reruns one that has
its hints (`KnowsEntry`, `OneRow`), and no step takes hints out of a row.
`DuplicatesAreBounded` proves `DuplicatesBounded`: the rows of a plan and the processes
that will insert one more because they found none are together at most the
processes and the failures. The number of processes pays for those that looked
before the first row was there; who looks later inserts only after a failure.
`EntriesAreAccounted` is both.

### Optimize_proofs

Of `Workload`, `WorkloadIsStored` proves `StoredAsAsked` for any log, time limit, number of retries
and wanted set. `PathInv`: before the filter the rows in memory are what was
offered, then its safe part, and while rows are saved, what is stored and what is
left together are what was asked for.

Of `MctsSearch`, all invariants and the refinement, from five invariants that build
on one another.

* `IInv` gives `OneTimePerPlan` (`PlanHasOneTime`) and the refinement `WriteOnce`
  (`CacheIsTable`). A plan's time is written at one node and read at others
  rollouts later; `TimesInv` says that a node with a plan and a time has the time
  the cache has for that plan, which the step of a node preserves only because
  the node had neither before its turn (`FreshInv`). The tree grows only by such
  fresh nodes. For the refinement each action changes `time` by `Learn` of a plan
  outside its domain, or leaves it as it is.
* `TrailInv` gives `TrailGivesHints` (`TrailIsExecuted`): all prefixes of a tag are
  tags of the tree (`PrefixInv`), so a replay reads only nodes whose changes are
  final, and a completion writes what the replay of its branch gives
  (`ReplayInv`). Lemmas on the way say what `SubSeq`, `Front` and `Append` do to
  tags.
* `ResultInv` gives `ResultComplete` (`EveryPlanIsReported`): each measured plan has
  a node that found it, under hints, since the plan without hints is the default
  one (`FinderInv`); what a finder reports is the plan's time (`ReportInv`); a node
  whose turn is still to come has found nothing (`OpenInv`); and the result is
  those of the last tree (`DoneInv`).
* `VisitsInv` gives `VisitsConserved` (`VisitsAreConserved`): statistics are those of
  the backpropagated nodes at or below a node, also in the middle of a step, when
  the nodes of the batch are not backpropagated yet (`CountInv`). Backpropagation
  adds the batch at once, and the sets it adds are disjoint from those counted
  (`MoreStatistics`).
* `ShapeInv` gives the types (`SearchTypeCorrect`), of which three are no matter of
  a single assignment. That the leaves are the nodes that are not expanded
  (`StatusInv`) needs that an expanded node gets a child, that it was open
  (`SelectedIsOpen`), and that nothing else becomes the parent of a new tag
  (`LeavesOfGrown`). That rollouts and steps stay within their limits
  (`ScheduleInv`) holds because a rollout is counted only after it ran. That every
  entry of the cache has a time (`EntriesInv`) relates two tables of which one is
  written by hits and by the end of a step.

Of `Decision`, `RulesAreSafe` proves `RulesSafe` for any samples, plans, times and ratio. The
decision reads `results`, the property speaks of `trials`, what the hints were
measured to do. `TrialInv` relates them for each sample that has been measured: a
result other than the default's is the time of a trial, and the default's is the
measured one. Two facts keep it, both in `CandidatesInv`. A plan is a candidate
once, so a result found in the table for another plan cannot stand for a trial
of this one (`TrialKeeps`, by which candidates had their turn, `TriedOn`). And
where every sample's default plan was collected, a trial under a default plan's
name gives that default's time: its candidate has no hints, or an outline that
gives its own plan. Without that the default's result can be overwritten by
hints' time, which is why `RulesSafe` asks for `collected = Samples`.

### Batch_proofs

Of `BatchRunner`, `BatchIsAccounted` proves `BatchAccounted`, both halves, for any
queries, instances, workers, rollouts and number of killed processes, from two
invariants.

* `PoolInv`: a query waits in the queue of its instance, runs at one worker, or has
  its one result, never two of these (`OnceInv`); with none of them it was taken
  along by a dead worker of its instance (`LostInv`). A queue is queries, each
  once, and then sentinels (`QueueInv`), so a worker that left before the shutdown
  leaves no query behind (`LeftInv`), and a collection that ended because all have
  left, without a death, has every result (`EndInv`). That the collection counts
  results and not queries is lemma `OneEach`. That the queues begin so is
  lemma `FirstQueue`, about `SetToSeq` and the sentinels behind it.
* `ValidationInv`: replies come only from instances that are waited for, one from each
  (`ReplyInv`); who still has a command or is starting is waited for and has not
  replied (`BusyInv`), and who is waited for will reply unless it was killed
  (`AwaitInv`); so when a barrier counts as many replies as there are live instances,
  all of them are at the same rollout (`RoundInv`).

Of `RagStore`, `StoreIsRight` proves `RowsResolveRight` for any configurations,
searchers, builds and deaths. A save goes through states in which rows, configurations
and manifest belong to different stores, and a death leaves one of them on disk.
`DiskInv` holds in all: the rows that resolve are right (`Aligned`) and each
configuration has a row that does (`Covered`). It is kept because what a writer saves
continues what it found: more rows, and configurations behind the old ones
(`StageOf`, by `AddedStore`), so rows saved before their configurations
do not resolve instead of resolving wrongly. That a loaded store is the one on disk
until it is saved needs that nobody else writes, which is `AloneInv`. A store with
rows that do not resolve is never saved again, since upsert fails on it
(`AllResolve`). That the first few of a finite set under an order exist at all, the most
similar rows or the fastest configurations, is `FirstExist`. `RagTypeCorrect` needs it
for more: a search returns no more references than `TopK`, which bounds a choice made
per query out of several choices made per type (`RetrievedFew`).

Of `Posterior`, `SamplesAreAccounted` proves `SamplesAccounted` for any tree, number
of threads, passes and deaths. `CostInv` charges every repeated line to a death before it
is written: a sample with a line but no comparison (`Owed`) may be written again, and a
torn comparison file will make one more; a sample of both kinds may be written twice for
free, once (`TwiceLeft`). A death adds one owed sample and one torn file, and
nothing else adds to the sum. In the same way a kept sample without a line is charged
to a torn SFT file (`LostKept`). `PassInv` is what makes the charge right: a run takes
up a sample with a comparison only if it is of both kinds, because `Pending` was
computed before the direct samples were written.

### Services_proofs

A run over nine components has to say nothing about any of them that is not true of
it alone. `ServicesAreComponents`: every behaviour of `MCServices` is one of each
component, which rests or takes its own steps. So every theorem about a component
holds in the run, and `ServicesTypeCorrect` proves its type invariant
`ServicesTypeOK` from the nine of the components (`SearchTypeCorrect`,
`ClientTypeCorrect`, `CacheTypeCorrect`, `DbTypeCorrect`, `RagTypeCorrect`,
`DecisionTypeCorrect`, `WorkloadTypeCorrect`, `PosteriorTypeCorrect`,
`BatchTypeCorrect`).

### Only model-checked

* Liveness (`BatchFinishes`, `DisableTakesEffect`, `TaskEnds`, `BecomesUpToDate`):
  temporal properties under fairness, with `ENABLED`, are out of the prover's reach.

Every invariant of a passing run, and every action property and refinement of one, is
proved.

## 5. Where documents and code disagree

With a run that shows it:

* `MCSpmApply_noop`: `docs/DESIGN_latest.md:222` calls a noop the case where the
  rules are the same. After an application that failed between its rejects and
  its record, the recorded plans are no longer in force, and deciding for them
  again is a noop (`optimizer/spm_operator.py:270`): the template keeps the
  default plan until another plan is decided.
* `MCTrainingTask_gap`: a SIGUSR1 between the checkpoint and the pool manager's
  handler is lost and the task completes, against `README.md:168`.
* `MCTrainingTask_race`: a SIGUSR1 between the abort check and `submit` makes
  the handler drop the executor the main thread is about to use; the task ends
  as failed and cannot be resumed, against `docs/DESIGN_resume.md:121`.

* `MCLlmClient_endless`: `mcts/types.py:63` says that a request ends after its retries.
  A round is counted only when all endpoints are in cooldown at one moment
  (`mcts/modules/llm_client.py:165`). With calls as long as the cooldown the endpoints
  fail in turn, each available again in time, and the request never returns.

Met while modelling, following from a line or two, and modelled as the code does
it:

* A RESET rejects every baseline, the default plan's too
  (`optimizer/spm_operator.py:275`); `docs/DESIGN_latest.md:210` says all but
  the default.
* A failing reject is swallowed (`optimizer/spm_operator.py:148`) and a success
  recorded: an old plan can stay accepted beside the new one, where
  `docs/DESIGN_latest.md:209` says the rest are rejected. `LeftoversAreFailures` is
  what remains true. Likewise a failing
  delete leaves two outline rules (`optimizer/statement_outline_operator.py:234`).
* An outline noop does not look whether the rule is still online: a rule that is
  gone has no timeout to compare (`controller/rule_state_controller.py:252`).
* The signal's default action is restored before progress and history are
  written (`task/task_executor.py:573`): a signal then ends the process without
  a history row, although `docs/DESIGN_resume.md:5` has the flag-only handler
  for the whole of `execute`.
* Resuming skips by `is_processed`, which is set on failure too
  (`task/task_executor.py:413`), where `docs/DESIGN_resume.md:79` speaks of the
  rules table: templates that failed in an interrupted task are not tried again
  in its round. `RoundCovers` is stated for results, not successes.
* `docs/DESIGN_resume.md:86` and `docs/task_progress.md:31` say that all rules
  of an interrupted task are applied; the applier counts failures and goes on
  (`task/task_executor.py:502`), and a resumed task applies only its own rules.
  `StoredIsApplied` is what remains true: one rule at most for each failure.
* `remote_cache_manager.py:48` says that a plan of a query has one entry with all its
  hint sets. Two processes that measure it at the same time both miss and both insert
  one (`mcts/modules/remote_plan_cache.py:284`), and hint sets are then added to either.
  `DuplicatesBounded` is what remains true.
* `README.md:235` says of the periods between changes that they are not updated
  any more (已固化，不再更新). A run with an older history for which such a
  period is the open one, writes it again as open after a run with the newer
  history finalized it (`perfmon/performance_comparator.py:111` only looks at the
  rows read before): this takes two runs that overlap, which nothing in the code
  prevents, and a later run repairs it. `PeriodsInOrder` is stated for runs
  that do not overlap; `BecomesUpToDate` for all.

* An empty `get` of the collection followed by workers that have all left ends it
  (`BatchRunner`, `CheckWorkers`): a result sent in between stays in the queue.
  `BatchAccounted` counts it there.
* The coordinator of a validation waits without a timeout: when a validation worker
  is killed rather than fails, it waits for ever. `BatchAccounted` excepts a kill.
* The comment at `mcts_scripts/benchmark/benchmark_runner.py:1970` says that failed
  instances are no longer counted, but the sum of the baselines beside it is taken
  once, over the instances that were ready.

## 6. What is not modelled

* The text of SQL, hints and rules, EXPLAIN trees, logging, tracing, durations
  and statistics: no property depends on them.
* Program entry, logging (a queue with a thread, on which nothing depends),
  configuration, table definitions, the probes of an instance's features.
* A worker's optimization as part of a task: `TrainingTask` gives it any result, and
  `Decision`, `MctsSearch` and the modules below it are checked beside it, since a
  worker shares nothing with the task but that result.
* The texts of the queries on ClickHouse, and how rows and plans are parsed.
* PUCT scores, reward values beyond their sign, prompts, completions, embeddings and
  the schematic texts: the models allow any choice these could lead to.
* The estimate of the training time, the preparation of queries, the pool of
  `connection_manager.py`, and the migration of an old cache table: each is one call
  without concurrency or a state of its own.
* Locks inside `concurrent.futures` and `multiprocessing`: a submit is one step, so a
  handler that needs the lock the interrupted submit holds is not seen, and a killed
  batch worker never holds the lock of its queue.
* Exceptions of a write to the sample files: only deaths tear a line.
* Calls of the appliers succeed, fail without effect, or fail after their effect; the
  retries beneath them are `DbAccess`.
* Validation logs, MCTS results and SQL template rows the callback also stores:
  nothing reads them back in the service except perfmon, whose metrics and samples are left
  out, and reports.
* What a batch worker does with a query, reports, CSV files; the scripts that analyse
  results, validate caches or prepare data (`analyze_*`, `validate_*`, `run_sft.py`,
  `rollout_validation.py`): they read and print in one thread.

## 7. Plan

Done: the service (`RuleState`, `SpmApply`, `OutlineApply`, `TrainingTask`, `PerfMon`),
the optimizer (`Decision`, `MctsSearch` with `PlanTable`, `LlmClient`, `RemoteCache`,
`DbAccess`, `RagStore`), loading (`Workload`) and the drivers (`BatchRunner`,
`Posterior`); the promise of resuming (`TrainingRounds`), which `TrainingTask`
implements; proofs of every safety property of the passing runs.

Left:

1. The two appliers on one history, for an instance that changes its outline type.
2. A composition of the service's modules: what a task stored (`TrainingTask`) as the
   batch an applier begins with (`SpmApply`, `OutlineApply`).

Modules to be proved about use no recursive operator.
