---------------------------- MODULE TrainingTask ----------------------------
(***************************************************************************)
(* The training tasks of one node: TrainingExecutor.execute                *)
(* (task/task_executor.py), the process pool it drives                     *)
(* (task/parallel_pool_manager.py, task/parallel_worker.py), SIGUSR1, and  *)
(* the metadata that outlives a task and lets the next one resume it       *)
(* (workload.is_processed, rules, task_progress, task_execution_history).  *)
(*                                                                         *)
(* Tasks follow one another, each a process of its own.  A signal handler  *)
(* runs between any two steps of the main thread, worker processes beside  *)
(* it.  How a rule is applied is SpmApply's and OutlineApply's matter:     *)
(* here an application succeeds or is counted as failed.                   *)
(***************************************************************************)
EXTENDS Naturals, Sequences, FiniteSets

CONSTANTS
    Templates,      \* SQL templates a workload can contain
    NoTemplate,
    Workers,        \* parallel_workers
    TemplateLimit,  \* sql_template_limit of a task, 0 for no limit
    MaxTasks,       \* bound: tasks started in a behaviour
    MaxSignals,     \* bound: SIGUSR1 sent in a behaviour
    MaxFaults       \* bound: failures other than a worker's own result

ASSUME TaskAssumption ==
    /\ IsFiniteSet(Templates)
    /\ NoTemplate \notin Templates
    /\ Workers \in Nat \ {0}
    /\ TemplateLimit \in Nat
    /\ MaxTasks \in Nat
    /\ MaxSignals \in Nat
    /\ MaxFaults \in Nat

VARIABLES
    \* metadata database and online instance
    history,    \* task_execution_history of the node, oldest first
    expired,    \* how many of its oldest rows left the resume window
    workload,   \* workload rows per task, as templates
    processed,  \* workload rows with is_processed = 1: pairs (task, template)
    stored,     \* rules rows: pairs (task, template)
    progress,   \* completed_templates of task_progress, per task
    applied,    \* pairs (task, template) whose rules the applier applied
    \* the executor process
    pc, handler, flag, abort, raised, chain, work, previously, payloads,
    cur, rules, status, processedStat,
    \* the pool
    pool,       \* "none", "alive" or "broken": self._executor
    future,     \* state of each submitted template's future
    collected,  \* templates whose results on_result has seen
    \* the environment
    tasks, signals, faults,
    seen        \* phases of this task in which a signal was delivered

database == <<history, workload, processed, stored, progress, applied>>
local    == <<flag, abort, raised, chain, work, previously, payloads, cur,
              rules, status, processedStat>>
poolvars == <<pool, future, collected>>
env      == <<tasks, signals, faults, seen>>
vars     == <<database, expired, pc, handler, local, poolvars, env>>

Tasks == 1..MaxTasks
Pair  == Tasks \X Templates

Prep     == {"resume", "chain", "load", "filter", "checkpoint"}
PoolStep == {"create", "submit", "submitting", "collect", "store", "mark",
             "leave"}
Applying == {"shutdown", "master", "apply"}
Final    == {"finally", "progress", "record"}

Status == {"completed", "interrupted", "failed"}
Phase  == {"prep", "gap", "pool", "late"}

\* A history row.  The code keeps task and status; chain, collected and seen
\* remember what the task did, for the properties.
Row == [task : Tasks, status : Status, chain : SUBSET Tasks,
        collected : SUBSET Templates, seen : SUBSET Phase]

Null == MaxTasks + Cardinality(Templates) + 1  \* SQL NULL in task_progress

-----------------------------------------------------------------------------
TypeOK ==
    /\ history \in Seq(Row)
    /\ expired \in 0..Len(history)
    /\ workload \in [Tasks -> SUBSET Templates]
    /\ processed \subseteq Pair
    /\ stored \subseteq Pair
    /\ progress \in [Tasks -> 0..Cardinality(Templates) \cup {Null}]
    /\ applied \subseteq Pair
    /\ pc \in {"idle", "pool"} \cup Prep \cup PoolStep \cup Applying \cup Final
    /\ handler \in {"default", "executor", "pool"}
    /\ flag \in BOOLEAN /\ abort \in BOOLEAN /\ raised \in BOOLEAN
    /\ chain \subseteq Tasks
    /\ work \subseteq Templates
    /\ previously \in 0..Cardinality(Templates)
    /\ payloads \subseteq Templates
    /\ cur \in Templates \cup {NoTemplate}
    /\ rules \subseteq Templates
    /\ status \in Status
    /\ processedStat \in 0..Cardinality(Templates)
    /\ pool \in {"none", "alive", "broken"}
    /\ future \in [Templates -> {"none", "pending", "running", "dying",
                                 "ok", "fail", "broken", "cancelled"}]
    /\ collected \subseteq Templates
    /\ tasks \in 0..MaxTasks
    /\ signals \in 0..MaxSignals
    /\ faults \in 0..MaxFaults
    /\ seen \subseteq Phase

Init ==
    /\ history = <<>>
    /\ expired = 0
    /\ workload = [n \in Tasks |-> {}]
    /\ processed = {}
    /\ stored = {}
    /\ progress = [n \in Tasks |-> Null]
    /\ applied = {}
    /\ pc = "idle"
    /\ handler = "default"
    /\ flag = FALSE
    /\ abort = FALSE
    /\ raised = FALSE
    /\ chain = {}
    /\ work = {}
    /\ previously = 0
    /\ payloads = {}
    /\ cur = NoTemplate
    /\ rules = {}
    /\ status = "failed"
    /\ processedStat = 0
    /\ pool = "none"
    /\ future = [t \in Templates |-> "none"]
    /\ collected = {}
    /\ tasks = 0
    /\ signals = 0
    /\ faults = 0
    /\ seen = {}

-----------------------------------------------------------------------------
Fault == /\ faults < MaxFaults
         /\ faults' = faults + 1

\* _update_progress is best effort: a failure is logged and swallowed.
UpdateProgress(n) ==
    \/ /\ progress' = [progress EXCEPT ![tasks] = n]
       /\ UNCHANGED faults
    \/ /\ Fault
       /\ UNCHANGED progress

Goto(here, there) == pc = here /\ pc' = there

-----------------------------------------------------------------------------
(* Preparing: resume detection, workload, filters, checkpoint. *)

\* A new process, with its task id; the executor's handler is installed first.
\* Without allow_resume the execution history is not read.
Start ==
    /\ pc = "idle"
    /\ tasks < MaxTasks
    /\ tasks' = tasks + 1
    /\ pc' \in {"resume", "load"}
    /\ handler' = "executor"
    /\ flag' = FALSE
    /\ abort' = FALSE
    /\ raised' = FALSE
    /\ chain' = {}
    /\ work' = {}
    /\ previously' = 0
    /\ payloads' = {}
    /\ cur' = NoTemplate
    /\ rules' = {}
    /\ status' = "failed"
    /\ processedStat' = 0
    /\ pool' = "none"
    /\ future' = [t \in Templates |-> "none"]
    /\ collected' = {}
    /\ seen' = {}
    /\ UNCHANGED <<database, expired, signals, faults>>

Recent == (expired + 1)..Len(history)

\* find_resumable_task looks at the node's newest row only.
FindResumable ==
    /\ pc = "resume"
    /\ pc' = IF Recent # {} /\ history[Len(history)].status = "interrupted"
             THEN "chain" ELSE "load"
    /\ UNCHANGED <<database, expired, handler, local, poolvars, env>>

\* Mutant: the walk does not stop at a row that is not interrupted.
AnyInterrupted == {i \in Recent : history[i].status = "interrupted"}

\* The newest rows, as far back as all of them are interrupted.
InterruptedSuffix ==
    {i \in Recent : \A j \in i..Len(history) : history[j].status = "interrupted"}

\* get_interrupted_chain, a second query.
GetChain ==
    /\ Goto("chain", "load")
    /\ chain' = {history[i].task : i \in InterruptedSuffix}
    /\ UNCHANGED <<database, expired, handler, flag, abort, raised, work,
                   previously, payloads, cur, rules, status, processedStat,
                   poolvars, env>>

\* preprocess saves a fresh workload under this task's id.
LoadWorkload ==
    /\ Goto("load", "filter")
    /\ workload' \in {[workload EXCEPT ![tasks] = w] : w \in SUBSET Templates}
    /\ UNCHANGED <<history, processed, stored, progress, applied, expired,
                   handler, local, poolvars, env>>

\* get_processed_templates over the chain.
ProcessedBy(ids) == {t \in Templates : \E n \in ids : <<n, t>> \in processed}

\* Mutant: templates of the chain that are not in this workload are counted.
CountedAsDone(ids, all) == Cardinality(ProcessedBy(ids))

\* Mutant: workload rows are counted instead of distinct templates.
CountedRows(ids, all) == Cardinality(processed \cap (ids \X all))

PreviouslyProcessed(ids, all) == Cardinality(ProcessedBy(ids) \cap all)

FilterProcessed ==
    /\ Goto("filter", "checkpoint")
    /\ previously' = PreviouslyProcessed(chain, workload[tasks])
    /\ work' = workload[tasks] \ ProcessedBy(chain)
    /\ UNCHANGED <<database, expired, handler, flag, abort, raised, chain,
                   payloads, cur, rules, status, processedStat, poolvars, env>>

\* A signal that came while preparing ends the task here.
StopAtCheckpoint ==
    /\ Goto("checkpoint", "finally")
    /\ flag
    /\ status' = "interrupted"
    /\ processedStat' = previously
    /\ UNCHANGED <<database, expired, handler, flag, abort, raised, chain, work,
                   previously, payloads, cur, rules, poolvars, env>>

NothingToDo ==
    /\ Goto("checkpoint", "finally")
    /\ ~flag
    /\ work = {}
    /\ status' = "completed"
    /\ processedStat' = previously
    /\ UNCHANGED <<database, expired, handler, flag, abort, raised, chain, work,
                   previously, payloads, cur, rules, poolvars, env>>

\* The most expensive templates, up to the limit, become payloads.
BuildPayloads ==
    /\ Goto("checkpoint", "pool")
    /\ ~flag
    /\ work # {}
    /\ payloads' \in {s \in SUBSET work :
            IF TemplateLimit = 0 \/ Cardinality(work) <= TemplateLimit
            THEN s = work ELSE Cardinality(s) = TemplateLimit}
    /\ UpdateProgress(previously)
    /\ UNCHANGED <<history, workload, processed, stored, applied, expired,
                   handler, flag, abort, raised, chain, work, previously, cur,
                   rules, status, processedStat, poolvars, tasks, signals,
                   seen>>

-----------------------------------------------------------------------------
(* The pool: execute_parallel and the result callback. *)

EnterPool ==
    /\ Goto("pool", "create")
    /\ abort' = FALSE
    /\ handler' = "pool"
    /\ UNCHANGED <<database, expired, flag, raised, chain, work, previously,
                   payloads, cur, rules, status, processedStat, poolvars, env>>

\* Mutant: the abort flag is reset after the handler was installed.
CreatePoolResetting ==
    /\ Goto("create", "submit")
    /\ pool' = "alive"
    /\ abort' = FALSE
    /\ UNCHANGED <<database, expired, handler, flag, raised, chain, work,
                   previously, payloads, cur, rules, status, processedStat,
                   future, collected, env>>

\* An exception of the constructor leaves execute_parallel.
CreatePool ==
    /\ pc = "create"
    /\ \/ /\ pool' = "alive"
          /\ pc' = "submit"
          /\ UNCHANGED <<raised, faults>>
       \/ /\ Fault
          /\ raised' = TRUE
          /\ pc' = "leave"
          /\ UNCHANGED pool
    /\ UNCHANGED <<database, expired, handler, flag, abort, chain, work,
                   previously, payloads, cur, rules, status, processedStat,
                   future, collected, tasks, signals, seen>>

Unsubmitted == {t \in payloads : future[t] = "none"}

\* The head of the submit loop: the abort check, then the next payload.
CheckAbort ==
    /\ pc = "submit"
    /\ IF abort \/ Unsubmitted = {}
       THEN pc' = "collect" /\ UNCHANGED cur
       ELSE pc' = "submitting" /\ cur' \in Unsubmitted
    /\ UNCHANGED <<database, expired, handler, flag, abort, raised, chain, work,
                   previously, payloads, rules, status, processedStat, poolvars,
                   env>>

\* self._executor.submit; it raises when the signal handler has taken the
\* executor away since the check, and when a worker's death broke the pool.
Submit ==
    /\ pc = "submitting"
    /\ IF pool = "alive"
       THEN /\ future' = [future EXCEPT ![cur] = "pending"]
            /\ pc' = "submit"
            /\ UNCHANGED raised
       ELSE /\ raised' = TRUE
            /\ pc' = "leave"
            /\ UNCHANGED future
    /\ cur' = NoTemplate
    /\ UNCHANGED <<database, expired, handler, flag, abort, chain, work,
                   previously, payloads, rules, status, processedStat, pool,
                   collected, env>>

Finished(t)  == future[t] \in {"ok", "fail", "broken", "cancelled"}
Uncollected  == {t \in payloads : future[t] # "none"} \ collected

\* as_completed yields a finished future; an abort ends the loop instead.
Collect(t) ==
    /\ Goto("collect", "store")
    /\ ~abort
    /\ t \in Uncollected
    /\ Finished(t)
    /\ cur' = t
    /\ collected' = collected \cup {t}
    /\ UNCHANGED <<database, expired, handler, flag, abort, raised, chain, work,
                   previously, payloads, rules, status, processedStat, pool,
                   future, env>>

EndCollect ==
    /\ Goto("collect", "leave")
    /\ \/ Uncollected = {}
       \/ abort /\ \E t \in Uncollected : Finished(t)
    /\ UNCHANGED <<database, expired, handler, local, poolvars, env>>

\* on_result: rules of a success are stored, and applied later only if storing
\* them did not raise ("ok" is a success with rules, "fail" any other result).
StoreRules ==
    /\ Goto("store", "mark")
    /\ \/ /\ future[cur] = "ok"
          /\ stored' = stored \cup {<<tasks, cur>>}
          /\ rules' = rules \cup {cur}
          /\ UNCHANGED faults
       \/ /\ future[cur] = "ok"
          /\ Fault
          /\ stored' \in {stored, stored \cup {<<tasks, cur>>}}
          /\ UNCHANGED rules
       \/ /\ future[cur] # "ok"
          /\ UNCHANGED <<stored, rules, faults>>
    /\ UNCHANGED <<history, workload, processed, progress, applied, expired,
                   handler, flag, abort, raised, chain, work, previously,
                   payloads, cur, status, processedStat, poolvars, tasks,
                   signals, seen>>

\* Mutant: every template handed to the pool counts as processed.
HandledNow == {t \in payloads : future[t] # "none"}

Handled == {cur}

\* mark_processed, on success and on failure; its own failure is swallowed, and
\* the update of task_progress behind it can fail with it.
MarkProcessed ==
    /\ Goto("mark", "collect")
    /\ \/ /\ processed' = processed \cup ({tasks} \X Handled)
          /\ UpdateProgress(previously + Cardinality(collected))
       \/ /\ Fault
          /\ UNCHANGED processed
          /\ progress' \in {progress,
                            [progress EXCEPT
                               ![tasks] = previously + Cardinality(collected)]}
    /\ cur' = NoTemplate
    /\ UNCHANGED <<history, workload, stored, applied, expired, handler, flag,
                   abort, raised, chain, work, previously, payloads, rules,
                   status, processedStat, poolvars, tasks, signals, seen>>

\* The pool manager's finally: the executor's handler again, before waiting.
LeavePool ==
    /\ Goto("leave", "shutdown")
    /\ handler' = "executor"
    /\ UNCHANGED <<database, expired, local, poolvars, env>>

\* shutdown(wait=True), then the results are returned or the exception is
\* re-raised, which ends the task as failed.
Shutdown ==
    /\ pc = "shutdown"
    /\ pool = "alive" => \A t \in payloads : future[t] = "none" \/ Finished(t)
    /\ pool' = "none"
    /\ IF raised
       THEN pc' = "finally" /\ UNCHANGED <<processedStat, progress, faults>>
       ELSE /\ pc' = "master"
            /\ processedStat' = previously + Cardinality(collected)
            /\ UpdateProgress(processedStat')
    /\ UNCHANGED <<history, workload, processed, stored, applied, expired,
                   handler, flag, abort, raised, chain, work, previously,
                   payloads, cur, rules, status, future, collected, tasks,
                   signals, seen>>

-----------------------------------------------------------------------------
(* The worker processes. *)

Running == {t \in Templates : future[t] = "running"}

WorkerStart(t) ==
    /\ pool = "alive"
    /\ future[t] = "pending"
    /\ Cardinality(Running) < Workers
    /\ future' = [future EXCEPT ![t] = "running"]
    /\ UNCHANGED <<database, expired, pc, handler, local, pool, collected, env>>

\* optimize_template_worker returns a result in every case, good or bad; one
\* that was sent SIGTERM may still get its result out.
WorkerFinish(t) ==
    /\ \/ /\ pool = "alive"
          /\ future[t] = "running"
          /\ future' \in {[future EXCEPT ![t] = r] : r \in {"ok", "fail"}}
       \/ /\ future[t] = "dying"
          /\ future' \in {[future EXCEPT ![t] = r] : r \in {"ok", "fail", "broken"}}
    /\ UNCHANGED <<database, expired, pc, handler, local, pool, collected, env>>

Unfinished(t) == future[t] \in {"pending", "running"}

\* A worker process dies: every unfinished future gets BrokenProcessPool.
WorkerDies ==
    /\ pool = "alive"
    /\ \E t \in Templates : future[t] # "none"
    /\ Fault
    /\ pool' = "broken"
    /\ future' = [t \in Templates |->
                     IF Unfinished(t) THEN "broken" ELSE future[t]]
    /\ UNCHANGED <<database, expired, pc, handler, local, collected, tasks,
                   signals, seen>>

-----------------------------------------------------------------------------
(* Applying and finishing. *)

\* query_master_node_info and the connection to the master.
ConnectMaster ==
    /\ Goto("master", "apply")
    /\ UNCHANGED <<database, expired, handler, local, poolvars, env>>

\* Rules stored by this task whose template the applier has not reached.
ToApply == rules \ {t \in Templates : <<tasks, t>> \in applied}

\* apply_rules: one template, whose failure is counted and swallowed.
ApplyTemplate(t) ==
    /\ pc = "apply"
    /\ t \in ToApply
    /\ applied' = applied \cup {<<tasks, t>>}
    /\ UNCHANGED <<history, workload, processed, stored, progress, expired, pc,
                   handler, local, poolvars, env>>

ApplyFails(t) ==
    /\ pc = "apply"
    /\ t \in ToApply
    /\ Fault
    /\ rules' = rules \ {t}
    /\ UNCHANGED <<database, expired, pc, handler, flag, abort, raised, chain,
                   work, previously, payloads, cur, status, processedStat,
                   poolvars, tasks, signals, seen>>

\* Mutant: an interrupted task does not apply what it generated.
AppliedEnough == ToApply = {} \/ abort

AllApplied == ToApply = {}

EndApply ==
    /\ Goto("apply", "finally")
    /\ AllApplied
    /\ status' = IF abort THEN "interrupted" ELSE "completed"
    /\ UNCHANGED <<database, expired, handler, flag, abort, raised, chain, work,
                   previously, payloads, cur, rules, processedStat, poolvars,
                   env>>

\* A step outside the pool raises: the task stays failed.
StepRaises ==
    /\ pc \in {"resume", "chain", "load", "filter", "master"}
    /\ Fault
    /\ pc' = "finally"
    /\ UNCHANGED <<database, expired, handler, local, poolvars, tasks, signals,
                   seen>>

\* The finally block gives the signal back its default action, which kills.
RestoreHandler ==
    /\ Goto("finally", "progress")
    /\ handler' = "default"
    /\ UNCHANGED <<database, expired, local, poolvars, env>>

FinalProgress ==
    /\ Goto("progress", "record")
    /\ UpdateProgress(processedStat)
    /\ UNCHANGED <<history, workload, processed, stored, applied, expired,
                   handler, local, poolvars, tasks, signals, seen>>

\* ExecutionHistoryController.record; a failure is swallowed.
RecordHistory ==
    /\ Goto("record", "idle")
    /\ \/ /\ history' = Append(history,
                           [task |-> tasks, status |-> status, chain |-> chain,
                            collected |-> collected, seen |-> seen])
          /\ UNCHANGED faults
       \/ /\ Fault
          /\ UNCHANGED history
    /\ UNCHANGED <<workload, processed, stored, progress, applied, expired,
                   handler, local, poolvars, tasks, signals, seen>>

-----------------------------------------------------------------------------
(* Signals, kills and time. *)

PhaseNow ==
    CASE handler = "pool" -> "pool"
      [] pc \in Prep      -> "prep"
      [] pc = "pool"      -> "gap"
      [] OTHER            -> "late"

\* Mutant: the futures not yet running are not cancelled.
TerminateRunning ==
    [t \in Templates |-> IF future[t] = "running" THEN "dying" ELSE future[t]]

\* Mutant: the worker processes are not killed.
CancelPending ==
    [t \in Templates |-> IF future[t] = "pending" THEN "cancelled" ELSE future[t]]

\* _terminate_pool: cancel what is pending, send SIGTERM to what is running and
\* do not wait for its end.
Terminated ==
    [t \in Templates |-> CASE future[t] = "pending" -> "cancelled"
                           [] future[t] = "running" -> "dying"
                           [] OTHER                 -> future[t]]

\* SIGUSR1 under the executor's handler only sets its flag.
SignalExecutor ==
    /\ handler = "executor"
    /\ signals < MaxSignals
    /\ signals' = signals + 1
    /\ seen' = seen \cup {PhaseNow}
    /\ flag' = TRUE
    /\ UNCHANGED <<database, expired, pc, handler, abort, raised, chain, work,
                   previously, payloads, cur, rules, status, processedStat,
                   poolvars, tasks, faults>>

\* SIGUSR1 under the pool manager's handler aborts and drops the executor.
SignalPool ==
    /\ handler = "pool"
    /\ signals < MaxSignals
    /\ signals' = signals + 1
    /\ seen' = seen \cup {PhaseNow}
    /\ abort' = TRUE
    /\ future' = IF pool = "none" THEN future ELSE Terminated
    /\ pool' = "none"
    /\ UNCHANGED <<database, expired, pc, handler, flag, raised, chain, work,
                   previously, payloads, cur, rules, status, processedStat,
                   collected, tasks, faults>>

\* Without a handler, or by SIGKILL, the process is gone; PDEATHSIG takes the
\* workers with it.
Killed ==
    /\ pc # "idle"
    /\ pc' = "idle"
    /\ handler' = "default"
    /\ pool' = "none"
    /\ UNCHANGED <<database, expired, local, future, collected, tasks>>

SignalKills ==
    /\ handler = "default"
    /\ signals < MaxSignals
    /\ signals' = signals + 1
    /\ seen' = seen \cup {PhaseNow}
    /\ Killed
    /\ UNCHANGED faults

Crash ==
    /\ Fault
    /\ Killed
    /\ UNCHANGED <<signals, seen>>

\* The oldest row leaves the resume window.  Time passes always; what it does
\* is put just before or between the two queries that look at the window.
Expire ==
    /\ pc \in {"resume", "chain"}
    /\ expired < Len(history)
    /\ expired' = expired + 1
    /\ UNCHANGED <<database, pc, handler, local, poolvars, env>>

-----------------------------------------------------------------------------
Prepare ==
    \/ FindResumable \/ GetChain \/ LoadWorkload \/ FilterProcessed
    \/ StopAtCheckpoint \/ NothingToDo \/ BuildPayloads

PoolManager ==
    \/ EnterPool \/ CreatePool \/ CheckAbort \/ Submit
    \/ \E t \in Templates : Collect(t)
    \/ EndCollect \/ StoreRules \/ MarkProcessed \/ LeavePool \/ Shutdown

ApplyAndFinish ==
    \/ ConnectMaster
    \/ \E t \in Templates : ApplyTemplate(t)
    \/ EndApply \/ RestoreHandler \/ FinalProgress \/ RecordHistory

Executor == Prepare \/ PoolManager \/ ApplyAndFinish

Worker(t) == WorkerStart(t) \/ WorkerFinish(t)

Failure ==
    \/ StepRaises \/ WorkerDies \/ Crash
    \/ \E t \in Templates : ApplyFails(t)

Signal == SignalExecutor \/ SignalPool \/ SignalKills

Next ==
    \/ Start \/ Executor \/ Failure \/ Signal \/ Expire
    \/ \E t \in Templates : Worker(t)

Spec == Init /\ [][Next]_vars

\* The executor and its workers keep running; tasks, signals, faults and the
\* passing of days are up to their environment.
FairSpec == Spec /\ WF_vars(Executor)
                 /\ \A t \in Templates : WF_vars(Worker(t))

-----------------------------------------------------------------------------
(* Properties. *)

Rows == 1..Len(history)

\* A SIGUSR1 delivered while the workload is prepared or while the pool runs
\* is never overlooked, although two handlers take turns and each knows only
\* its own flag: such a task does not report success.
SignalInterrupts ==
    \A i \in Rows :
        history[i].seen \cap {"prep", "pool"} # {}
            => history[i].status # "completed"

\* The rows between i and the newest earlier one that ended a round.
Round(i) == {j \in 1..i : \A k \in j..(i - 1) : history[k].status = "interrupted"}

\* A completed task ends a round: each template of its workload had a result
\* in this task or in an interrupted one since the last round, although tasks
\* were interrupted anywhere, results were lost with the pool and rows could
\* not be written.
RoundCovers ==
    TemplateLimit = 0 =>
        \A i \in Rows :
            history[i].status = "completed" =>
                workload[history[i].task]
                    \subseteq UNION {history[j].collected : j \in Round(i)}

\* task_progress never reports more templates than the task has, although a
\* resumed task counts those that earlier tasks handled in other workloads.
ProgressWithinWorkload ==
    \A n \in Tasks :
        progress[n] # Null => progress[n] <= Cardinality(workload[n])

\* Once the task is past its pool no worker goes on with a template: none runs
\* that was not sent SIGTERM, however the pool ended: drained, aborted by a signal
\* or broken.
NoWorkerAfterPool ==
    pc \in {"master", "apply"} \cup Final => Running = {}

\* Rules that a task stored and did not apply although it did not end as failed.
Unapplied ==
    {r \in stored \ applied : \E i \in Rows :
        history[i].task = r[1] /\ history[i].status # "failed"}

\* A rule that is stored reaches the instance, although a resumed task only
\* applies its own: what tasks that ended without failing, interrupted ones
\* included, did not apply is accounted for by failures, one for each, wherever
\* in the pool a signal came.
StoredIsApplied == Cardinality(Unapplied) <= faults

\* The tasks that ended, as TrainingRounds keeps them.
EndedTask(i) ==
    [outcome |-> history[i].status,
     wanted  |-> workload[history[i].task],
     results |-> history[i].collected,
     resumed |-> {j \in 1..(i - 1) : history[j].task \in history[i].chain}]

Ledger == [i \in Rows |-> EndedTask(i)]

Rounds == INSTANCE TrainingRounds
              WITH Template  <- Templates,
                   Limit     <- TemplateLimit,
                   ledger    <- Ledger,
                   disturbed <- faults > 0

\* Resuming through tables keeps what TrainingRounds promises: which rows a task
\* takes up was read by two queries, from a window that moves, and which results
\* count was marked one by one, yet tasks join without a gap, repeat no result
\* unless something failed, and leave no template out.
TrainsInRounds == Rounds!Spec

\* A task ends, although its pool is aborted or breaks while it waits for it.
TaskEnds == pc # "idle" ~> pc = "idle"

-----------------------------------------------------------------------------
(* What the documents say and the code does not do. *)

\* README.md: SIGUSR1 interrupts the training of a task in progress.  Yet one
\* delivered between the checkpoint and the pool manager's handler is lost.
NoSignalLost ==
    \A i \in Rows :
        "gap" \in history[i].seen => history[i].status # "completed"

\* docs/DESIGN_resume.md: a signal while optimizing ends as INTERRUPTED.  Yet
\* one between the abort check and the submit makes the task fail.
PoolSignalInterrupts ==
    \A i \in Rows :
        "pool" \in history[i].seen => history[i].status = "interrupted"

=============================================================================
