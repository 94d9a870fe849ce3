------------------------- MODULE TrainingTask_proofs -------------------------
(***************************************************************************)
(* Theorems about TrainingTask, for any templates, workloads, tasks,       *)
(* workers, signals and faults: how a task ends, whichever handler takes a *)
(* signal, and what a chain of resumed tasks has done when it is over.     *)
(***************************************************************************)
EXTENDS TrainingTask, TLAPS, FiniteSetTheorems, SequenceTheorems

\* The steps before the workload has been filtered.
Unfiltered == {"resume", "chain", "load", "filter"}

\* Where the executor is: which handler is installed, what a task in progress
\* would report, and which template it is at.
PlaceInv ==
    /\ pc # "idle" => tasks >= 1
    /\ handler = CASE pc \in PoolStep                     -> "pool"
                   [] pc \in {"idle", "progress", "record"} -> "default"
                   [] OTHER                               -> "executor"
    /\ pc \notin Final \cup {"idle"} => status = "failed"
    /\ pc \in {"store", "mark"} => cur \in collected
    /\ pc = "submitting" => cur \in Unsubmitted

\* A signal seen while preparing has its flag up until the checkpoint; one seen
\* by the pool's handler has the abort flag up until the status is set.
SignalInv ==
    /\ pc # "idle" /\ "prep" \in seen =>
          pc \in Prep \cup Final /\ flag /\ status # "completed"
    /\ pc # "idle" /\ "pool" \in seen =>
          pc \in PoolStep \cup Applying \cup Final /\ abort /\ status # "completed"
    /\ SignalInterrupts

\* Without an executor, or with a broken one, no future is unfinished.
PoolInv ==
    /\ pool = "alive" => pc \in (PoolStep \ {"create"}) \cup {"shutdown"}
    /\ pc # "idle" =>
          /\ pool # "alive" => \A t \in Templates : ~Unfinished(t)
          /\ \A t \in Templates : future[t] # "none" => t \in payloads
          /\ pc \in Prep \cup {"pool", "create"} =>
                \A t \in Templates : future[t] = "none"

\* What was processed before and what is left are parts of the workload.
CountInv ==
    /\ pc # "idle" =>
          /\ pc \in Unfiltered => work = {} /\ previously = 0 /\ processedStat = 0
          /\ pc \in Prep => payloads = {}
          /\ previously + Cardinality(work) <= Cardinality(workload[tasks])
          /\ processedStat <= Cardinality(workload[tasks])
          /\ work \subseteq workload[tasks]
          /\ payloads \subseteq work
          /\ collected \subseteq payloads
    /\ \A n \in Tasks :
          n > tasks \/ (n = tasks /\ pc \in {"resume", "chain", "load"})
              => progress[n] = Null
    /\ ProgressWithinWorkload

\* Metadata of a task is its own: rows, processed and stored templates.
RowsInv ==
    /\ \A i \in Rows :
          history[i].task <= tasks /\ (pc # "idle" => history[i].task < tasks)
    /\ \A i \in Rows, t \in Templates :
          <<history[i].task, t>> \in processed => t \in history[i].collected
    /\ \A n \in Tasks, t \in Templates : <<n, t>> \in processed \cup stored => n <= tasks
    /\ pc # "idle" => \A t \in Templates : <<tasks, t>> \in processed => t \in collected

\* The tasks of the chain are those of the newest rows, all interrupted.
ChainInv ==
    pc # "idle" => \A n \in chain : \E j \in Rows :
        /\ history[j].task = n
        /\ \A k \in j..Len(history) : history[k].status = "interrupted"

\* What a task leaves out was processed in its chain; what it took on it has
\* collected, unless it was aborted.
CoverInv ==
    /\ pc \in {"checkpoint", "pool"} \cup PoolStep \cup Applying
          \/ (pc \in Final /\ status = "completed")
       => workload[tasks] \ work \subseteq ProcessedBy(chain)
    /\ TemplateLimit = 0 /\ pc \in {"pool"} \cup PoolStep \cup Applying => payloads = work
    /\ pc \in {"collect", "store", "mark"} /\ ~abort => Unsubmitted = {}
    /\ \/ pc \in {"leave", "shutdown"} /\ ~raised
       \/ pc \in {"master", "apply"}
       => abort \/ payloads \subseteq collected
    /\ TemplateLimit = 0 /\ pc \in Final /\ status = "completed" => work \subseteq collected

\* Ended without failing, as its row says.
Ended(n) == \E i \in Rows : history[i].task = n /\ history[i].status # "failed"

\* Stored rules that will not be applied any more: those a task that ended left
\* and those the task in progress does not have in its list.
Lost ==
    {r \in stored \ applied :
        \/ Ended(r[1])
        \/ pc # "idle" /\ r[1] = tasks /\ r[2] \notin rules}

\* Each of them was lost by a failure of its own; a task has applied its list
\* when its status is set.
StoreInv ==
    /\ pc \in Prep => rules = {}
    /\ pc \in Final /\ status # "failed" =>
          \A t \in rules : <<tasks, t>> \in applied
    /\ Cardinality(Lost) <= faults

-----------------------------------------------------------------------------
\* The handlers take turns with the steps: what is installed follows from where
\* the executor is.
LEMMA PlaceKept ==
    ASSUME TypeOK, PlaceInv, PoolInv, CountInv, [Next]_vars
    PROVE  PlaceInv'
  <1>1. CASE Start
    BY <1>1
       DEF Start, vars, database, local, poolvars, env, Prep, PoolStep,
           Applying, Final, PlaceInv, TypeOK, Unsubmitted
  <1>2. CASE FindResumable \/ GetChain \/ LoadWorkload \/ FilterProcessed
             \/ StopAtCheckpoint \/ NothingToDo \/ BuildPayloads
    BY <1>2
       DEF FindResumable, GetChain, Goto, LoadWorkload, FilterProcessed,
           StopAtCheckpoint, NothingToDo, BuildPayloads, UpdateProgress, Fault,
           vars, database, local, poolvars, env, Prep, PoolStep, Applying,
           Final, PlaceInv, TypeOK, Unsubmitted
  <1>3. CASE EnterPool \/ CreatePool \/ CheckAbort \/ Submit
    BY <1>3
       DEF EnterPool, Goto, CreatePool, Fault, CheckAbort, Submit, vars, database,
           local, poolvars, env, Prep, PoolStep, Applying, Final, PlaceInv,
           TypeOK, Unsubmitted
  <1>4. ASSUME NEW t \in Templates,
             Collect(t)
      PROVE  PlaceInv'
    BY <1>4
       DEF Collect, Goto, vars, database, local, poolvars, env, Prep, PoolStep,
           Applying, Final, PlaceInv, TypeOK, Unsubmitted
  <1>5. CASE EndCollect \/ StoreRules \/ MarkProcessed \/ LeavePool
             \/ Shutdown
    BY <1>5
       DEF EndCollect, Goto, StoreRules, Fault, MarkProcessed, UpdateProgress,
           LeavePool, Shutdown, vars, database, local, poolvars, env, Prep,
           PoolStep, Applying, Final, PlaceInv, TypeOK, Unsubmitted
  <1>6. CASE ConnectMaster \/ EndApply \/ RestoreHandler \/ FinalProgress
             \/ RecordHistory \/ StepRaises
    BY <1>6
       DEF ConnectMaster, Goto, EndApply, RestoreHandler, FinalProgress,
           UpdateProgress, Fault, RecordHistory, StepRaises, vars, database,
           local, poolvars, env, Prep, PoolStep, Applying, Final, PlaceInv,
           TypeOK, Unsubmitted
  <1>7. ASSUME NEW t \in Templates,
             ApplyTemplate(t) \/ ApplyFails(t) \/ WorkerStart(t)
              \/ WorkerFinish(t)
      PROVE  PlaceInv'
    BY <1>7
       DEF ApplyTemplate, ApplyFails, Fault, WorkerStart, WorkerFinish, vars,
           database, local, poolvars, env, Prep, PoolStep, Applying, Final,
           PlaceInv, TypeOK, Unsubmitted
  <1>8. CASE WorkerDies \/ SignalExecutor \/ SignalPool \/ Expire
    BY <1>8
       DEF WorkerDies, Fault, SignalExecutor, SignalPool, Expire, vars,
           database, local, poolvars, env, Prep, PoolStep, Applying, Final,
           PlaceInv, TypeOK, Unsubmitted, Terminated, Unfinished
  <1>9. CASE Crash \/ SignalKills
    BY <1>9
       DEF Crash, Killed, Fault, SignalKills, vars, database, local, poolvars,
           env, Prep, PoolStep, Applying, Final, PlaceInv, TypeOK, Unsubmitted
  <1>10. CASE UNCHANGED vars
    BY <1>10
       DEF vars, database, local, poolvars, env, Prep, PoolStep, Applying,
           Final, PlaceInv, TypeOK, Unsubmitted
  <1> QED  BY <1>1, <1>2, <1>3, <1>4, <1>5, <1>6, <1>7, <1>8, <1>9, <1>10
              DEF Next, Executor, Prepare, PoolManager, ApplyAndFinish,
                  Failure, Signal, Worker

\* No future is unfinished unless the executor is alive, and it is alive only
\* inside the pool manager.
LEMMA PoolKept ==
    ASSUME TypeOK, PlaceInv, PoolInv, [Next]_vars
    PROVE  PoolInv'
  <1>1. CASE Start
    BY <1>1
       DEF Start, vars, database, local, poolvars, env, Prep, PoolStep,
           Applying, Final, PlaceInv, PoolInv, TypeOK, Unfinished, Unsubmitted
  <1>2. CASE FindResumable \/ GetChain \/ LoadWorkload \/ FilterProcessed
             \/ StopAtCheckpoint \/ NothingToDo \/ BuildPayloads
    BY <1>2
       DEF FindResumable, GetChain, Goto, LoadWorkload, FilterProcessed,
           StopAtCheckpoint, NothingToDo, BuildPayloads, UpdateProgress, Fault,
           vars, database, local, poolvars, env, Prep, PoolStep, Applying,
           Final, PlaceInv, PoolInv, TypeOK, Unfinished, Unsubmitted
  <1>3. CASE EnterPool \/ CreatePool \/ CheckAbort \/ Submit
    BY <1>3
       DEF EnterPool, Goto, CreatePool, Fault, CheckAbort, Submit, vars, database,
           local, poolvars, env, Prep, PoolStep, Applying, Final, PlaceInv,
           PoolInv, TypeOK, Unfinished, Unsubmitted
  <1>4. ASSUME NEW t \in Templates,
             Collect(t)
      PROVE  PoolInv'
    BY <1>4
       DEF Collect, Goto, vars, database, local, poolvars, env, Prep, PoolStep,
           Applying, Final, PlaceInv, PoolInv, TypeOK, Unfinished, Unsubmitted
  <1>5. CASE EndCollect \/ StoreRules \/ MarkProcessed \/ LeavePool
             \/ Shutdown
    BY <1>5
       DEF EndCollect, Goto, StoreRules, Fault, MarkProcessed, UpdateProgress,
           LeavePool, Shutdown, vars, database, local, poolvars, env, Prep,
           PoolStep, Applying, Final, PlaceInv, PoolInv, TypeOK, Unfinished,
           Unsubmitted, Finished
  <1>6. CASE ConnectMaster \/ EndApply \/ RestoreHandler \/ FinalProgress
             \/ RecordHistory \/ StepRaises
    BY <1>6
       DEF ConnectMaster, Goto, EndApply, RestoreHandler, FinalProgress,
           UpdateProgress, Fault, RecordHistory, StepRaises, vars, database,
           local, poolvars, env, Prep, PoolStep, Applying, Final, PlaceInv,
           PoolInv, TypeOK, Unfinished, Unsubmitted
  <1>7. ASSUME NEW t \in Templates,
             ApplyTemplate(t) \/ ApplyFails(t) \/ WorkerStart(t)
              \/ WorkerFinish(t)
      PROVE  PoolInv'
    BY <1>7
       DEF ApplyTemplate, ApplyFails, Fault, WorkerStart, WorkerFinish, vars,
           database, local, poolvars, env, Prep, PoolStep, Applying, Final,
           PlaceInv, PoolInv, TypeOK, Unfinished, Unsubmitted
  <1>8. CASE WorkerDies \/ SignalExecutor \/ SignalPool \/ Expire
    BY <1>8
       DEF WorkerDies, Fault, SignalExecutor, SignalPool, Expire, vars,
           database, local, poolvars, env, Prep, PoolStep, Applying, Final,
           PlaceInv, PoolInv, TypeOK, Unfinished, Unsubmitted, Terminated
  <1>9. CASE Crash \/ SignalKills
    BY <1>9
       DEF Crash, Killed, Fault, SignalKills, vars, database, local, poolvars,
           env, Prep, PoolStep, Applying, Final, PlaceInv, PoolInv, TypeOK,
           Unfinished, Unsubmitted
  <1>10. CASE UNCHANGED vars
    BY <1>10
       DEF vars, database, local, poolvars, env, Prep, PoolStep, Applying,
           Final, PlaceInv, PoolInv, TypeOK, Unfinished, Unsubmitted
  <1> QED  BY <1>1, <1>2, <1>3, <1>4, <1>5, <1>6, <1>7, <1>8, <1>9, <1>10
              DEF Next, Executor, Prepare, PoolManager, ApplyAndFinish,
                  Failure, Signal, Worker

\* Task ids and the tasks of the rows are numbers.
LEMMA TasksAreNumbers ==
    ASSUME TypeOK
    PROVE  /\ tasks \in Nat
           /\ \A n \in Tasks : n \in Nat
           /\ \A i \in Rows : history[i] \in Row /\ history[i].task \in Nat
  <1>1. MaxTasks \in Nat
    BY TaskAssumption
  <1>2. \A i \in Rows : history[i] \in Row
    BY ElementOfSeq DEF TypeOK, Rows
  <1> QED  BY <1>1, <1>2 DEF TypeOK, Tasks, Row

\* The row a task in progress would write.
NewRow == [task |-> tasks, status |-> status, chain |-> chain, collected |-> collected,
           seen |-> seen]

\* Recording adds it and leaves the earlier rows alone.
LEMMA HistoryGrows ==
    ASSUME TypeOK, tasks >= 1, history' = Append(history, NewRow)
    PROVE  /\ Len(history) \in Nat
           /\ Rows' = Rows \cup {Len(history) + 1}
           /\ Len(history) + 1 \notin Rows
           /\ \A i \in Rows : history'[i] = history[i]
           /\ history'[Len(history) + 1] = NewRow
           /\ history' \in Seq(Row)
           /\ NewRow.task = tasks /\ NewRow.collected = collected
  <1>1. NewRow \in Row
    BY TaskAssumption DEF TypeOK, Row, NewRow, Tasks
  <1>2. /\ Len(history) \in Nat /\ history' \in Seq(Row)
        /\ Len(history') = Len(history) + 1
        /\ \A i \in 1..Len(history) : history'[i] = history[i]
        /\ history'[Len(history) + 1] = NewRow
    BY <1>1, AppendProperties, LenProperties DEF TypeOK
  <1> QED  BY <1>2 DEF Rows, NewRow

\* A flag that is up stays up until the step that reads it.
LEMMA SignalKept ==
    ASSUME TypeOK, PlaceInv, SignalInv, [Next]_vars
    PROVE  SignalInv'
  <1>1. CASE Start
    BY <1>1
       DEF Start, vars, database, local, poolvars, env, Prep, PoolStep,
           Applying, Final, PlaceInv, SignalInv, TypeOK, SignalInterrupts,
           Rows, PhaseNow
  <1>2. CASE FindResumable \/ GetChain \/ LoadWorkload \/ FilterProcessed
             \/ StopAtCheckpoint \/ NothingToDo \/ BuildPayloads
    BY <1>2
       DEF FindResumable, GetChain, Goto, LoadWorkload, FilterProcessed,
           StopAtCheckpoint, NothingToDo, BuildPayloads, UpdateProgress, Fault,
           vars, database, local, poolvars, env, Prep, PoolStep, Applying,
           Final, PlaceInv, SignalInv, TypeOK, SignalInterrupts, Rows, PhaseNow
  <1>3. CASE EnterPool \/ CreatePool \/ CheckAbort \/ Submit
    BY <1>3
       DEF EnterPool, Goto, CreatePool, Fault, CheckAbort, Submit, vars, database,
           local, poolvars, env, Prep, PoolStep, Applying, Final, PlaceInv,
           SignalInv, TypeOK, SignalInterrupts, Rows, PhaseNow
  <1>4. ASSUME NEW t \in Templates,
             Collect(t)
      PROVE  SignalInv'
    BY <1>4
       DEF Collect, Goto, vars, database, local, poolvars, env, Prep, PoolStep,
           Applying, Final, PlaceInv, SignalInv, TypeOK, SignalInterrupts,
           Rows, PhaseNow
  <1>5. CASE EndCollect \/ StoreRules \/ MarkProcessed \/ LeavePool
             \/ Shutdown
    BY <1>5
       DEF EndCollect, Goto, StoreRules, Fault, MarkProcessed, UpdateProgress,
           LeavePool, Shutdown, vars, database, local, poolvars, env, Prep,
           PoolStep, Applying, Final, PlaceInv, SignalInv, TypeOK,
           SignalInterrupts, Rows, PhaseNow
  <1>6. CASE ConnectMaster \/ EndApply \/ RestoreHandler \/ FinalProgress
             \/ StepRaises
    BY <1>6
       DEF ConnectMaster, Goto, EndApply, RestoreHandler, FinalProgress,
           UpdateProgress, Fault, StepRaises, vars, database,
           local, poolvars, env, Prep, PoolStep, Applying, Final, PlaceInv,
           SignalInv, TypeOK, SignalInterrupts, Rows, PhaseNow
  <1>7. ASSUME NEW t \in Templates,
             ApplyTemplate(t) \/ ApplyFails(t) \/ WorkerStart(t)
              \/ WorkerFinish(t)
      PROVE  SignalInv'
    BY <1>7
       DEF ApplyTemplate, ApplyFails, Fault, WorkerStart, WorkerFinish, vars,
           database, local, poolvars, env, Prep, PoolStep, Applying, Final,
           PlaceInv, SignalInv, TypeOK, SignalInterrupts, Rows, PhaseNow
  <1>8. CASE WorkerDies \/ SignalExecutor \/ SignalPool \/ Expire
    BY <1>8
       DEF WorkerDies, Fault, SignalExecutor, SignalPool, Expire, vars,
           database, local, poolvars, env, Prep, PoolStep, Applying, Final,
           PlaceInv, SignalInv, TypeOK, SignalInterrupts, Rows, PhaseNow
  <1>9. CASE Crash \/ SignalKills
    BY <1>9
       DEF Crash, Killed, Fault, SignalKills, vars, database, local, poolvars,
           env, Prep, PoolStep, Applying, Final, PlaceInv, SignalInv, TypeOK,
           SignalInterrupts, Rows, PhaseNow
  <1>10. CASE UNCHANGED vars
    BY <1>10
       DEF vars, database, local, poolvars, env, Prep, PoolStep, Applying,
           Final, PlaceInv, SignalInv, TypeOK, SignalInterrupts, Rows, PhaseNow
  <1>11. CASE RecordHistory
    <2>1. pc = "record" /\ pc' = "idle" /\ tasks >= 1
      BY <1>11 DEF RecordHistory, Goto, PlaceInv
    <2>2. seen \cap {"prep", "pool"} # {} => status # "completed"
      BY <2>1 DEF SignalInv
    <2>3. CASE UNCHANGED history
      BY <2>1, <2>3 DEF SignalInv, SignalInterrupts, Rows
    <2>4. CASE history' = Append(history, NewRow)
      <3>1. /\ Rows' = Rows \cup {Len(history) + 1}
            /\ \A i \in Rows : history'[i] = history[i]
            /\ history'[Len(history) + 1] = NewRow
        BY <2>1, <2>4, HistoryGrows
      <3>2. NewRow.seen = seen /\ NewRow.status = status
        BY DEF NewRow
      <3>3. SignalInterrupts'
        BY <2>2, <3>1, <3>2 DEF SignalInv, SignalInterrupts
      <3> QED  BY <2>1, <3>3 DEF SignalInv
    <2> QED  BY <1>11, <2>3, <2>4 DEF RecordHistory, NewRow
  <1> QED  BY <1>1, <1>2, <1>3, <1>4, <1>5, <1>6, <1>7, <1>8, <1>9, <1>10,
              <1>11
              DEF Next, Executor, Prepare, PoolManager, ApplyAndFinish,
                  Failure, Signal, Worker

\* What the metadata says of earlier tasks is not touched by the task in
\* progress.
LEMMA RowsKept ==
    ASSUME TypeOK, PlaceInv, RowsInv, [Next]_vars
    PROVE  RowsInv'
  <1>1. CASE Start
    BY <1>1, TasksAreNumbers
       DEF Start, vars, database, local, poolvars, env, Prep, PoolStep,
           Applying, Final, PlaceInv, RowsInv, TypeOK, Rows, Pair
  <1>2. CASE FindResumable \/ GetChain \/ LoadWorkload \/ FilterProcessed
             \/ StopAtCheckpoint \/ NothingToDo \/ BuildPayloads
    BY <1>2
       DEF FindResumable, GetChain, Goto, LoadWorkload, FilterProcessed,
           StopAtCheckpoint, NothingToDo, BuildPayloads, UpdateProgress, Fault,
           vars, database, local, poolvars, env, Prep, PoolStep, Applying,
           Final, PlaceInv, RowsInv, TypeOK, Rows, Pair
  <1>3. CASE EnterPool \/ CreatePool \/ CheckAbort \/ Submit
    BY <1>3
       DEF EnterPool, Goto, CreatePool, Fault, CheckAbort, Submit, vars, database,
           local, poolvars, env, Prep, PoolStep, Applying, Final, PlaceInv,
           RowsInv, TypeOK, Rows, Pair
  <1>4. ASSUME NEW t \in Templates,
             Collect(t)
      PROVE  RowsInv'
    BY <1>4
       DEF Collect, Goto, vars, database, local, poolvars, env, Prep, PoolStep,
           Applying, Final, PlaceInv, RowsInv, TypeOK, Rows, Pair
  <1>5. CASE EndCollect \/ StoreRules \/ MarkProcessed \/ LeavePool
             \/ Shutdown
    BY <1>5
       DEF EndCollect, Goto, StoreRules, Fault, MarkProcessed, UpdateProgress,
           LeavePool, Shutdown, vars, database, local, poolvars, env, Prep,
           PoolStep, Applying, Final, PlaceInv, RowsInv, TypeOK, Rows, Pair,
           Handled
  <1>6. CASE ConnectMaster \/ EndApply \/ RestoreHandler \/ FinalProgress
             \/ StepRaises
    BY <1>6
       DEF ConnectMaster, Goto, EndApply, RestoreHandler, FinalProgress,
           UpdateProgress, Fault, StepRaises, vars, database, local, poolvars,
           env, Prep, PoolStep, Applying, Final, PlaceInv, RowsInv, TypeOK,
           Rows, Pair
  <1>7. ASSUME NEW t \in Templates,
             ApplyTemplate(t) \/ ApplyFails(t) \/ WorkerStart(t)
              \/ WorkerFinish(t)
      PROVE  RowsInv'
    BY <1>7
       DEF ApplyTemplate, ApplyFails, Fault, WorkerStart, WorkerFinish, vars,
           database, local, poolvars, env, Prep, PoolStep, Applying, Final,
           PlaceInv, RowsInv, TypeOK, Rows, Pair
  <1>8. CASE WorkerDies \/ SignalExecutor \/ SignalPool \/ Expire
    BY <1>8
       DEF WorkerDies, Fault, SignalExecutor, SignalPool, Expire, vars,
           database, local, poolvars, env, Prep, PoolStep, Applying, Final,
           PlaceInv, RowsInv, TypeOK, Rows, Pair
  <1>9. CASE Crash \/ SignalKills
    BY <1>9
       DEF Crash, Killed, Fault, SignalKills, vars, database, local, poolvars,
           env, Prep, PoolStep, Applying, Final, PlaceInv, RowsInv, TypeOK,
           Rows, Pair
  <1>10. CASE RecordHistory
    <2>1. CASE UNCHANGED history
      BY <1>10, <2>1
         DEF RecordHistory, Goto, local, poolvars, env, Final, PlaceInv,
             RowsInv, Rows, Prep, PoolStep, Applying
    <2>2. CASE history' = Append(history, NewRow)
      <3>1. /\ pc = "record" /\ pc' = "idle"
            /\ UNCHANGED <<tasks, processed, stored, collected>>
        BY <1>10 DEF RecordHistory, Goto, local, poolvars, env
      <3>2. tasks >= 1
        BY <3>1 DEF PlaceInv
      <3>3. /\ Rows' = Rows \cup {Len(history) + 1}
            /\ \A i \in Rows : history'[i] = history[i]
            /\ history'[Len(history) + 1].task = tasks
            /\ history'[Len(history) + 1].collected = collected
        BY <2>2, <3>2, HistoryGrows
      <3>4. ASSUME NEW i \in Rows'
            PROVE  /\ history'[i].task <= tasks
                   /\ \A t \in Templates :
                         <<history'[i].task, t>> \in processed => t \in history'[i].collected
        BY <3>1, <3>3, TasksAreNumbers DEF RowsInv
      <3> QED  BY <3>1, <3>4 DEF RowsInv
    <2> QED  BY <1>10, <2>1, <2>2 DEF RecordHistory, NewRow
  <1>11. CASE UNCHANGED vars
    BY <1>11
       DEF vars, database, local, poolvars, env, Prep, PoolStep, Applying,
           Final, PlaceInv, RowsInv, TypeOK, Rows, Pair
  <1> QED  BY <1>1, <1>2, <1>3, <1>4, <1>5, <1>6, <1>7, <1>8, <1>9, <1>10,
              <1>11
              DEF Next, Executor, Prepare, PoolManager, ApplyAndFinish,
                  Failure, Signal, Worker

\* The chain a task has read stays the newest rows: no other task writes one.
LEMMA ChainKept ==
    ASSUME TypeOK, PlaceInv, ChainInv, [Next]_vars
    PROVE  ChainInv'
  <1>1. CASE Start
    BY <1>1
       DEF Start, vars, database, local, poolvars, env, ChainInv, Rows
  <1>2. CASE FindResumable \/ LoadWorkload \/ FilterProcessed
             \/ StopAtCheckpoint \/ NothingToDo \/ BuildPayloads
    BY <1>2
       DEF FindResumable, LoadWorkload, Goto, FilterProcessed,
           StopAtCheckpoint, NothingToDo, BuildPayloads, UpdateProgress, Fault,
           vars, database, local, poolvars, env, ChainInv, Rows
  <1>3. CASE EnterPool \/ CreatePool \/ CheckAbort \/ Submit
    BY <1>3
       DEF EnterPool, Goto, CreatePool, Fault, CheckAbort, Submit, vars, database,
           local, poolvars, env, ChainInv, Rows
  <1>4. ASSUME NEW t \in Templates,
             Collect(t)
      PROVE  ChainInv'
    BY <1>4
       DEF Collect, Goto, vars, database, local, poolvars, env, ChainInv, Rows
  <1>5. CASE EndCollect \/ StoreRules \/ MarkProcessed \/ LeavePool
             \/ Shutdown
    BY <1>5
       DEF EndCollect, Goto, StoreRules, Fault, MarkProcessed, UpdateProgress,
           LeavePool, Shutdown, vars, database, local, poolvars, env, ChainInv,
           Rows
  <1>6. CASE ConnectMaster \/ EndApply \/ RestoreHandler \/ FinalProgress
             \/ StepRaises
    BY <1>6
       DEF ConnectMaster, Goto, EndApply, RestoreHandler, FinalProgress,
           UpdateProgress, Fault, StepRaises, vars, database, local, poolvars,
           env, ChainInv, Rows
  <1>7. ASSUME NEW t \in Templates,
             ApplyTemplate(t) \/ ApplyFails(t) \/ WorkerStart(t)
              \/ WorkerFinish(t)
      PROVE  ChainInv'
    BY <1>7
       DEF ApplyTemplate, ApplyFails, Fault, WorkerStart, WorkerFinish, vars,
           database, local, poolvars, env, ChainInv, Rows
  <1>8. CASE WorkerDies \/ SignalExecutor \/ SignalPool \/ Expire
    BY <1>8
       DEF WorkerDies, Fault, SignalExecutor, SignalPool, Expire, vars,
           database, local, poolvars, env, ChainInv, Rows
  <1>9. CASE Crash \/ SignalKills
    BY <1>9
       DEF Crash, Killed, Fault, SignalKills, vars, database, local, poolvars,
           env, ChainInv, Rows
  <1>10. CASE GetChain
    <2>1. chain' = {history[i].task : i \in InterruptedSuffix} /\ history' = history
      BY <1>10 DEF GetChain, database
    <2>2. \A i \in InterruptedSuffix : i \in Rows
             /\ \A k \in i..Len(history) : history[k].status = "interrupted"
      BY LenProperties DEF InterruptedSuffix, Recent, Rows, TypeOK
    <2> QED  BY <2>1, <2>2 DEF ChainInv, Rows
  <1>11. CASE RecordHistory
    BY <1>11 DEF RecordHistory, Goto, ChainInv
  <1>12. CASE UNCHANGED vars
    BY <1>12
       DEF vars, database, local, poolvars, env, ChainInv, Rows
  <1> QED  BY <1>1, <1>2, <1>3, <1>4, <1>5, <1>6, <1>7, <1>8, <1>9, <1>10,
              <1>11, <1>12
              DEF Next, Executor, Prepare, PoolManager, ApplyAndFinish,
                  Failure, Signal, Worker

\* The pairs of a task and a template are finitely many.
LEMMA PairsAreFinite == IsFiniteSet(Pair)
  <1>1. IsFiniteSet(1..MaxTasks)
    BY TaskAssumption, FS_Interval
  <1>2. IsFiniteSet(Templates)
    BY TaskAssumption
  <1> QED  BY <1>1, <1>2, FS_Product, Zenon DEF Pair, Tasks

\* Every step counts one failure at most.
LEMMA FaultStep ==
    ASSUME TypeOK, [Next]_vars
    PROVE  faults \in Nat /\ (faults' = faults \/ faults' = faults + 1)
  <1>1. faults \in Nat
    BY TaskAssumption DEF TypeOK
  <1>2. CASE Start \/ Prepare
    BY <1>1, <1>2
       DEF Start, Prepare, FindResumable, GetChain, LoadWorkload, FilterProcessed,
           StopAtCheckpoint, NothingToDo, BuildPayloads, UpdateProgress, Fault, env
  <1>3. CASE PoolManager
    BY <1>1, <1>3
       DEF PoolManager, EnterPool, CreatePool, CheckAbort, Submit, Collect,
           EndCollect, StoreRules, MarkProcessed, LeavePool, Shutdown,
           UpdateProgress, Fault, env
  <1>4. CASE ApplyAndFinish \/ Failure
    BY <1>1, <1>4
       DEF ApplyAndFinish, ConnectMaster, ApplyTemplate, EndApply, RestoreHandler,
           FinalProgress, RecordHistory, Failure, StepRaises, WorkerDies, Crash,
           Killed, ApplyFails, UpdateProgress, Fault, env
  <1>5. CASE Signal \/ Expire \/ (\E t \in Templates : Worker(t))
    BY <1>1, <1>5
       DEF Signal, SignalExecutor, SignalPool, SignalKills, Expire, Worker,
           WorkerStart, WorkerFinish, env
  <1>6. CASE UNCHANGED vars
    BY <1>1, <1>6 DEF vars, env
  <1> QED  BY <1>1, <1>2, <1>3, <1>4, <1>5, <1>6 DEF Next, Executor

\* Only five steps touch what decides which rules are lost.
LEMMA LostFramed ==
    ASSUME [Next]_vars
    PROVE  \/ /\ UNCHANGED <<history, stored, applied, tasks, rules>>
              /\ pc' # "idle" => pc # "idle"
           \/ Start
           \/ StoreRules
           \/ \E t \in Templates : ApplyTemplate(t) \/ ApplyFails(t)
           \/ RecordHistory
  <1>1. CASE Prepare
    BY <1>1
       DEF Prepare, FindResumable, GetChain, LoadWorkload, FilterProcessed,
           StopAtCheckpoint, NothingToDo, BuildPayloads, Goto, database, local, env
  <1>2. CASE PoolManager
    BY <1>2
       DEF PoolManager, EnterPool, CreatePool, CheckAbort, Submit, Collect,
           EndCollect, MarkProcessed, LeavePool, Shutdown, Goto, database, local, env
  <1>3. CASE ApplyAndFinish \/ Failure
    BY <1>3
       DEF ApplyAndFinish, ConnectMaster, EndApply, RestoreHandler,
           FinalProgress, Failure, StepRaises, WorkerDies, Crash, Killed, Goto,
           database, local, env
  <1>4. CASE Signal \/ Expire \/ (\E t \in Templates : Worker(t))
    BY <1>4
       DEF Signal, SignalExecutor, SignalPool, SignalKills, Killed, Expire,
           Worker, WorkerStart, WorkerFinish, database, local, env
  <1>5. CASE UNCHANGED vars
    BY <1>5 DEF vars, database, local, env
  <1> QED  BY <1>1, <1>2, <1>3, <1>4, <1>5 DEF Next, Executor

\* No step loses a rule without a failure, and none two at once.
LEMMA LostStep ==
    ASSUME TypeOK, PlaceInv, RowsInv, StoreInv, [Next]_vars
    PROVE  \/ Lost' \subseteq Lost
           \/ /\ faults' = faults + 1
              /\ \E x \in Pair : Lost' \subseteq Lost \cup {x}
  <1>1. CASE UNCHANGED <<history, stored, applied, tasks, rules>>
              /\ (pc' # "idle" => pc # "idle")
    BY <1>1 DEF Lost, Ended, Rows
  <1>2. CASE Start
    <2>1. /\ UNCHANGED <<history, stored, applied>>
          /\ tasks' = tasks + 1
      BY <1>2 DEF Start, database
    <2>2. \A x \in stored : x[1] # tasks'
      BY <2>1, TasksAreNumbers DEF TypeOK, Pair, RowsInv
    <2> QED  BY <2>1, <2>2 DEF Lost, Ended, Rows
  <1>3. CASE StoreRules
    <2>1. /\ UNCHANGED <<history, applied, tasks>>
          /\ pc # "idle" /\ pc' # "idle"
          /\ cur \in collected /\ tasks \in Tasks
      BY <1>3, TaskAssumption
         DEF StoreRules, Goto, PlaceInv, TypeOK, Tasks
    <2>2. <<tasks, cur>> \in Pair
      BY <2>1 DEF Pair, TypeOK
    <2>3. CASE stored' = stored \cup {<<tasks, cur>>} /\ rules' = rules \cup {cur}
      <3>1. ~Ended(tasks)
        BY <2>1, TasksAreNumbers DEF RowsInv, Ended
      <3> QED  BY <2>1, <2>3, <3>1 DEF Lost, Ended, Rows
    <2>4. CASE stored' \in {stored, stored \cup {<<tasks, cur>>}}
                /\ faults' = faults + 1 /\ rules' = rules
      <3>1. Lost' \subseteq Lost \cup {<<tasks, cur>>}
        BY <2>1, <2>4 DEF Lost, Ended, Rows
      <3> QED  BY <2>2, <2>4, <3>1
    <2>5. CASE UNCHANGED <<stored, rules>>
      BY <2>1, <2>5 DEF Lost, Ended, Rows
    <2> QED  BY <1>3, <2>3, <2>4, <2>5 DEF StoreRules, Fault
  <1>4. ASSUME NEW t \in Templates, ApplyTemplate(t)
      PROVE  Lost' \subseteq Lost
    BY <1>4 DEF ApplyTemplate, local, env, Lost, Ended, Rows
  <1>5. ASSUME NEW t \in Templates, ApplyFails(t)
      PROVE  /\ faults' = faults + 1
             /\ \E x \in Pair : Lost' \subseteq Lost \cup {x}
    <2>1. /\ UNCHANGED <<history, stored, applied, tasks, pc>>
          /\ rules' = rules \ {t} /\ faults' = faults + 1 /\ pc = "apply"
      BY <1>5 DEF ApplyFails, Fault, database
    <2>2. <<tasks, t>> \in Pair
      BY <2>1, TaskAssumption DEF Pair, PlaceInv, TypeOK, Tasks
    <2>3. \A x \in stored : x = <<x[1], x[2]>>
      BY DEF TypeOK, Pair
    <2>4. Lost' \subseteq Lost \cup {<<tasks, t>>}
      BY <2>1, <2>3 DEF Lost, Ended, Rows
    <2> QED  BY <2>1, <2>2, <2>4
  <1>6. CASE RecordHistory
    <2>1. /\ pc = "record" /\ pc' = "idle"
          /\ UNCHANGED <<tasks, stored, applied, rules>>
      BY <1>6 DEF RecordHistory, Goto, local, poolvars, env
    <2>2. CASE UNCHANGED history
      BY <2>1, <2>2 DEF Lost, Ended, Rows
    <2>3. CASE history' = Append(history, NewRow)
      <3>1. /\ Rows' = Rows \cup {Len(history) + 1}
            /\ \A i \in Rows : history'[i] = history[i]
            /\ history'[Len(history) + 1] = NewRow
        BY <2>1, <2>3, HistoryGrows DEF PlaceInv
      <3>2. \A n : Ended(n)' => Ended(n) \/ (n = tasks /\ status # "failed")
        BY <3>1 DEF Ended, NewRow
      <3>3. \A x \in stored \ applied :
                x[1] = tasks /\ status # "failed" => x[2] \notin rules
        <4>1. \A x \in stored : x = <<x[1], x[2]>>
          BY DEF TypeOK, Pair
        <4> QED  BY <2>1, <4>1 DEF StoreInv, Final
      <3> QED  BY <2>1, <3>2, <3>3 DEF Lost
    <2> QED  BY <1>6, <2>2, <2>3 DEF RecordHistory, NewRow
  <1> QED  BY <1>1, <1>2, <1>3, <1>4, <1>5, <1>6, LostFramed

\* The list of rules is empty before the pool, and applied when the status says
\* that the task did not fail.
LEMMA ListKept ==
    ASSUME TypeOK, PlaceInv, StoreInv, [Next]_vars
    PROVE  /\ (pc \in Prep => rules = {})'
           /\ (pc \in Final /\ status # "failed" =>
                  \A t \in rules : <<tasks, t>> \in applied)'
  <1> DEFINE Goal == /\ pc \in Prep => rules = {}
                     /\ pc \in Final /\ status # "failed" =>
                           \A t \in rules : <<tasks, t>> \in applied
  <1>1. CASE Start
    BY <1>1
       DEF Start, database, local, poolvars, env,
           Prep, PoolStep, Applying, Final, PlaceInv, StoreInv, TypeOK
  <1>2. CASE FindResumable \/ GetChain \/ LoadWorkload \/ FilterProcessed
             \/ StopAtCheckpoint \/ NothingToDo \/ BuildPayloads
    BY <1>2
       DEF FindResumable, GetChain, Goto, LoadWorkload, FilterProcessed,
           StopAtCheckpoint, NothingToDo, BuildPayloads, database, local, poolvars, env,
           Prep, PoolStep, Applying, Final, PlaceInv, StoreInv, TypeOK
  <1>3. CASE EnterPool \/ CreatePool \/ CheckAbort \/ Submit
    BY <1>3
       DEF EnterPool, Goto, CreatePool, CheckAbort, Submit, database, local, poolvars, env,
           Prep, PoolStep, Applying, Final, PlaceInv, StoreInv, TypeOK
  <1>4. CASE EndCollect \/ StoreRules \/ MarkProcessed \/ LeavePool
             \/ Shutdown
    BY <1>4
       DEF EndCollect, Goto, StoreRules, MarkProcessed, LeavePool, Shutdown, database, local, poolvars, env,
           Prep, PoolStep, Applying, Final, PlaceInv, StoreInv, TypeOK
  <1>5. CASE ConnectMaster \/ EndApply \/ RestoreHandler \/ FinalProgress
             \/ RecordHistory \/ StepRaises
    BY <1>5
       DEF ConnectMaster, Goto, EndApply, RestoreHandler, FinalProgress,
           RecordHistory, StepRaises, AllApplied, ToApply, database, local, poolvars, env,
           Prep, PoolStep, Applying, Final, PlaceInv, StoreInv, TypeOK
  <1>6. ASSUME NEW t \in Templates,
             Collect(t) \/ ApplyTemplate(t) \/ ApplyFails(t) \/ Worker(t)
      PROVE  Goal'
    BY <1>6
       DEF Collect, Goto, ApplyTemplate, ApplyFails, Worker, WorkerStart,
           WorkerFinish, database, local, poolvars, env,
           Prep, PoolStep, Applying, Final, PlaceInv, StoreInv, TypeOK
  <1>7. CASE WorkerDies \/ SignalExecutor \/ SignalPool \/ Expire
    BY <1>7
       DEF WorkerDies, SignalExecutor, SignalPool, Expire, database, local, poolvars, env,
           Prep, PoolStep, Applying, Final, PlaceInv, StoreInv, TypeOK
  <1>8. CASE Crash \/ SignalKills
    BY <1>8
       DEF Crash, Killed, SignalKills, database, local, poolvars, env,
           Prep, PoolStep, Applying, Final, PlaceInv, StoreInv, TypeOK
  <1>9. CASE UNCHANGED vars
    BY <1>9
       DEF vars, database, local, poolvars, env,
           Prep, PoolStep, Applying, Final, PlaceInv, StoreInv, TypeOK
  <1> QED  BY <1>1, <1>2, <1>3, <1>4, <1>5, <1>6, <1>7, <1>8, <1>9
              DEF Next, Executor, Prepare, PoolManager, ApplyAndFinish,
                  Failure, Signal

\* The list is applied before the status is set, and rules are lost by failures
\* only.
LEMMA StoreKept ==
    ASSUME TypeOK, PlaceInv, RowsInv, StoreInv, [Next]_vars
    PROVE  StoreInv'
  <1>1. (pc \in Prep => rules = {})'
    BY ListKept
  <1>2. (pc \in Final /\ status # "failed" =>
            \A t \in rules : <<tasks, t>> \in applied)'
    BY ListKept
  <1>3. IsFiniteSet(Pair)
    BY PairsAreFinite
  <1>4. \A x \in Pair : IsFiniteSet(Lost \cup {x})
            /\ Cardinality(Lost \cup {x}) <= Cardinality(Lost) + 1
    <2>1. Lost \in SUBSET Pair
      BY DEF Lost, TypeOK
    <2>2. IsFiniteSet(Lost) /\ Cardinality(Lost) \in Nat
      BY <1>3, <2>1, FS_Subset, FS_CardinalityType
    <2>3. ASSUME NEW x \in Pair
          PROVE  IsFiniteSet(Lost \cup {x})
                 /\ Cardinality(Lost \cup {x}) =
                       IF x \in Lost THEN Cardinality(Lost) ELSE Cardinality(Lost) + 1
      BY <2>2, FS_AddElement, Zenon
    <2> QED  BY <2>2, <2>3
  <1>5. Cardinality(Lost') <= faults'
    <2>1. faults \in Nat /\ (faults' = faults \/ faults' = faults + 1)
      BY FaultStep
    <2>2. Lost \in SUBSET Pair
      BY DEF Lost, TypeOK
    <2>3. IsFiniteSet(Lost) /\ Cardinality(Lost) \in Nat /\ Cardinality(Lost) <= faults
      BY <1>3, <2>2, FS_Subset, FS_CardinalityType DEF StoreInv
    <2>4. CASE Lost' \subseteq Lost
      <3>1. IsFiniteSet(Lost') /\ Cardinality(Lost') <= Cardinality(Lost)
        BY <2>3, <2>4, FS_Subset
      <3>2. Cardinality(Lost') \in Nat
        BY <3>1, FS_CardinalityType
      <3> QED  BY <2>1, <2>3, <3>1, <3>2
    <2>5. ASSUME faults' = faults + 1, NEW x \in Pair, Lost' \subseteq Lost \cup {x}
          PROVE  Cardinality(Lost') <= faults'
      <3>1. IsFiniteSet(Lost') /\ Cardinality(Lost') <= Cardinality(Lost \cup {x})
        BY <1>4, <2>5, FS_Subset
      <3>2. Cardinality(Lost') \in Nat /\ Cardinality(Lost \cup {x}) \in Nat
        BY <1>4, <3>1, FS_CardinalityType
      <3> QED  BY <1>4, <2>1, <2>3, <2>5, <3>1, <3>2
    <2> QED  BY <2>4, <2>5, LostStep
  <1> QED  BY <1>1, <1>2, <1>5 DEF StoreInv

\* Sets of templates are finite and a part has no more members.
LEMMA PartsAreFinite ==
    ASSUME NEW S \in SUBSET Templates
    PROVE  /\ IsFiniteSet(S) /\ Cardinality(S) \in Nat
           /\ Cardinality(S) <= Cardinality(Templates)
           /\ \A T \in SUBSET S : Cardinality(T) <= Cardinality(S)
  BY TaskAssumption, FS_Subset, FS_CardinalityType

\* What is done and what is left add up to the whole.
LEMMA DoneAndLeft ==
    ASSUME NEW S \in SUBSET Templates, NEW T
    PROVE  Cardinality(T \cap S) + Cardinality(S \ T) = Cardinality(S)
  <1>1. Cardinality(S \ T) = Cardinality(S) - Cardinality(S \cap T)
    BY PartsAreFinite, FS_Difference
  <1>2. S \cap T = T \cap S /\ T \cap S \in SUBSET Templates
    OBVIOUS
  <1>3. Cardinality(S) \in Nat /\ Cardinality(T \cap S) \in Nat
    BY <1>2, PartsAreFinite
  <1> HIDE DEF TaskAssumption
  <1> QED  BY <1>1, <1>2, <1>3

\* The counts of a task in progress fit its workload.
LEMMA CountsFit ==
    ASSUME TypeOK, CountInv, pc # "idle", tasks >= 1
    PROVE  /\ tasks \in Tasks
           /\ Cardinality(workload[tasks]) \in 0..Cardinality(Templates)
           /\ Cardinality(Templates) \in Nat
           /\ previously \in 0..Cardinality(workload[tasks])
           /\ processedStat \in 0..Cardinality(workload[tasks])
           /\ previously + Cardinality(collected) \in 0..Cardinality(workload[tasks])
           /\ \A m \in 0..Cardinality(workload[tasks]) : m # Null
  <1>1. MaxTasks \in Nat
    BY TaskAssumption
  <1>2. tasks \in Tasks /\ workload[tasks] \in SUBSET Templates
    BY <1>1 DEF TypeOK, Tasks
  <1>3. /\ Cardinality(workload[tasks]) \in Nat /\ Cardinality(Templates) \in Nat
        /\ Cardinality(workload[tasks]) <= Cardinality(Templates)
    BY <1>2, PartsAreFinite
  <1>4. /\ Cardinality(work) \in Nat /\ Cardinality(collected) \in Nat
        /\ Cardinality(collected) <= Cardinality(work)
    <2>1. work \in SUBSET Templates /\ collected \in SUBSET work
      BY DEF CountInv, TypeOK
    <2> QED  BY <2>1, PartsAreFinite
  <1>5. previously \in Nat /\ processedStat \in Nat
    BY <1>3 DEF TypeOK
  <1> QED  BY <1>1, <1>2, <1>3, <1>4, <1>5 DEF CountInv, Null

\* The counts add up to no more than the workload: its templates are done, left
\* or collected, and none of them twice.
LEMMA CountKept ==
    ASSUME TypeOK, PlaceInv, CountInv, [Next]_vars
    PROVE  CountInv'
  <1>1. CASE Start
    BY <1>1, PartsAreFinite, TaskAssumption
       DEF Start, vars, database, local, poolvars, env, Prep, PoolStep,
           Applying, Final, CountInv, Unfiltered, ProgressWithinWorkload,
           TypeOK, Tasks
  <1>2. CASE LoadWorkload
    <2>1. PICK w \in SUBSET Templates : workload' = [workload EXCEPT ![tasks] = w]
      BY <1>2 DEF LoadWorkload
    <2>2. /\ pc = "load" /\ pc' = "filter" /\ UNCHANGED <<progress, poolvars, env>>
          /\ UNCHANGED <<work, previously, processedStat, payloads>>
      BY <1>2 DEF LoadWorkload, Goto, local
    <2>3. tasks \in Tasks /\ workload \in [Tasks -> SUBSET Templates]
      BY <2>2, TaskAssumption DEF PlaceInv, TypeOK, Tasks
    <2>4. work = {} /\ previously = 0 /\ processedStat = 0 /\ payloads = {} /\ collected = {}
      BY <2>2 DEF CountInv, Unfiltered, Prep
    <2>5. Cardinality({}) = 0 /\ Cardinality(w) \in Nat
      BY FS_EmptySet, PartsAreFinite
    <2>6. workload'[tasks] = w /\ \A n \in Tasks : n # tasks => workload'[n] = workload[n]
      BY <2>1, <2>3
    <2>7. progress[tasks] = Null /\ ProgressWithinWorkload
      BY <2>2, <2>3 DEF CountInv
    <2>8. ProgressWithinWorkload'
      BY <2>2, <2>6, <2>7 DEF ProgressWithinWorkload, Null, Tasks
    <2>9. \A n \in Tasks : n > tasks => progress[n] = Null
      BY DEF CountInv
    <2> QED  BY <2>2, <2>3, <2>4, <2>5, <2>6, <2>8, <2>9
             DEF CountInv, Unfiltered, Prep, Null, Tasks, poolvars, env
  <1>3. CASE FilterProcessed
    <2> DEFINE done == ProcessedBy(chain)
    <2> HIDE DEF done
    <2>1. /\ pc = "filter" /\ pc' = "checkpoint"
          /\ UNCHANGED <<workload, progress, processedStat, payloads, poolvars, env>>
          /\ previously' = Cardinality(done \cap workload[tasks])
          /\ work' = workload[tasks] \ done
      BY <1>3 DEF FilterProcessed, Goto, local, database, PreviouslyProcessed, done
    <2>2. tasks \in Tasks /\ workload[tasks] \in SUBSET Templates
      BY <2>1, TaskAssumption DEF PlaceInv, TypeOK, Tasks
    <2>3. previously' + Cardinality(work') = Cardinality(workload[tasks])
      BY <2>1, <2>2, DoneAndLeft
    <2>4. /\ processedStat = 0 /\ payloads = {} /\ collected = {}
          /\ \A n \in Tasks : n > tasks => progress[n] = Null
          /\ ProgressWithinWorkload
      BY <2>1 DEF CountInv, Unfiltered, Prep
    <2>5. Cardinality(workload[tasks]) \in Nat
      BY <2>2, PartsAreFinite
    <2>6. ProgressWithinWorkload'
      BY <2>1, <2>4 DEF ProgressWithinWorkload, Null, Tasks
    <2> QED  BY <2>1, <2>2, <2>3, <2>4, <2>5, <2>6
             DEF CountInv, Unfiltered, Prep, Null, Tasks, poolvars, env
  <1>4. CASE FindResumable \/ GetChain \/ StopAtCheckpoint \/ NothingToDo
    BY <1>4, CountsFit
       DEF FindResumable, GetChain, Goto, StopAtCheckpoint, NothingToDo, vars,
           database, local, poolvars, env, Prep, PoolStep, Applying, Final,
           CountInv, Unfiltered, ProgressWithinWorkload, PlaceInv
  <1>5. CASE BuildPayloads
    BY <1>5, CountsFit
       DEF BuildPayloads, Goto, UpdateProgress, Fault, vars, database, local,
           poolvars, env, Prep, PoolStep, Applying, Final, CountInv,
           Unfiltered, ProgressWithinWorkload, PlaceInv, TypeOK
  <1>6. CASE EnterPool \/ CreatePool \/ CheckAbort \/ Submit
    BY <1>6
       DEF EnterPool, Goto, CreatePool, Fault, CheckAbort, Submit, vars, database,
           local, poolvars, env, Prep, PoolStep, Applying, Final, CountInv,
           Unfiltered, ProgressWithinWorkload
  <1>7. ASSUME NEW t \in Templates,
             Collect(t)
      PROVE  CountInv'
    BY <1>7
       DEF Collect, Goto, vars, database, local, poolvars, env, Prep, PoolStep,
           Applying, Final, CountInv, Unfiltered, ProgressWithinWorkload,
           Uncollected
  <1>8. CASE EndCollect \/ StoreRules \/ LeavePool
    BY <1>8
       DEF EndCollect, Goto, StoreRules, Fault, LeavePool, vars, database,
           local, poolvars, env, Prep, PoolStep, Applying, Final, CountInv,
           Unfiltered, ProgressWithinWorkload
  <1>9. CASE MarkProcessed
    BY <1>9, CountsFit
       DEF MarkProcessed, Goto, UpdateProgress, Fault, vars, database, local,
           poolvars, env, Prep, PoolStep, Applying, Final, CountInv,
           Unfiltered, ProgressWithinWorkload, PlaceInv, TypeOK
  <1>10. CASE Shutdown
    BY <1>10, CountsFit
       DEF Shutdown, UpdateProgress, Fault, vars, database, local, poolvars,
           env, Prep, PoolStep, Applying, Final, CountInv, Unfiltered,
           ProgressWithinWorkload, PlaceInv, TypeOK
  <1>11. CASE ConnectMaster \/ EndApply \/ RestoreHandler \/ RecordHistory
              \/ StepRaises
    BY <1>11
       DEF ConnectMaster, Goto, EndApply, RestoreHandler, RecordHistory, Fault,
           StepRaises, vars, database, local, poolvars, env, Prep, PoolStep,
           Applying, Final, CountInv, Unfiltered, ProgressWithinWorkload
  <1>12. CASE FinalProgress
    BY <1>12, CountsFit
       DEF FinalProgress, Goto, UpdateProgress, Fault, vars, database, local,
           poolvars, env, Prep, PoolStep, Applying, Final, CountInv,
           Unfiltered, ProgressWithinWorkload, PlaceInv, TypeOK
  <1>13. ASSUME NEW t \in Templates,
             ApplyTemplate(t) \/ ApplyFails(t) \/ WorkerStart(t)
              \/ WorkerFinish(t)
      PROVE  CountInv'
    BY <1>13
       DEF ApplyTemplate, ApplyFails, Fault, WorkerStart, WorkerFinish, vars,
           database, local, poolvars, env, Prep, PoolStep, Applying, Final,
           CountInv, Unfiltered, ProgressWithinWorkload
  <1>14. CASE WorkerDies \/ SignalExecutor \/ SignalPool \/ Expire
    BY <1>14
       DEF WorkerDies, Fault, SignalExecutor, SignalPool, Expire, vars,
           database, local, poolvars, env, Prep, PoolStep, Applying, Final,
           CountInv, Unfiltered, ProgressWithinWorkload
  <1>15. CASE Crash \/ SignalKills
    BY <1>15
       DEF Crash, Killed, Fault, SignalKills, vars, database, local, poolvars,
           env, Prep, PoolStep, Applying, Final, CountInv, Unfiltered,
           ProgressWithinWorkload
  <1>16. CASE UNCHANGED vars
    BY <1>16
       DEF vars, database, local, poolvars, env, Prep, PoolStep, Applying,
           Final, CountInv, Unfiltered, ProgressWithinWorkload
  <1> QED  BY <1>1, <1>2, <1>3, <1>4, <1>5, <1>6, <1>7, <1>8, <1>9, <1>10,
              <1>11, <1>12, <1>13, <1>14, <1>15, <1>16
              DEF Next, Executor, Prepare, PoolManager, ApplyAndFinish,
                  Failure, Signal, Worker

\* From the filter to the status nothing of the workload is lost sight of.
LEMMA CoverKept ==
    ASSUME TypeOK, PlaceInv, CountInv, CoverInv, [Next]_vars
    PROVE  CoverInv'
  <1>1. CASE Start
    BY <1>1
       DEF Start, vars, database, local, poolvars, env, Prep, PoolStep,
           Applying, Final, CoverInv, PlaceInv
  <1>2. CASE FindResumable \/ GetChain \/ LoadWorkload
    BY <1>2
       DEF FindResumable, GetChain, Goto, LoadWorkload, vars, database, local,
           poolvars, env, Prep, PoolStep, Applying, Final, CoverInv, PlaceInv
  <1>3. CASE FilterProcessed \/ StopAtCheckpoint \/ NothingToDo
             \/ BuildPayloads
    BY <1>3
       DEF FilterProcessed, Goto, StopAtCheckpoint, NothingToDo, BuildPayloads,
           UpdateProgress, Fault, vars, database, local, poolvars, env, Prep,
           PoolStep, Applying, Final, CoverInv, PlaceInv, TypeOK,
           PreviouslyProcessed, ProcessedBy
  <1>4. CASE EnterPool \/ CreatePool \/ CheckAbort \/ Submit
    BY <1>4
       DEF EnterPool, Goto, CreatePool, Fault, CheckAbort, Submit, vars, database,
           local, poolvars, env, Prep, PoolStep, Applying, Final, CoverInv,
           PlaceInv, Unsubmitted, TypeOK, ProcessedBy
  <1>5. ASSUME NEW t \in Templates,
             Collect(t)
      PROVE  CoverInv'
    BY <1>5
       DEF Collect, Goto, vars, database, local, poolvars, env, Prep, PoolStep,
           Applying, Final, CoverInv, PlaceInv, Unsubmitted, ProcessedBy
  <1>6. CASE EndCollect \/ StoreRules \/ MarkProcessed \/ LeavePool
             \/ Shutdown
    BY <1>6
       DEF EndCollect, Goto, StoreRules, Fault, MarkProcessed, UpdateProgress,
           LeavePool, Shutdown, vars, database, local, poolvars, env, Prep,
           PoolStep, Applying, Final, CoverInv, PlaceInv, Unsubmitted,
           Uncollected, ProcessedBy, TypeOK
  <1>7. CASE ConnectMaster \/ EndApply \/ RestoreHandler \/ FinalProgress
             \/ RecordHistory \/ StepRaises
    BY <1>7
       DEF ConnectMaster, Goto, EndApply, RestoreHandler, FinalProgress,
           UpdateProgress, Fault, RecordHistory, StepRaises, vars, database,
           local, poolvars, env, Prep, PoolStep, Applying, Final, CoverInv,
           PlaceInv, ProcessedBy, TypeOK, CountInv
  <1>8. ASSUME NEW t \in Templates,
             ApplyTemplate(t) \/ ApplyFails(t) \/ WorkerStart(t)
              \/ WorkerFinish(t)
      PROVE  CoverInv'
    BY <1>8
       DEF ApplyTemplate, ApplyFails, Fault, WorkerStart, WorkerFinish, vars,
           database, local, poolvars, env, Prep, PoolStep, Applying, Final,
           CoverInv, PlaceInv, Unsubmitted, ProcessedBy, TypeOK
  <1>9. CASE WorkerDies \/ SignalExecutor \/ SignalPool \/ Expire
    BY <1>9
       DEF WorkerDies, Fault, SignalExecutor, SignalPool, Expire, vars,
           database, local, poolvars, env, Prep, PoolStep, Applying, Final,
           CoverInv, PlaceInv, Unsubmitted, ProcessedBy, Terminated,
           Unfinished, TypeOK
  <1>10. CASE Crash \/ SignalKills
    BY <1>10
       DEF Crash, Killed, Fault, SignalKills, vars, database, local, poolvars,
           env, Prep, PoolStep, Applying, Final, CoverInv, PlaceInv,
           ProcessedBy
  <1>11. CASE UNCHANGED vars
    BY <1>11
       DEF vars, database, local, poolvars, env, Prep, PoolStep, Applying,
           Final, CoverInv, PlaceInv, Unsubmitted, ProcessedBy
  <1> QED  BY <1>1, <1>2, <1>3, <1>4, <1>5, <1>6, <1>7, <1>8, <1>9, <1>10,
              <1>11
              DEF Next, Executor, Prepare, PoolManager, ApplyAndFinish,
                  Failure, Signal, Worker

\* Only saving a workload and recording a row change what a round is about.
LEMMA RowsFramed ==
    ASSUME [Next]_vars
    PROVE  \/ UNCHANGED <<history, workload>>
           \/ LoadWorkload
           \/ RecordHistory
  <1>1. CASE Start \/ Prepare
    BY <1>1
       DEF Start, Prepare, FindResumable, GetChain, FilterProcessed,
           StopAtCheckpoint, NothingToDo, BuildPayloads, database
  <1>2. CASE PoolManager
    BY <1>2
       DEF PoolManager, EnterPool, CreatePool, CheckAbort, Submit, Collect,
           EndCollect, StoreRules, MarkProcessed, LeavePool, Shutdown, database
  <1>3. CASE ApplyAndFinish \/ Failure
    BY <1>3
       DEF ApplyAndFinish, ConnectMaster, ApplyTemplate, EndApply,
           RestoreHandler, FinalProgress, Failure, StepRaises, WorkerDies,
           Crash, Killed, ApplyFails, database
  <1>4. CASE Signal \/ Expire \/ (\E t \in Templates : Worker(t))
    BY <1>4
       DEF Signal, SignalExecutor, SignalPool, SignalKills, Killed, Expire,
           Worker, WorkerStart, WorkerFinish, database
  <1>5. CASE UNCHANGED vars
    BY <1>5 DEF vars, database
  <1> QED  BY <1>1, <1>2, <1>3, <1>4, <1>5 DEF Next, Executor

\* The row a completed task adds has its workload covered: what it left out was
\* processed by its chain, whose rows are the interrupted ones just before it.
LEMMA RowCovered ==
    ASSUME TypeOK, PlaceInv, RowsInv, ChainInv, CoverInv, RecordHistory,
           history' = Append(history, NewRow), status = "completed",
           TemplateLimit = 0, NEW new, new = Len(history) + 1
    PROVE  workload[tasks] \subseteq
             UNION {history'[j].collected : j \in Round(new)'}
  <1>1. pc = "record" /\ tasks >= 1 /\ UNCHANGED <<workload, collected>>
    BY DEF RecordHistory, Goto, PlaceInv, poolvars
  <1>2. /\ Len(history) \in Nat
        /\ \A i \in Rows : history'[i] = history[i]
        /\ history'[new].collected = collected
    BY <1>1, HistoryGrows
  <1>3. new \in Round(new)'
    BY <1>2 DEF Round
  <1>4. work \subseteq collected /\ workload[tasks] \ work \subseteq ProcessedBy(chain)
    BY <1>1 DEF CoverInv, Final
  <1>5. ASSUME NEW t \in ProcessedBy(chain)
        PROVE  \E j \in Round(new)' : t \in history'[j].collected
    <2>1. PICK n \in chain : <<n, t>> \in processed
      BY DEF ProcessedBy
    <2>2. PICK j \in Rows : /\ history[j].task = n
                            /\ \A k \in j..Len(history) : history[k].status = "interrupted"
      BY <1>1 DEF ChainInv
    <2>3. t \in history[j].collected
      BY <2>1, <2>2 DEF RowsInv, ProcessedBy
    <2>4. \A k \in j..(new - 1) : k \in Rows /\ history'[k].status = "interrupted"
      BY <1>2, <2>2 DEF Rows
    <2>5. j \in Round(new)'
      BY <1>2, <2>4 DEF Round, Rows
    <2> QED  BY <1>2, <2>3, <2>5
  <1>6. ASSUME NEW t \in workload[tasks]
        PROVE  \E j \in Round(new)' : t \in history'[j].collected
    <2>1. CASE t \in work
      BY <1>2, <1>3, <1>4, <2>1
    <2>2. CASE t \notin work
      BY <1>4, <1>5, <2>2
    <2> QED  BY <2>1, <2>2
  <1> QED  BY <1>6

\* Rounds of earlier rows stay as they are, and the new row's is covered.
LEMMA RoundsKept ==
    ASSUME TypeOK, PlaceInv, RowsInv, ChainInv, CoverInv, RoundCovers,
           [Next]_vars
    PROVE  RoundCovers'
  <1>1. CASE UNCHANGED <<history, workload>>
    BY <1>1 DEF RoundCovers, Rows, Round
  <1>2. CASE LoadWorkload
    <2>1. pc # "idle" /\ tasks \in Tasks /\ UNCHANGED history
      BY <1>2, TaskAssumption DEF LoadWorkload, Goto, PlaceInv, TypeOK, Tasks
    <2>2. \A n \in Tasks : n # tasks => workload'[n] = workload[n]
      BY <1>2, <2>1 DEF LoadWorkload, TypeOK
    <2>3. \A i \in Rows : history[i].task \in Tasks /\ history[i].task # tasks
      BY <2>1, TasksAreNumbers DEF RowsInv, Row
    <2>4. \A i \in Rows : workload'[history[i].task] = workload[history[i].task]
      BY <2>2, <2>3
    <2> QED  BY <2>1, <2>4 DEF RoundCovers, Rows, Round
  <1>3. CASE RecordHistory
    <2>1. CASE UNCHANGED history
      BY <1>1, <1>3, <2>1 DEF RecordHistory
    <2>2. CASE history' = Append(history, NewRow)
      <3>1. pc = "record" /\ tasks >= 1 /\ UNCHANGED workload
        BY <1>3 DEF RecordHistory, Goto, PlaceInv
      <3>2. /\ Len(history) \in Nat
            /\ Rows' = Rows \cup {Len(history) + 1}
            /\ \A i \in Rows : history'[i] = history[i]
            /\ history'[Len(history) + 1] = NewRow
        BY <2>2, <3>1, HistoryGrows
      <3>3. ASSUME NEW i \in Rows
            PROVE  Round(i)' = Round(i) /\ Round(i) \subseteq Rows
        BY <3>2 DEF Round, Rows
      <3>4. ASSUME TemplateLimit = 0, NEW i \in Rows,
                   history'[i].status = "completed"
            PROVE  workload'[history'[i].task]
                     \subseteq UNION {history'[j].collected : j \in Round(i)'}
        <4>1. history'[i] = history[i] /\ \A j \in Round(i) : history'[j] = history[j]
          BY <3>2, <3>3
        <4>2. workload[history[i].task]
                \subseteq UNION {history[j].collected : j \in Round(i)}
          BY <3>4, <4>1 DEF RoundCovers
        <4> QED  BY <3>1, <3>3, <4>1, <4>2
      <3>5. ASSUME TemplateLimit = 0, NewRow.status = "completed",
                   NEW i, i = Len(history) + 1
            PROVE  workload[tasks] \subseteq
                     UNION {history'[j].collected : j \in Round(i)'}
        BY <1>3, <2>2, <3>5, RowCovered DEF NewRow
      <3>6. NewRow.task = tasks
        BY DEF NewRow
      <3> QED  BY <3>1, <3>2, <3>4, <3>5, <3>6 DEF RoundCovers
    <2> QED  BY <1>3, <2>1, <2>2 DEF RecordHistory, NewRow
  <1> QED  BY <1>1, <1>2, <1>3, RowsFramed

\* TypeOK in five parts.
HistoryType == history \in Seq(Row) /\ expired \in 0..Len(history)

TableType ==
    /\ workload \in [Tasks -> SUBSET Templates]
    /\ processed \subseteq Pair /\ stored \subseteq Pair /\ applied \subseteq Pair

LocalType ==
    /\ pc \in {"idle", "pool"} \cup Prep \cup PoolStep \cup Applying \cup Final
    /\ handler \in {"default", "executor", "pool"}
    /\ flag \in BOOLEAN /\ abort \in BOOLEAN /\ raised \in BOOLEAN
    /\ chain \subseteq Tasks /\ work \subseteq Templates
    /\ payloads \subseteq Templates /\ cur \in Templates \cup {NoTemplate}
    /\ rules \subseteq Templates /\ status \in Status
    /\ pool \in {"none", "alive", "broken"} /\ collected \subseteq Templates

FutureType ==
    future \in [Templates -> {"none", "pending", "running", "dying", "ok",
                              "fail", "broken", "cancelled"}]

NumberType ==
    /\ progress \in [Tasks -> 0..Cardinality(Templates) \cup {Null}]
    /\ previously \in 0..Cardinality(Templates)
    /\ processedStat \in 0..Cardinality(Templates)
    /\ tasks \in 0..MaxTasks /\ signals \in 0..MaxSignals
    /\ faults \in 0..MaxFaults /\ seen \subseteq Phase

\* Together they are TypeOK.
LEMMA TypeParts ==
    TypeOK <=> HistoryType /\ TableType /\ LocalType /\ FutureType /\ NumberType
  BY DEF TypeOK, HistoryType, TableType, LocalType, FutureType, NumberType

\* Rows are only appended, and the window moves only when it is looked at.
LEMMA HistoryTypeKept ==
    ASSUME TypeOK, PlaceInv, [Next]_vars
    PROVE  HistoryType'
  <1>1. history' = history \/ history' = Append(history, NewRow)
    BY RowsFramed DEF LoadWorkload, RecordHistory, NewRow
  <1>2. expired' = expired \/ (Expire /\ history' = history)
    BY DEF Next, Start, Executor, Prepare, FindResumable, GetChain, LoadWorkload,
           FilterProcessed, StopAtCheckpoint, NothingToDo, BuildPayloads,
           PoolManager, EnterPool, CreatePool, CheckAbort, Submit, Collect,
           EndCollect, StoreRules, MarkProcessed, LeavePool, Shutdown,
           ApplyAndFinish, ConnectMaster, ApplyTemplate, EndApply,
           RestoreHandler, FinalProgress, RecordHistory, Failure, StepRaises,
           WorkerDies, Crash, Killed, ApplyFails, Signal, SignalExecutor,
           SignalPool, SignalKills, Expire, Worker, WorkerStart, WorkerFinish,
           vars, database
  <1>3. CASE history' = history
    BY <1>2, <1>3, LenProperties DEF HistoryType, Expire, TypeOK
  <1>4. CASE history' = Append(history, NewRow) /\ history' # history
    <2>1. RecordHistory
      BY <1>4, RowsFramed DEF LoadWorkload
    <2>2. tasks >= 1 /\ expired' = expired
      BY <2>1 DEF RecordHistory, Goto, PlaceInv
    <2>3. history' \in Seq(Row) /\ Len(history') = Len(history) + 1
      BY <1>4, <2>2, HistoryGrows, AppendProperties DEF TypeOK
    <2> QED  BY <2>2, <2>3, LenProperties DEF TypeOK, HistoryType
  <1> QED  BY <1>1, <1>3, <1>4

\* The rows written belong to the task in progress.
LEMMA TableTypeKept ==
    ASSUME TypeOK, PlaceInv, [Next]_vars
    PROVE  TableType'
  <1>1. CASE Start
    BY <1>1
       DEF Start, vars, database, local, poolvars, env, TableType, TypeOK
  <1>2. CASE FindResumable \/ StopAtCheckpoint \/ NothingToDo \/ GetChain
             \/ LoadWorkload \/ FilterProcessed \/ BuildPayloads
    BY <1>2
       DEF FindResumable, StopAtCheckpoint, Goto, NothingToDo, GetChain,
           LoadWorkload, FilterProcessed, BuildPayloads, UpdateProgress, Fault,
           vars, database, local, poolvars, env, TableType, TypeOK
  <1>3. CASE EnterPool \/ CreatePool \/ CheckAbort \/ Submit
    BY <1>3
       DEF EnterPool, Goto, CreatePool, Fault, CheckAbort, Submit, vars, database,
           local, poolvars, env, TableType, TypeOK
  <1>4. ASSUME NEW t \in Templates,
             Collect(t)
      PROVE  TableType'
    BY <1>4
       DEF Collect, Goto, vars, database, local, poolvars, env, TableType,
           TypeOK
  <1>5. CASE EndCollect \/ StoreRules \/ LeavePool \/ MarkProcessed
             \/ Shutdown
    BY <1>5, TaskAssumption
       DEF EndCollect, Goto, StoreRules, Fault, LeavePool, MarkProcessed,
           UpdateProgress, Shutdown, vars, database, local, poolvars, env,
           TableType, TypeOK, Handled, PlaceInv, Tasks, Pair, Prep, PoolStep,
           Applying, Final
  <1>6. CASE ConnectMaster \/ EndApply \/ RestoreHandler \/ StepRaises
             \/ FinalProgress \/ RecordHistory
    BY <1>6
       DEF ConnectMaster, Goto, EndApply, RestoreHandler, StepRaises, Fault,
           FinalProgress, UpdateProgress, RecordHistory, vars, database, local,
           poolvars, env, TableType, TypeOK
  <1>7. ASSUME NEW t \in Templates,
             ApplyTemplate(t) \/ ApplyFails(t) \/ WorkerStart(t)
              \/ WorkerFinish(t)
      PROVE  TableType'
    BY <1>7, TaskAssumption
       DEF ApplyTemplate, ApplyFails, Fault, WorkerStart, WorkerFinish, vars,
           database, local, poolvars, env, TableType, TypeOK, ToApply,
           PlaceInv, Tasks, Pair, Prep, PoolStep, Applying, Final
  <1>8. CASE WorkerDies \/ SignalExecutor \/ SignalPool \/ Expire
    BY <1>8
       DEF WorkerDies, Fault, SignalExecutor, SignalPool, Expire, vars,
           database, local, poolvars, env, TableType, TypeOK
  <1>9. CASE Crash \/ SignalKills
    BY <1>9
       DEF Crash, Killed, Fault, SignalKills, vars, database, local, poolvars,
           env, TableType, TypeOK
  <1>10. CASE UNCHANGED vars
    BY <1>10
       DEF vars, database, local, poolvars, env, TableType, TypeOK
  <1> QED  BY <1>1, <1>2, <1>3, <1>4, <1>5, <1>6, <1>7, <1>8, <1>9, <1>10
              DEF Next, Executor, Prepare, PoolManager, ApplyAndFinish,
                  Failure, Signal, Worker

\* Futures move between their states only.
LEMMA FutureTypeKept ==
    ASSUME TypeOK, PlaceInv, [Next]_vars
    PROVE  FutureType'
  <1>1. CASE Start
    BY <1>1
       DEF Start, vars, database, local, poolvars, env, FutureType, TypeOK
  <1>2. CASE FindResumable \/ StopAtCheckpoint \/ NothingToDo \/ GetChain
             \/ LoadWorkload \/ FilterProcessed \/ BuildPayloads
    BY <1>2
       DEF FindResumable, StopAtCheckpoint, Goto, NothingToDo, GetChain,
           LoadWorkload, FilterProcessed, BuildPayloads, UpdateProgress, Fault,
           vars, database, local, poolvars, env, FutureType, TypeOK
  <1>3. CASE EnterPool \/ CreatePool \/ CheckAbort \/ Submit
    BY <1>3
       DEF EnterPool, Goto, CreatePool, Fault, CheckAbort, Submit, vars, database,
           local, poolvars, env, FutureType, TypeOK, PlaceInv, Unsubmitted
  <1>4. ASSUME NEW t \in Templates,
             Collect(t)
      PROVE  FutureType'
    BY <1>4
       DEF Collect, Goto, vars, database, local, poolvars, env, FutureType,
           TypeOK
  <1>5. CASE EndCollect \/ StoreRules \/ LeavePool \/ MarkProcessed
             \/ Shutdown
    BY <1>5
       DEF EndCollect, Goto, StoreRules, Fault, LeavePool, MarkProcessed,
           UpdateProgress, Shutdown, vars, database, local, poolvars, env,
           FutureType, TypeOK
  <1>6. CASE ConnectMaster \/ EndApply \/ RestoreHandler \/ StepRaises
             \/ FinalProgress \/ RecordHistory
    BY <1>6
       DEF ConnectMaster, Goto, EndApply, RestoreHandler, StepRaises, Fault,
           FinalProgress, UpdateProgress, RecordHistory, vars, database, local,
           poolvars, env, FutureType, TypeOK
  <1>7. ASSUME NEW t \in Templates,
             ApplyTemplate(t) \/ ApplyFails(t) \/ WorkerStart(t)
              \/ WorkerFinish(t)
      PROVE  FutureType'
    BY <1>7
       DEF ApplyTemplate, ApplyFails, Fault, WorkerStart, WorkerFinish, vars,
           database, local, poolvars, env, FutureType, TypeOK
  <1>8. CASE WorkerDies \/ SignalExecutor \/ SignalPool \/ Expire
    BY <1>8
       DEF WorkerDies, Fault, SignalExecutor, SignalPool, Expire, vars,
           database, local, poolvars, env, FutureType, TypeOK, Terminated
  <1>9. CASE Crash \/ SignalKills
    BY <1>9
       DEF Crash, Killed, Fault, SignalKills, vars, database, local, poolvars,
           env, FutureType, TypeOK
  <1>10. CASE UNCHANGED vars
    BY <1>10
       DEF vars, database, local, poolvars, env, FutureType, TypeOK
  <1> QED  BY <1>1, <1>2, <1>3, <1>4, <1>5, <1>6, <1>7, <1>8, <1>9, <1>10
              DEF Next, Executor, Prepare, PoolManager, ApplyAndFinish,
                  Failure, Signal, Worker

\* The executor's own variables.
LEMMA LocalTypeKept ==
    ASSUME TypeOK, PlaceInv, [Next]_vars
    PROVE  LocalType'
  <1>1. CASE Start
    BY <1>1
       DEF Start, vars, database, local, poolvars, env, Prep, PoolStep,
           Applying, Final, LocalType, Status
  <1>2. CASE FindResumable \/ StopAtCheckpoint \/ NothingToDo
    BY <1>2
       DEF FindResumable, StopAtCheckpoint, Goto, NothingToDo, vars, database,
           local, poolvars, env, Prep, PoolStep, Applying, Final, LocalType,
           Status, TypeOK
  <1>3. CASE LoadWorkload \/ FilterProcessed
    BY <1>3, TaskAssumption
       DEF LoadWorkload, Goto, FilterProcessed, vars, database, local,
           poolvars, env, Prep, PoolStep, Applying, Final, LocalType, Status,
           TypeOK, PlaceInv, Tasks
  <1>4. CASE GetChain
    <2>1. pc' = "load" /\ chain' = {history[i].task : i \in InterruptedSuffix}
          /\ UNCHANGED <<handler, flag, abort, raised, work, payloads, cur,
                         rules, status, poolvars>>
      BY <1>4 DEF GetChain, Goto
    <2>2. \A i \in InterruptedSuffix : history[i].task \in Tasks
      <3>1. \A i \in InterruptedSuffix : i \in Rows
        BY LenProperties DEF InterruptedSuffix, Recent, Rows, TypeOK
      <3> QED  BY <3>1, TasksAreNumbers DEF Row
    <2> QED  BY <2>1, <2>2 DEF LocalType, TypeOK, poolvars, Prep
  <1>5. CASE BuildPayloads
    BY <1>5
       DEF BuildPayloads, Goto, UpdateProgress, Fault, vars, database, local,
           poolvars, env, Prep, PoolStep, Applying, Final, LocalType, Status,
           TypeOK
  <1>6. CASE EnterPool \/ CreatePool \/ CheckAbort \/ Submit
    BY <1>6
       DEF EnterPool, Goto, CreatePool, Fault, CheckAbort, Submit, vars, database,
           local, poolvars, env, Prep, PoolStep, Applying, Final, LocalType,
           Status, PlaceInv, Unsubmitted, TypeOK
  <1>7. ASSUME NEW t \in Templates,
             Collect(t)
      PROVE  LocalType'
    BY <1>7
       DEF Collect, Goto, vars, database, local, poolvars, env, Prep, PoolStep,
           Applying, Final, LocalType, Status, TypeOK
  <1>8. CASE EndCollect \/ StoreRules \/ LeavePool \/ MarkProcessed
             \/ Shutdown
    BY <1>8
       DEF EndCollect, Goto, StoreRules, Fault, LeavePool, MarkProcessed,
           UpdateProgress, Shutdown, vars, database, local, poolvars, env,
           Prep, PoolStep, Applying, Final, LocalType, Status, PlaceInv, TypeOK
  <1>9. CASE ConnectMaster \/ EndApply \/ RestoreHandler \/ StepRaises
             \/ FinalProgress \/ RecordHistory
    BY <1>9
       DEF ConnectMaster, Goto, EndApply, RestoreHandler, StepRaises, Fault,
           FinalProgress, UpdateProgress, RecordHistory, vars, database, local,
           poolvars, env, Prep, PoolStep, Applying, Final, LocalType, Status,
           TypeOK
  <1>10. ASSUME NEW t \in Templates,
             ApplyTemplate(t) \/ ApplyFails(t) \/ WorkerStart(t)
              \/ WorkerFinish(t)
      PROVE  LocalType'
    BY <1>10
       DEF ApplyTemplate, ApplyFails, Fault, WorkerStart, WorkerFinish, vars,
           database, local, poolvars, env, Prep, PoolStep, Applying, Final,
           LocalType, Status, TypeOK
  <1>11. CASE WorkerDies \/ SignalExecutor \/ SignalPool \/ Expire
    BY <1>11
       DEF WorkerDies, Fault, SignalExecutor, SignalPool, Expire, vars,
           database, local, poolvars, env, Prep, PoolStep, Applying, Final,
           LocalType, Status, TypeOK
  <1>12. CASE Crash \/ SignalKills
    BY <1>12
       DEF Crash, Killed, Fault, SignalKills, vars, database, local, poolvars,
           env, Prep, PoolStep, Applying, Final, LocalType, Status, TypeOK
  <1>13. CASE UNCHANGED vars
    BY <1>13
       DEF vars, database, local, poolvars, env, Prep, PoolStep, Applying,
           Final, LocalType, Status, TypeOK
  <1> QED  BY <1>1, <1>2, <1>3, <1>4, <1>5, <1>6, <1>7, <1>8, <1>9, <1>10,
              <1>11, <1>12, <1>13
              DEF Next, Executor, Prepare, PoolManager, ApplyAndFinish,
                  Failure, Signal, Worker

\* The numbers stay within their bounds.
LEMMA NumberTypeKept ==
    ASSUME TypeOK, PlaceInv, CountInv, [Next]_vars
    PROVE  NumberType'
  <1>a. NumberType
    BY DEF NumberType, TypeOK
  <1>1. CASE Start
    BY <1>1, <1>a, TaskAssumption, PartsAreFinite
       DEF Start, vars, database, local, poolvars, env, NumberType
  <1>2. CASE FindResumable \/ StopAtCheckpoint \/ NothingToDo \/ GetChain
             \/ LoadWorkload
    BY <1>2, <1>a, TaskAssumption
       DEF FindResumable, StopAtCheckpoint, Goto, NothingToDo, GetChain,
           LoadWorkload, vars, database, local, poolvars, env, NumberType
  <1>3. CASE FilterProcessed
    <2>1. /\ previously' = Cardinality(ProcessedBy(chain) \cap workload[tasks])
          /\ UNCHANGED <<progress, processedStat, tasks, signals, faults, seen>>
          /\ pc # "idle"
      BY <1>3 DEF FilterProcessed, Goto, PreviouslyProcessed, database, local, env
    <2>2. ProcessedBy(chain) \cap workload[tasks] \in SUBSET Templates
      BY DEF ProcessedBy
    <2>3. previously' \in 0..Cardinality(Templates)
      BY <2>1, <2>2, PartsAreFinite
    <2> QED  BY <1>a, <2>1, <2>3 DEF NumberType
  <1>4. CASE BuildPayloads
    BY <1>4, <1>a, TaskAssumption, CountsFit
       DEF BuildPayloads, Goto, UpdateProgress, Fault, vars, database, local,
           poolvars, env, NumberType, PlaceInv
  <1>5. CASE EnterPool \/ CreatePool \/ CheckAbort \/ Submit
    BY <1>5, <1>a, TaskAssumption
       DEF EnterPool, Goto, CreatePool, Fault, CheckAbort, Submit, vars, database,
           local, poolvars, env, NumberType
  <1>6. ASSUME NEW t \in Templates,
             Collect(t)
      PROVE  NumberType'
    BY <1>6, <1>a, TaskAssumption
       DEF Collect, Goto, vars, database, local, poolvars, env, NumberType
  <1>7. CASE EndCollect \/ StoreRules \/ LeavePool
    BY <1>7, <1>a, TaskAssumption
       DEF EndCollect, Goto, StoreRules, Fault, LeavePool, vars, database,
           local, poolvars, env, NumberType
  <1>8. CASE MarkProcessed
    BY <1>8, <1>a, TaskAssumption, CountsFit
       DEF MarkProcessed, Goto, UpdateProgress, Fault, vars, database, local,
           poolvars, env, NumberType, PlaceInv
  <1>9. CASE Shutdown
    BY <1>9, <1>a, TaskAssumption, CountsFit
       DEF Shutdown, UpdateProgress, Fault, vars, database, local, poolvars,
           env, NumberType, PlaceInv, Prep, PoolStep, Applying, Final
  <1>10. CASE ConnectMaster \/ EndApply \/ RestoreHandler \/ StepRaises
              \/ RecordHistory
    BY <1>10, <1>a, TaskAssumption
       DEF ConnectMaster, Goto, EndApply, RestoreHandler, StepRaises, Fault,
           RecordHistory, vars, database, local, poolvars, env, NumberType
  <1>11. CASE FinalProgress
    BY <1>11, <1>a, TaskAssumption, CountsFit
       DEF FinalProgress, Goto, UpdateProgress, Fault, vars, database, local,
           poolvars, env, NumberType, PlaceInv
  <1>12. ASSUME NEW t \in Templates,
             ApplyTemplate(t) \/ ApplyFails(t) \/ WorkerStart(t)
              \/ WorkerFinish(t)
      PROVE  NumberType'
    BY <1>12, <1>a, TaskAssumption
       DEF ApplyTemplate, ApplyFails, Fault, WorkerStart, WorkerFinish, vars,
           database, local, poolvars, env, NumberType
  <1>13. CASE WorkerDies \/ SignalExecutor \/ SignalPool \/ Expire
    BY <1>13, <1>a, TaskAssumption
       DEF WorkerDies, Fault, SignalExecutor, SignalPool, Expire, vars,
           database, local, poolvars, env, NumberType, PhaseNow, Phase
  <1>14. CASE Crash \/ SignalKills
    BY <1>14, <1>a, TaskAssumption
       DEF Crash, Killed, Fault, SignalKills, vars, database, local, poolvars,
           env, NumberType, PhaseNow, Phase
  <1>15. CASE UNCHANGED vars
    BY <1>15, <1>a, TaskAssumption
       DEF vars, database, local, poolvars, env, NumberType
  <1> QED  BY <1>1, <1>2, <1>3, <1>4, <1>5, <1>6, <1>7, <1>8, <1>9, <1>10,
              <1>11, <1>12, <1>13, <1>14, <1>15
              DEF Next, Executor, Prepare, PoolManager, ApplyAndFinish,
                  Failure, Signal, Worker

\* The five parts together.
LEMMA TypeKept ==
    ASSUME TypeOK, PlaceInv, CountInv, [Next]_vars
    PROVE  TypeOK'
  BY TypeParts', HistoryTypeKept, TableTypeKept, LocalTypeKept, FutureTypeKept,
     NumberTypeKept DEF TypeOK, HistoryType, TableType, LocalType, FutureType, NumberType

\* The inductive invariant.
IInv ==
    /\ TypeOK /\ PlaceInv /\ SignalInv /\ PoolInv /\ CountInv
    /\ RowsInv /\ ChainInv /\ CoverInv /\ StoreInv /\ RoundCovers

\* Before the first task: no rows, nothing processed, nothing in progress.
LEMMA InitIInv ==
    ASSUME Init
    PROVE  IInv
  <1>1. Len(history) = 0 /\ history \in Seq(Row) /\ Rows = {}
    BY DEF Init, Rows
  <1>2. Cardinality(Templates) \in Nat /\ Cardinality({}) = 0
    BY TaskAssumption, FS_CardinalityType, FS_EmptySet
  <1>3. TypeOK
    <2>1. HistoryType /\ TableType
      BY <1>1 DEF Init, HistoryType, TableType
    <2>2. LocalType /\ FutureType
      BY DEF Init, LocalType, FutureType, Status
    <2>3. NumberType
      BY <1>2, TaskAssumption DEF Init, NumberType
    <2> QED  BY <2>1, <2>2, <2>3
             DEF TypeOK, HistoryType, TableType, LocalType, FutureType, NumberType
  <1>4. PlaceInv /\ SignalInv /\ PoolInv
    BY <1>1 DEF Init, PlaceInv, SignalInv, SignalInterrupts, PoolInv, Prep,
                PoolStep, Applying, Final
  <1>5. CountInv
    BY DEF Init, CountInv, ProgressWithinWorkload
  <1>6. RowsInv /\ ChainInv /\ CoverInv /\ StoreInv /\ RoundCovers
    <2>1. Lost = {}
      BY DEF Init, Lost
    <2> QED  BY <1>1, <1>2, <2>1
             DEF Init, RowsInv, ChainInv, CoverInv, StoreInv, RoundCovers, Prep,
                 PoolStep, Applying, Final
  <1> QED  BY <1>3, <1>4, <1>5, <1>6 DEF IInv

\* The inductive invariant: tasks that follow one another on one database, each
\* with its two handlers, its pool and its metadata, keep all parts of it
\* together at every step, a signal's, a failure's and a kill's included.
THEOREM InductiveInvariant == Spec => []IInv
  <1>1. IInv /\ [Next]_vars => IInv'
    BY TypeKept, PlaceKept, SignalKept, PoolKept, CountKept, RowsKept,
       ChainKept, CoverKept, StoreKept, RoundsKept DEF IInv
  <1> QED  BY InitIInv, <1>1, PTL DEF Spec

\* Every variable keeps its type: counters stay within the workload, rows and
\* pairs belong to tasks that were started.
THEOREM TypeCorrect == Spec => []TypeOK
  <1>1. IInv => TypeOK
    BY DEF IInv
  <1> QED  BY InductiveInvariant, <1>1, PTL

\* A signal delivered while the workload is prepared or the pool runs is never
\* overlooked, wherever between two steps of the executor it comes and however
\* often: whichever handler was installed, its flag is read before the status
\* is set.
THEOREM SignalsAreHeard == Spec => []SignalInterrupts
  <1>1. IInv => SignalInterrupts
    BY DEF IInv, SignalInv
  <1> QED  BY InductiveInvariant, <1>1, PTL

\* However the pool ended - drained, aborted, broken or left by an exception -
\* no worker runs once the task is past it.
THEOREM PoolIsOver == Spec => []NoWorkerAfterPool
  <1>1. IInv => NoWorkerAfterPool
    BY DEF IInv, PoolInv, PlaceInv, NoWorkerAfterPool, Running, Unfinished,
           PoolStep, Final
  <1> QED  BY InductiveInvariant, <1>1, PTL

\* task_progress never reports more templates than its task has, although what
\* earlier tasks of the chain handled is counted in.
THEOREM ProgressIsHonest == Spec => []ProgressWithinWorkload
  <1>1. IInv => ProgressWithinWorkload
    BY DEF IInv, CountInv
  <1> QED  BY InductiveInvariant, <1>1, PTL

\* A task that completes ends a round in which every template of its workload
\* had a result, for any number of interruptions, failures and lost rows.
THEOREM CompletedRounds == Spec => []RoundCovers
  <1>1. IInv => RoundCovers
    BY DEF IInv
  <1> QED  BY InductiveInvariant, <1>1, PTL

\* Of the rules that tasks stored which did not end as failed, no more are left
\* unapplied than calls failed, in however many tasks, interrupted or completed.
THEOREM RulesReachTheInstance == Spec => []StoredIsApplied
  <1>1. ASSUME IInv
        PROVE  StoredIsApplied
    <2>1. Unapplied \in SUBSET Lost /\ Lost \in SUBSET Pair
      BY <1>1 DEF IInv, TypeOK, Unapplied, Lost, Ended
    <2>2. IsFiniteSet(Lost)
      BY <2>1, PairsAreFinite, FS_Subset
    <2>3. Cardinality(Unapplied) <= Cardinality(Lost) /\ Cardinality(Lost) \in Nat
          /\ Cardinality(Unapplied) \in Nat
      BY <2>1, <2>2, FS_Subset, FS_CardinalityType
    <2>4. Cardinality(Lost) <= faults /\ faults \in Nat
      BY <1>1, TaskAssumption DEF IInv, StoreInv, TypeOK
    <2> QED  BY <2>3, <2>4 DEF StoredIsApplied
  <1>2. IInv => StoredIsApplied
    BY <1>1
  <1> QED  BY InductiveInvariant, <1>2, PTL

-----------------------------------------------------------------------------
(* TrainsInRounds: the tasks and their tables implement TrainingRounds.  Its *)
(* proof needs three more invariants, which no property above rests on.      *)

\* Rows are written in the order of their tasks.
OrderInv ==
    \A i, j \in Rows : i < j => history[i].task < history[j].task

\* The tasks of the chain are those of the newest rows, without a gap.
JoinInv ==
    pc # "idle" => \A i, j \in Rows :
        history[i].task \in chain /\ i <= j => history[j].task \in chain

\* Unless something failed a result is marked once it was seen, and the task in
\* progress takes on none that its chain has.
FreshInv ==
    faults = 0 =>
        /\ \A i \in Rows : \A t \in history[i].collected :
              <<history[i].task, t>> \in processed
        /\ pc # "idle" =>
              /\ \A t \in collected :
                    <<tasks, t>> \in processed \/ (pc \in {"store", "mark"} /\ t = cur)
              /\ \A i \in Rows :
                    history[i].task \in chain => history[i].collected \cap work = {}

RefInv == OrderInv /\ JoinInv /\ FreshInv

\* The row of a task comes after those of all earlier tasks.
LEMMA OrderKept ==
    ASSUME TypeOK, PlaceInv, RowsInv, OrderInv, [Next]_vars
    PROVE  OrderInv'
  <1>1. CASE UNCHANGED history
    BY <1>1 DEF OrderInv, Rows
  <1>2. CASE history' = Append(history, NewRow) /\ RecordHistory
    <2>1. pc = "record" /\ tasks >= 1
      BY <1>2 DEF RecordHistory, Goto, PlaceInv
    <2>2. /\ Len(history) \in Nat
          /\ Rows' = Rows \cup {Len(history) + 1}
          /\ \A i \in Rows : history'[i] = history[i]
          /\ history'[Len(history) + 1].task = tasks
      BY <1>2, <2>1, HistoryGrows
    <2>3. \A i \in Rows : history[i].task < tasks
      BY <2>1 DEF RowsInv
    <2>4. ASSUME NEW i \in Rows', NEW j \in Rows', i < j
          PROVE  history'[i].task < history'[j].task
      <3>1. i \in Rows
        BY <2>2, <2>4 DEF Rows
      <3>2. CASE j \in Rows
        BY <2>2, <2>4, <3>1, <3>2 DEF OrderInv
      <3>3. CASE j = Len(history) + 1
        BY <2>2, <2>3, <3>1, <3>3
      <3> QED  BY <2>2, <3>2, <3>3
    <2> QED  BY <2>4 DEF OrderInv
  <1>3. LoadWorkload => UNCHANGED history
    BY DEF LoadWorkload
  <1>4. RecordHistory => UNCHANGED history \/ history' = Append(history, NewRow)
    BY DEF RecordHistory, NewRow
  <1> QED  BY <1>1, <1>2, <1>3, <1>4, RowsFramed

\* A chain is read once and forgotten when the next task starts.
LEMMA ChainFramed ==
    ASSUME [Next]_vars
    PROVE  \/ pc' = "idle"
           \/ chain' = {} /\ UNCHANGED history
           \/ GetChain
           \/ pc # "idle" /\ UNCHANGED <<history, chain>>
  <1>1. CASE Start \/ Prepare
    BY <1>1
       DEF Start, Prepare, FindResumable, LoadWorkload, FilterProcessed, Goto,
           StopAtCheckpoint, NothingToDo, BuildPayloads, database, local
  <1>2. CASE PoolManager
    BY <1>2
       DEF PoolManager, EnterPool, CreatePool, CheckAbort, Submit, Collect, Goto,
           EndCollect, StoreRules, MarkProcessed, LeavePool, Shutdown, database,
           local
  <1>3. CASE ApplyAndFinish \/ Failure
    BY <1>3
       DEF ApplyAndFinish, ConnectMaster, ApplyTemplate, EndApply, Goto,
           RestoreHandler, FinalProgress, RecordHistory, Failure, StepRaises,
           WorkerDies, Crash, Killed, ApplyFails, database, local
  <1>4. CASE Signal \/ Expire \/ (\E t \in Templates : Worker(t))
    BY <1>4
       DEF Signal, SignalExecutor, SignalPool, SignalKills, Killed, Expire,
           Worker, WorkerStart, WorkerFinish, database, local
  <1>5. CASE UNCHANGED vars
    BY <1>5 DEF vars, database, local
  <1> QED  BY <1>1, <1>2, <1>3, <1>4, <1>5 DEF Next, Executor

\* A chain read from the newest rows has no gap.
LEMMA JoinKept ==
    ASSUME TypeOK, OrderInv, JoinInv, [Next]_vars
    PROVE  JoinInv'
  <1>1. CASE pc' = "idle"
    BY <1>1 DEF JoinInv
  <1>2. CASE chain' = {} /\ UNCHANGED history
    BY <1>2 DEF JoinInv, Rows
  <1>3. CASE GetChain
    <2>1. chain' = {history[i].task : i \in InterruptedSuffix} /\ history' = history
      BY <1>3 DEF GetChain, database
    <2>2. InterruptedSuffix \subseteq Rows
      BY LenProperties DEF InterruptedSuffix, Recent, Rows, TypeOK
    <2>3. ASSUME NEW i \in Rows, NEW j \in Rows, history[i].task \in chain', i <= j
          PROVE  history[j].task \in chain'
      <3>1. PICK k \in InterruptedSuffix : history[i].task = history[k].task
        BY <2>1, <2>3
      <3>2. history[i].task \in Nat /\ history[k].task \in Nat /\ k \in Rows
        BY <2>2, TasksAreNumbers
      <3>3. i = k
        BY <3>1, <3>2 DEF OrderInv, Rows
      <3>4. j \in InterruptedSuffix
        BY <2>3, <3>3, LenProperties DEF InterruptedSuffix, Recent, Rows, TypeOK
      <3> QED  BY <2>1, <3>4
    <2> QED  BY <2>1, <2>3 DEF JoinInv, Rows
  <1>4. CASE pc # "idle" /\ UNCHANGED <<history, chain>>
    BY <1>4 DEF JoinInv, Rows
  <1> QED  BY <1>1, <1>2, <1>3, <1>4, ChainFramed

\* What was seen is marked before the next result is, and what was marked is
\* filtered out.
LEMMA FreshKept ==
    ASSUME TypeOK, PlaceInv, CountInv, FreshInv, [Next]_vars
    PROVE  FreshInv'
  <1>1. CASE Start
    BY <1>1
       DEF Start, FreshInv, vars, database, Rows
  <1>2. CASE FindResumable \/ LoadWorkload \/ StopAtCheckpoint \/ NothingToDo
             \/ BuildPayloads
    BY <1>2
       DEF FindResumable, LoadWorkload, Goto, StopAtCheckpoint, NothingToDo,
           BuildPayloads, UpdateProgress, Fault, database, local, poolvars, env,
           FreshInv, Rows, TypeOK
  <1>3. CASE GetChain
    BY <1>3
       DEF GetChain, Goto, database, poolvars, env, FreshInv, Rows, CountInv, Unfiltered
  <1>4. CASE FilterProcessed
    <2>1. /\ pc = "filter" /\ pc' = "checkpoint"
          /\ work' = workload[tasks] \ ProcessedBy(chain)
          /\ UNCHANGED <<history, processed, collected, cur, tasks, faults, chain>>
      BY <1>4 DEF FilterProcessed, Goto, database, poolvars, env
    <2>2. ASSUME faults = 0, NEW i \in Rows, history[i].task \in chain,
                 NEW t \in history[i].collected
          PROVE  t \notin work'
      <3>1. <<history[i].task, t>> \in processed
        BY <2>2 DEF FreshInv
      <3>2. t \in Templates
        BY <3>1 DEF TypeOK, Pair
      <3> QED  BY <2>1, <2>2, <3>1, <3>2 DEF ProcessedBy
    <2> QED  BY <2>1, <2>2 DEF FreshInv, Rows
  <1>5. CASE EnterPool \/ CreatePool \/ CheckAbort \/ Submit
    BY <1>5
       DEF EnterPool, Goto, CreatePool, Fault, CheckAbort, Submit, database, local,
           poolvars, env, FreshInv, Rows, TypeOK
  <1>6. ASSUME NEW t \in Templates,
             Collect(t)
      PROVE  FreshInv'
    BY <1>6
       DEF Collect, Goto, database, local, poolvars, env, FreshInv, Rows
  <1>7. CASE EndCollect \/ StoreRules \/ LeavePool \/ Shutdown
    BY <1>7
       DEF EndCollect, Goto, StoreRules, Fault, LeavePool, Shutdown,
           UpdateProgress, database, local, poolvars, env, FreshInv, Rows, TypeOK
  <1>8. CASE MarkProcessed
    <2>1. /\ pc = "mark" /\ pc' = "collect"
          /\ UNCHANGED <<history, collected, tasks, chain, work>>
          /\ faults' = 0 => faults = 0 /\ processed' = processed \cup ({tasks} \X {cur})
      BY <1>8 DEF MarkProcessed, Goto, UpdateProgress, Fault, Handled, poolvars, TypeOK
    <2>2. faults' = 0 => \A t \in collected : <<tasks, t>> \in processed'
      BY <2>1 DEF FreshInv
    <2> QED  BY <2>1, <2>2 DEF FreshInv, Rows
  <1>9. CASE ConnectMaster \/ EndApply \/ RestoreHandler \/ FinalProgress
             \/ StepRaises
    BY <1>9
       DEF ConnectMaster, Goto, EndApply, RestoreHandler, FinalProgress,
           UpdateProgress, Fault, StepRaises, database, local, poolvars, env,
           FreshInv, Rows, TypeOK
  <1>10. CASE RecordHistory
    <2>1. CASE UNCHANGED history /\ Fault
      BY <1>10, <2>1 DEF RecordHistory, Goto, Fault, FreshInv, TypeOK
    <2>2. CASE history' = Append(history, NewRow) /\ UNCHANGED faults
      <3>1. /\ pc = "record" /\ pc' = "idle" /\ tasks >= 1
            /\ UNCHANGED <<processed, faults>>
        BY <1>10, <2>2 DEF RecordHistory, Goto, PlaceInv
      <3>2. /\ Rows' = Rows \cup {Len(history) + 1}
            /\ \A i \in Rows : history'[i] = history[i]
            /\ history'[Len(history) + 1].task = tasks
            /\ history'[Len(history) + 1].collected = collected
        BY <2>2, <3>1, HistoryGrows
      <3> QED  BY <3>1, <3>2 DEF FreshInv
    <2> QED  BY <1>10, <2>1, <2>2 DEF RecordHistory, NewRow
  <1>11. ASSUME NEW t \in Templates,
             ApplyTemplate(t) \/ ApplyFails(t) \/ WorkerStart(t)
              \/ WorkerFinish(t)
      PROVE  FreshInv'
    BY <1>11
       DEF ApplyTemplate, ApplyFails, Fault, WorkerStart, WorkerFinish,
           database, local, poolvars, env, FreshInv, Rows, TypeOK
  <1>12. CASE WorkerDies \/ SignalExecutor \/ SignalPool \/ Expire
    BY <1>12
       DEF WorkerDies, Fault, SignalExecutor, SignalPool, Expire, database,
           local, poolvars, env, FreshInv, Rows, TypeOK
  <1>13. CASE Crash \/ SignalKills
    BY <1>13
       DEF Crash, Killed, Fault, SignalKills, database, local, poolvars, env,
           FreshInv, Rows, TypeOK
  <1>14. CASE UNCHANGED vars
    BY <1>14 DEF vars, database, local, poolvars, env, FreshInv, Rows
  <1> QED  BY <1>1, <1>2, <1>3, <1>4, <1>5, <1>6, <1>7, <1>8, <1>9, <1>10,
              <1>11, <1>12, <1>13, <1>14
              DEF Next, Executor, Prepare, PoolManager, ApplyAndFinish,
                  Failure, Signal, Worker

\* The three hold from the start and are kept.
LEMMA RefInvHolds == Spec => []RefInv
  <1>1. Init => RefInv
    <2> SUFFICES ASSUME Init
                 PROVE  RefInv
      OBVIOUS
    <2>1. Rows = {} /\ pc = "idle"
      BY DEF Init, Rows
    <2> QED  BY <2>1 DEF RefInv, OrderInv, JoinInv, FreshInv
  <1>2. IInv /\ RefInv /\ [Next]_vars => RefInv'
    BY OrderKept, JoinKept, FreshKept DEF IInv, RefInv
  <1> QED  BY <1>1, <1>2, InductiveInvariant, PTL DEF Spec

\* The ledger has a place for every row.
LEMMA LedgerIsSeq ==
    ASSUME TypeOK
    PROVE  /\ Len(history) \in Nat /\ Rows = 1..Len(history)
           /\ Ledger \in Seq(Rounds!Ended) /\ Len(Ledger) = Len(history)
           /\ \A i \in Rows : Ledger[i] = EndedTask(i)
  <1>1. Len(history) \in Nat /\ Rows = 1..Len(history)
    BY LenProperties DEF TypeOK, Rows
  <1>2. ASSUME NEW i \in Rows
        PROVE  EndedTask(i) \in Rounds!Ended
    <2>1. history[i] \in Row /\ workload \in [Tasks -> SUBSET Templates]
      BY TasksAreNumbers DEF TypeOK
    <2>2. {j \in 1..(i - 1) : history[j].task \in history[i].chain} \subseteq Nat
      OBVIOUS
    <2> QED  BY <2>1, <2>2 DEF Row, Status, EndedTask, Rounds!Ended, Rounds!Outcome
  <1>3. Ledger \in [1..Len(history) -> Rounds!Ended]
    BY <1>1, <1>2 DEF Ledger
  <1>4. Ledger \in Seq(Rounds!Ended)
    BY <1>1, <1>3, SeqDef
  <1>5. Len(Ledger) = Len(history)
    BY <1>1, <1>3, <1>4, LenProperties
  <1> QED  BY <1>1, <1>4, <1>5 DEF Ledger

\* The same as an implication, which holds in the next state as well.
LedgerType ==
    /\ Ledger \in Seq(Rounds!Ended) /\ Len(Ledger) = Len(history)
    /\ \A i \in Rows : Ledger[i] = EndedTask(i) /\ Ledger[i] \in Rounds!Ended

LEMMA LedgerTyped == TypeOK => LedgerType
  BY LedgerIsSeq, ElementOfSeq DEF LedgerType

\* Nothing the ledger says of a row changes: what a task loaded and whom it took
\* up is settled when its row is written.
LEMMA LedgerKept ==
    ASSUME TypeOK, PlaceInv, RowsInv, [Next]_vars, NEW i \in Rows
    PROVE  /\ UNCHANGED history => EndedTask(i)' = EndedTask(i)
           /\ history' = Append(history, NewRow) /\ RecordHistory
                => EndedTask(i)' = EndedTask(i)
  <1>1. ASSUME UNCHANGED history
        PROVE  workload'[history[i].task] = workload[history[i].task]
    <2>1. CASE UNCHANGED workload
      BY <2>1
    <2>2. CASE LoadWorkload
      <3>1. pc # "idle" /\ tasks \in Tasks
        BY <2>2, TaskAssumption DEF LoadWorkload, Goto, PlaceInv, TypeOK, Tasks
      <3>2. history[i].task \in Tasks /\ history[i].task # tasks
        BY <3>1, TasksAreNumbers DEF RowsInv, Row
      <3> QED  BY <2>2, <3>2 DEF LoadWorkload, TypeOK
    <2> QED  BY <2>1, <2>2, RowsFramed DEF RecordHistory
  <1>2. ASSUME UNCHANGED history
        PROVE  EndedTask(i)' = EndedTask(i)
    BY <1>1, <1>2 DEF EndedTask
  <1>3. ASSUME history' = Append(history, NewRow), RecordHistory
        PROVE  EndedTask(i)' = EndedTask(i)
    <2>1. tasks >= 1 /\ UNCHANGED workload
      BY <1>3 DEF RecordHistory, Goto, PlaceInv
    <2>2. \A j \in Rows : history'[j] = history[j]
      BY <1>3, <2>1, HistoryGrows
    <2>3. \A j \in 1..(i - 1) : j \in Rows
      BY LenProperties DEF Rows, TypeOK
    <2>4. history'[i] = history[i] /\ \A j \in 1..(i - 1) : history'[j] = history[j]
      BY <2>2, <2>3
    <2> QED  BY <2>1, <2>4 DEF EndedTask
  <1> QED  BY <1>2, <1>3

\* A failure is counted, and the count is never lowered.
LEMMA FaultsCounted ==
    ASSUME TypeOK, [Next]_vars
    PROVE  UNCHANGED faults \/ (faults' > 0 /\ (history' = history))
  <1>1. CASE Start \/ Prepare
    BY <1>1
       DEF Start, Prepare, FindResumable, GetChain, LoadWorkload, FilterProcessed,
           StopAtCheckpoint, NothingToDo, BuildPayloads, UpdateProgress, Fault,
           database, env, TypeOK
  <1>2. CASE PoolManager
    BY <1>2
       DEF PoolManager, EnterPool, CreatePool, CheckAbort, Submit, Collect,
           EndCollect, StoreRules, MarkProcessed, LeavePool, Shutdown,
           UpdateProgress, Fault, database, env, TypeOK
  <1>3. CASE ApplyAndFinish \/ Failure
    BY <1>3
       DEF ApplyAndFinish, ConnectMaster, ApplyTemplate, EndApply, RestoreHandler,
           FinalProgress, RecordHistory, Failure, StepRaises, WorkerDies, Crash,
           Killed, ApplyFails, UpdateProgress, Fault, database, env, TypeOK
  <1>4. CASE Signal \/ Expire \/ (\E t \in Templates : Worker(t))
    BY <1>4
       DEF Signal, SignalExecutor, SignalPool, SignalKills, Expire, Worker,
           WorkerStart, WorkerFinish, env
  <1>5. CASE UNCHANGED vars
    BY <1>5 DEF vars, env
  <1> QED  BY <1>1, <1>2, <1>3, <1>4, <1>5 DEF Next, Executor

\* What a task in progress would write is what TrainingRounds lets it: it took
\* up open tasks without a gap, repeats nothing and leaves nothing out.
LEMMA RowJoinsRound ==
    ASSUME IInv, RefInv, pc = "record",
           NEW s, s = {j \in Rows : history[j].task \in chain}
    PROVE  /\ s \subseteq Rounds!Open
           /\ \A i \in s : i..Len(Ledger) \subseteq s
           /\ collected \subseteq workload[tasks]
           /\ faults > 0 \/ collected \cap Rounds!ResultsOf(s) = {}
           /\ status = "completed" /\ TemplateLimit = 0
                 => workload[tasks] \subseteq collected \cup Rounds!ResultsOf(s)
  <1>1. TypeOK /\ pc # "idle" /\ OrderInv /\ JoinInv /\ FreshInv
    BY DEF IInv, RefInv
  <1>2. /\ Len(history) \in Nat /\ Rows = 1..Len(history) /\ Len(Ledger) = Len(history)
        /\ \A i \in Rows : Ledger[i].outcome = history[i].status
        /\ \A i \in Rows : Ledger[i].results = history[i].collected
    <2>1. /\ Len(history) \in Nat /\ Rows = 1..Len(history) /\ Len(Ledger) = Len(history)
          /\ \A i \in Rows : Ledger[i] = EndedTask(i)
      BY <1>1, LedgerIsSeq
    <2>2. \A i \in Rows : /\ EndedTask(i).outcome = history[i].status
                         /\ EndedTask(i).results = history[i].collected
      BY DEF EndedTask
    <2> QED  BY <2>1, <2>2
  <1>3. ASSUME NEW n \in chain, NEW i \in Rows, history[i].task = n
        PROVE  \A k \in i..Len(history) : history[k].status = "interrupted"
    <2>1. PICK j \in Rows : /\ history[j].task = n
                            /\ \A k \in j..Len(history) : history[k].status = "interrupted"
      BY <1>1 DEF IInv, ChainInv
    <2>2. history[i].task \in Nat /\ history[j].task \in Nat
      BY <1>1, TasksAreNumbers
    <2>3. i = j
      BY <1>1, <1>2, <1>3, <2>1, <2>2 DEF OrderInv
    <2> QED  BY <2>1, <2>3
  <1>4. s \subseteq Rounds!Open
    BY <1>2, <1>3 DEF Rounds!Open
  <1>5. \A i \in s : i..Len(Ledger) \subseteq s
    BY <1>1, <1>2 DEF JoinInv
  <1>6. collected \subseteq workload[tasks]
    BY <1>1 DEF IInv, CountInv
  <1>7. Rounds!ResultsOf(s) = UNION {history[i].collected : i \in s}
    BY <1>2 DEF Rounds!ResultsOf
  <1>8. faults = 0 => collected \cap Rounds!ResultsOf(s) = {}
    <2>1. collected \subseteq work
      BY <1>1 DEF IInv, CountInv
    <2>2. faults = 0 => \A i \in s : history[i].collected \cap work = {}
      BY <1>1 DEF FreshInv
    <2> QED  BY <1>7, <2>1, <2>2
  <1>9. faults = 0 \/ faults > 0
    BY <1>1 DEF TypeOK
  <1>10. ASSUME status = "completed", TemplateLimit = 0
         PROVE  workload[tasks] \subseteq collected \cup Rounds!ResultsOf(s)
    <2>1. work \subseteq collected /\ workload[tasks] \ work \subseteq ProcessedBy(chain)
      BY <1>1, <1>10 DEF IInv, CoverInv, Final
    <2>2. ASSUME NEW t \in ProcessedBy(chain)
          PROVE  t \in Rounds!ResultsOf(s)
      <3>1. PICK n \in chain : <<n, t>> \in processed
        BY DEF ProcessedBy
      <3>2. PICK j \in Rows : history[j].task = n
        BY <1>1 DEF IInv, ChainInv
      <3>3. t \in history[j].collected /\ j \in s
        BY <3>1, <3>2 DEF IInv, RowsInv, ProcessedBy
      <3> QED  BY <1>7, <3>3
    <2> QED  BY <2>1, <2>2
  <1> QED  BY <1>4, <1>5, <1>6, <1>8, <1>9, <1>10

\* Recording a task ends it in the ledger.
LEMMA RecordEnds ==
    ASSUME IInv, RefInv, [Next]_vars, RecordHistory, history' = Append(history, NewRow),
           UNCHANGED faults, NEW new, new = Len(history) + 1
    PROVE  Rounds!Next
  <1> DEFINE s == {j \in Rows : history[j].task \in chain}
             t == [outcome |-> status, wanted |-> workload[tasks], results |-> collected,
                   resumed |-> s]
  <1>1. /\ TypeOK /\ PlaceInv /\ RowsInv /\ pc = "record" /\ tasks >= 1
        /\ UNCHANGED workload
    BY DEF IInv, RecordHistory, Goto, PlaceInv
  <1>2. TypeOK'
    BY <1>1, TypeKept DEF IInv
  <1>3. /\ Len(history) \in Nat /\ Rows = 1..Len(history)
        /\ Rows' = Rows \cup {new} /\ new \notin Rows
        /\ \A i \in Rows : history'[i] = history[i]
        /\ history'[new] = NewRow
    BY <1>1, HistoryGrows, LedgerIsSeq
  <1>4. EndedTask(new)' = t
    <2>1. 1..(new - 1) = Rows
      BY <1>3
    <2>2. {j \in 1..(new - 1) : history'[j].task \in history'[new].chain} = s
      BY <1>3, <2>1 DEF NewRow
    <2>3. /\ history'[new].status = status /\ history'[new].task = tasks
          /\ history'[new].collected = collected
      BY <1>3 DEF NewRow
    <2> HIDE DEF s
    <2> QED  BY <1>1, <2>2, <2>3 DEF EndedTask
  <1>5. \A i \in Rows : EndedTask(i)' = EndedTask(i)
    BY <1>1, LedgerKept
  <1>6. Ledger' = Append(Ledger, t)
    <2> HIDE DEF t
    <2>1. /\ Ledger \in Seq(Rounds!Ended) /\ Len(Ledger) = Len(history)
          /\ \A i \in Rows : Ledger[i] = EndedTask(i)
      BY <1>1, LedgerIsSeq
    <2>2. /\ Ledger' \in Seq(Rounds!Ended)' /\ Len(Ledger)' = Len(history)'
          /\ \A i \in Rows' : Ledger'[i] = EndedTask(i)' /\ Ledger'[i] \in Rounds!Ended'
      <3>1. LedgerType'
        BY <1>2, LedgerTyped, PTL
      <3> QED  BY <3>1 DEF LedgerType
    <2>3. Rounds!Ended' = Rounds!Ended
      BY DEF Rounds!Ended, Rounds!Outcome
    <2>4. t \in Rounds!Ended /\ Len(history') = Len(history) + 1
      BY <1>3, <1>4, <2>2, <2>3, LenProperties DEF Rows
    <2>5. /\ Append(Ledger, t) \in Seq(Rounds!Ended)
          /\ Len(Append(Ledger, t)) = Len(Ledger) + 1
          /\ \A i \in 1..Len(Ledger) : Append(Ledger, t)[i] = Ledger[i]
          /\ Append(Ledger, t)[Len(Ledger) + 1] = t
      BY <2>1, <2>4, AppendProperties
    <2>6. \A i \in 1..Len(Ledger') : Ledger'[i] = Append(Ledger, t)[i]
      BY <1>3, <1>4, <1>5, <2>1, <2>2, <2>4, <2>5
    <2> QED  BY <2>1, <2>2, <2>3, <2>4, <2>5, <2>6, SeqEqual
  <1>7. Rounds!EndTask(t)
    BY <1>1, <1>6, RowJoinsRound DEF Rounds!EndTask
  <1>8. /\ status \in Rounds!Outcome /\ collected \in SUBSET Templates
        /\ workload[tasks] \in SUBSET Templates /\ s \in SUBSET Rounds!Open
    <2>1. status \in Rounds!Outcome /\ collected \in SUBSET Templates
      BY <1>1 DEF TypeOK, Status, Rounds!Outcome
    <2>2. workload[tasks] \in SUBSET Templates
      BY <1>1, TaskAssumption DEF TypeOK, Tasks
    <2>3. s \in SUBSET Rounds!Open
      BY <1>1, RowJoinsRound
    <2> QED  BY <2>1, <2>2, <2>3
  <1> QED  BY <1>7, <1>8 DEF Rounds!Next

\* The tables of the tasks implement TrainingRounds: every step of the executor,
\* its workers and handlers, and every failure and kill, ends a task in the
\* ledger, is the failure that excuses repetition, or does not concern it.
THEOREM TasksTrainInRounds == Spec => TrainsInRounds
  <1>1. Init => Rounds!Init
    <2> SUFFICES ASSUME Init
                 PROVE  Rounds!Init
      OBVIOUS
    <2>1. Rows = {} /\ faults = 0
      BY DEF Init, Rows
    <2>2. Ledger = <<>>
      BY <2>1 DEF Ledger
    <2> QED  BY <2>1, <2>2 DEF Rounds!Init
  <1>2. IInv /\ RefInv /\ [Next]_vars => [Rounds!Next]_<<Ledger, faults > 0>>
    <2> SUFFICES ASSUME IInv, RefInv, [Next]_vars
                 PROVE  [Rounds!Next]_<<Ledger, faults > 0>>
      OBVIOUS
    <2>1. CASE UNCHANGED history
      <3>1. Ledger' = Ledger
        BY <2>1, LedgerKept DEF IInv, Ledger, Rows
      <3>2. CASE UNCHANGED faults
        BY <3>1, <3>2
      <3>3. CASE faults' > 0
        BY <3>1, <3>3 DEF Rounds!Next, Rounds!Disturb
      <3> QED  BY <3>2, <3>3, FaultsCounted DEF IInv
    <2>2. CASE history' # history
      <3>1. UNCHANGED faults
        BY <2>2, FaultsCounted DEF IInv
      <3>2. RecordHistory /\ history' = Append(history, NewRow)
        BY <2>2, RowsFramed DEF LoadWorkload, RecordHistory, NewRow
      <3> QED  BY <3>1, <3>2, RecordEnds
    <2> QED  BY <2>1, <2>2
  <1> QED  BY <1>1, <1>2, InductiveInvariant, RefInvHolds, PTL
           DEF Spec, TrainsInRounds, Rounds!Spec

=============================================================================
