----------------------------- MODULE BatchRunner -----------------------------
(***************************************************************************)
(* The batch drivers of mcts_scripts (benchmark_runner.py, and its two     *)
(* shorter relatives mcts_parallel_runner.py and                           *)
(* test_tpcds_queries_parallel.py, which have one instance): worker        *)
(* processes take the queries of their instance from a queue that ends     *)
(* with one sentinel per worker, the main process collects one result per  *)
(* query, and, if it was not interrupted, drives one validation worker per *)
(* instance round by round behind a barrier.  Left out: what a worker does *)
(* with a query (MctsSearch), reports and CSV files.                       *)
(***************************************************************************)
EXTENDS Integers, FiniteSets, SequencesExt

CONSTANTS Instance, BenchQuery, InstanceOf,   \* queries and their instances
          BenchWorker, WorksFor,              \* workers and their instances
          LastRoundOf,                        \* max_rollout of every instance
          MaxProcessDeaths                    \* bound

Sentinel == "stop"
Gone == {"left", "dead"}        \* out of the loop, or killed

ASSUME BatchAssumption ==
    /\ InstanceOf \in [BenchQuery -> Instance] /\ WorksFor \in [BenchWorker -> Instance]
    /\ \A i \in Instance : \E w \in BenchWorker : WorksFor[w] = i
    /\ LastRoundOf \in [Instance -> Nat \cup {-1}] /\ MaxProcessDeaths \in Nat
    /\ IsFiniteSet(BenchQuery) /\ IsFiniteSet(BenchWorker)
    /\ BenchQuery \cap ({Sentinel, "free"} \cup Gone) = {}

VARIABLES taskQueue,        \* per instance: queries, then sentinels
          job,              \* query a worker is running, or its state
          unsent,           \* results the feeder thread of a worker still has
          resultQueue, gathered,    \* results on their way, and collected
          shutdown,         \* shutdown_event
          driver,           \* stage of the main process
          collection,          \* how the collection ended
          processDeaths,
          validator,        \* state of every validation worker
          command,          \* command it has not taken yet
          replies,          \* result_queue of the validation
          round,            \* rollout the coordinator has open
          baselined, live,  \* instances in BaselineSum, alive
          reported, failed, \* done_this_r, failed_this_r
          roundsRun         \* rollouts a validation worker has finished

poolVars == <<taskQueue, job, unsent, resultQueue, gathered, shutdown>>
validationVars == <<validator, command, replies, round, baselined, live, reported,
                    failed, roundsRun>>
batchVars == <<poolVars, driver, collection, processDeaths, validationVars>>

WorkersOf(i) == {w \in BenchWorker : WorksFor[w] = i}

\* group_queries_by_instance, start_instance_workers.
TaskQueueOf(i) == SetToSeq({q \in BenchQuery : InstanceOf[q] = i})
                    \o [n \in 1 .. Cardinality(WorkersOf(i)) |-> Sentinel]

BatchInit ==
    /\ taskQueue = [i \in Instance |-> TaskQueueOf(i)]
    /\ job = [w \in BenchWorker |-> "free"]
    /\ unsent = [w \in BenchWorker |-> {}]
    /\ resultQueue = {} /\ gathered = {} /\ shutdown = FALSE
    /\ driver = "collect" /\ collection = "none" /\ processDeaths = 0
    /\ validator = [i \in Instance |-> "none"] /\ command = [i \in Instance |-> "none"]
    /\ replies = {} /\ round = 0 /\ baselined = {} /\ live = {} /\ reported = {}
    /\ failed = {} /\ roundsRun = [i \in Instance |-> 0]

-----------------------------------------------------------------------------
(* worker_process *)

Take(w) ==
    LET queue == taskQueue[WorksFor[w]]
    IN  /\ job[w] = "free"
        /\ \/ /\ ~shutdown /\ queue # <<>>
              /\ job' = [job EXCEPT ![w] = IF Head(queue) = Sentinel THEN "left"
                                           ELSE Head(queue)]
              /\ taskQueue' = [taskQueue EXCEPT ![WorksFor[w]] = Tail(queue)]
           \/ /\ shutdown /\ job' = [job EXCEPT ![w] = "left"]
              /\ UNCHANGED taskQueue
        /\ UNCHANGED <<unsent, resultQueue, gathered, shutdown, driver, collection, processDeaths,
                       validationVars>>

\* Every exception becomes a result without success.
Report(w) ==
    /\ job[w] \in BenchQuery
    /\ \E success \in BOOLEAN :
          unsent' = [unsent EXCEPT ![w] = @ \cup {[query |-> job[w], success |-> success]}]
    /\ job' = [job EXCEPT ![w] = "free"]
    /\ UNCHANGED <<taskQueue, resultQueue, gathered, shutdown, driver, collection,
                   processDeaths, validationVars>>

\* put only hands a result over: a thread of the worker sends it later.
Send(w) ==
    /\ unsent[w] # {}
    /\ resultQueue' = resultQueue \cup unsent[w]
    /\ unsent' = [unsent EXCEPT ![w] = {}]
    /\ UNCHANGED <<taskQueue, job, gathered, shutdown, driver, collection, processDeaths,
                   validationVars>>

\* A worker that leaves sends what it has before it exits.
Exited(w) == job[w] \in Gone /\ unsent[w] = {}

WorkerDies(w) ==
    /\ ~Exited(w) /\ processDeaths < MaxProcessDeaths
    /\ job' = [job EXCEPT ![w] = "dead"] /\ processDeaths' = processDeaths + 1
    /\ unsent' = [unsent EXCEPT ![w] = {}]
    /\ UNCHANGED <<taskQueue, resultQueue, gathered, shutdown, driver, collection,
                   validationVars>>

-----------------------------------------------------------------------------
(* collect_results, shutdown_workers: the main process *)

EndCollection(how) == driver' = "shutdown" /\ collection' = how

Gather ==
    /\ driver = "collect"
    /\ \E result \in resultQueue :
          /\ resultQueue' = resultQueue \ {result}
          /\ gathered' = gathered \cup {result}
    /\ IF Cardinality(gathered') = Cardinality(BenchQuery)
       THEN EndCollection("complete") ELSE UNCHANGED <<driver, collection>>
    /\ UNCHANGED <<taskQueue, job, unsent, shutdown, processDeaths, validationVars>>

\* get(timeout) finds nothing; only then are the workers looked at.
GetTimesOut ==
    /\ driver = "collect" /\ resultQueue = {} /\ driver' = "check"
    /\ UNCHANGED <<poolVars, collection, processDeaths, validationVars>>

CheckWorkers ==
    /\ driver = "check"
    /\ IF \A w \in BenchWorker : Exited(w)
       THEN EndCollection("exited") ELSE driver' = "collect" /\ UNCHANGED collection
    /\ UNCHANGED <<poolVars, processDeaths, validationVars>>

Interrupt ==
    /\ driver \in {"collect", "check"} /\ EndCollection("interrupted")
    /\ UNCHANGED <<poolVars, processDeaths, validationVars>>

SetShutdown ==
    /\ driver = "shutdown" /\ driver' = "join" /\ shutdown' = TRUE
    /\ UNCHANGED <<taskQueue, job, unsent, resultQueue, gathered, collection,
                   processDeaths, validationVars>>

\* Workers that do not stop in time are terminated; then, if the collection was
\* not interrupted, instances with a success get a validation worker each.
ToValidate == {InstanceOf[r.query] : r \in {g \in gathered : g.success}}
JoinWorkers ==
    /\ driver = "join"
    /\ job' = [w \in BenchWorker |-> IF Exited(w) THEN job[w] ELSE "dead"]
    /\ unsent' = [w \in BenchWorker |-> {}]
    /\ IF collection = "complete" /\ ToValidate # {}
       THEN /\ driver' = "ready"
            /\ validator' = [i \in Instance |-> IF i \in ToValidate THEN "starting" ELSE "none"]
       ELSE driver' = "over" /\ UNCHANGED validator
    /\ UNCHANGED <<taskQueue, resultQueue, gathered, shutdown, collection, processDeaths,
                   command, replies, round, baselined, live, reported, failed, roundsRun>>

-----------------------------------------------------------------------------
(* _validate_instance_worker *)

Reply(i, phase) == replies' = replies \cup {[instance |-> i, phase |-> phase]}

\* Builds its validator, runs a rollout or writes its CSV; any exception ends
\* it with a "done" that carries the error.
Validate(i) ==
    /\ \/ /\ validator[i] = "starting"
          /\ \/ validator' = [validator EXCEPT ![i] = "waiting"] /\ Reply(i, "ready")
             \/ validator' = [validator EXCEPT ![i] = "gone"] /\ Reply(i, "done")
          /\ UNCHANGED <<command, roundsRun>>
       \/ /\ validator[i] = "waiting" /\ command[i] # "none"
          /\ command' = [command EXCEPT ![i] = "none"]
          /\ \/ /\ command[i] = "run" /\ Reply(i, "rollout")
                /\ roundsRun' = [roundsRun EXCEPT ![i] = @ + 1]
                /\ UNCHANGED validator
             \/ /\ Reply(i, "done") /\ UNCHANGED roundsRun
                /\ validator' = [validator EXCEPT ![i] = "gone"]
    /\ UNCHANGED <<poolVars, driver, collection, processDeaths, round, baselined, live,
                   reported, failed>>

\* A killed process sends nothing.
ValidatorKilled(i) ==
    /\ validator[i] \in {"starting", "waiting"} /\ processDeaths < MaxProcessDeaths
    /\ validator' = [validator EXCEPT ![i] = "killed"]
    /\ processDeaths' = processDeaths + 1
    /\ UNCHANGED <<poolVars, driver, collection, command, replies, round, baselined, live,
                   reported, failed, roundsRun>>

-----------------------------------------------------------------------------
(* _run_validation_by_instance: the coordinator *)

Receive(message) == message \in replies /\ replies' = replies \ {message}
Command(what, instances) ==
    command' = [i \in Instance |-> IF i \in instances THEN what ELSE command[i]]

DrainReady ==
    /\ driver = "ready"
    /\ \E message \in replies :
          /\ Receive(message)
          /\ reported' = reported \cup {message.instance}
          /\ live' = IF message.phase = "ready" THEN live \cup {message.instance} ELSE live
    /\ baselined' = live'
    /\ driver' = IF reported' = ToValidate THEN "between" ELSE "ready"
    /\ UNCHANGED <<poolVars, collection, processDeaths, validator, command, round, failed,
                   roundsRun>>

\* for r in range(max_rollout + 1), then finalize.
OpenRound ==
    /\ driver = "between"
    /\ reported' = {} /\ failed' = {}
    /\ LET more == live # {} /\ \E i \in baselined : round <= LastRoundOf[i]
       IN  /\ driver' = IF more THEN "barrier" ELSE IF live = {} THEN "over" ELSE "finalize"
           /\ Command(IF more THEN "run" ELSE "finalize", live)
    /\ UNCHANGED <<poolVars, collection, processDeaths, validator, replies, round, baselined,
                   live, roundsRun>>

SurvivorsAll == live                    \* as a mutant: failed instances stay alive
Survivors == live \ failed'

CloseBarrier ==
    /\ driver = "barrier"
    /\ \E message \in replies :
          /\ Receive(message)
          /\ IF message.phase = "rollout"
             THEN reported' = reported \cup {message.instance} /\ UNCHANGED failed
             ELSE failed' = failed \cup {message.instance} /\ UNCHANGED reported
    /\ IF Cardinality(reported') + Cardinality(failed') < Cardinality(live)
       THEN UNCHANGED <<driver, live, round>>
       ELSE driver' = "between" /\ live' = Survivors /\ round' = round + 1
    /\ UNCHANGED <<poolVars, collection, processDeaths, validator, command, baselined, roundsRun>>

CollectDone ==
    /\ driver = "finalize"
    /\ \E message \in replies :
          Receive(message) /\ reported' = reported \cup {message.instance}
    /\ driver' = IF reported' = live THEN "over" ELSE "finalize"
    /\ UNCHANGED <<poolVars, collection, processDeaths, validator, command, round, baselined,
                   live, failed, roundsRun>>

BatchNext ==
    \/ \E w \in BenchWorker : Take(w) \/ Report(w) \/ Send(w) \/ WorkerDies(w)
    \/ Gather \/ GetTimesOut \/ CheckWorkers \/ Interrupt \/ SetShutdown \/ JoinWorkers
    \/ \E i \in Instance : Validate(i) \/ ValidatorKilled(i)
    \/ DrainReady \/ OpenRound \/ CloseBarrier \/ CollectDone

BatchSpec == BatchInit /\ [][BatchNext]_batchVars

-----------------------------------------------------------------------------
BatchTypeOK ==
    /\ job \in [BenchWorker -> BenchQuery \cup {"free"} \cup Gone]
    /\ resultQueue \cup gathered \cup UNION {unsent[w] : w \in BenchWorker}
          \subseteq [query : BenchQuery, success : BOOLEAN]
    /\ driver \in {"collect", "check", "shutdown", "join", "ready", "between", "barrier",
                   "finalize", "over"}
    /\ collection \in {"none", "complete", "exited", "interrupted"}
    /\ validator \in [Instance -> {"none", "starting", "waiting", "gone", "killed"}]
    /\ live \subseteq baselined /\ baselined \subseteq Instance

\* A query has at most one result, only a worker that died takes one with it,
\* and a collection that ended by itself without a death has every result: as
\* collected, or, when the last worker left between the empty get and the look
\* at the workers, in the queue that nobody reads any more.
ResultsAccounted ==
    LET results == resultQueue \cup gathered \cup UNION {unsent[w] : w \in BenchWorker}
        answered == {r.query : r \in results}
        lost == {q \in BenchQuery \ answered :
                    /\ \A i \in Instance : ~Contains(taskQueue[i], q)
                    /\ \A w \in BenchWorker : job[w] # q}
    IN  /\ Cardinality(answered) = Cardinality(results)
        /\ \A q \in lost : \E w \in WorkersOf(InstanceOf[q]) : job[w] = "dead"
        /\ collection = "complete" => {r.query : r \in gathered} = BenchQuery
        /\ collection = "exited" /\ processDeaths = 0 => answered = BenchQuery

\* The instances a validation summary adds up have run the same rollouts, and
\* the coordinator, whose get has no timeout, waits only for workers that will
\* answer, unless one was killed.
RoundsAligned ==
    LET awaited == CASE driver = "ready" -> ToValidate \ reported
                     [] driver = "barrier" -> live \ (reported \cup failed)
                     [] driver = "finalize" -> live \ reported
                     [] OTHER -> {}
    IN  /\ driver = "between" /\ round > 0 => reported = live
        /\ \A i \in live : driver = "between" => roundsRun[i] = round
        /\ \A i \in awaited :
              \/ validator[i] \in {"starting", "killed"}
              \/ validator[i] = "waiting" /\ command[i] # "none"
              \/ \E message \in replies : message.instance = i

\* One batch: nothing is lost in the pool, nothing misaligned in the validation.
BatchAccounted == ResultsAccounted /\ RoundsAligned
=============================================================================
