------------------------------ MODULE Workload ------------------------------
(***************************************************************************)
(* How a task's workload is loaded and stored (workload/*.py and           *)
(* controller/workload_controller.py): ClickHouse is queried with retries, *)
(* rows are filtered, given a digest, restricted to the templates asked    *)
(* for and saved one by one.                                               *)
(*                                                                         *)
(* A logged execution is a record: its statement, the log's own grouping   *)
(* key md5, the server's digest of the statement, its plan and time, and   *)
(* whether the statement passes the seven safety filters.                  *)
(***************************************************************************)
EXTENDS Integers, FiniteSets, Functions

CONSTANTS
    Log,            \* logged executions within the window
    TimeLimit,      \* min_query_time
    MaxAttempts,    \* max_retries of execute_with_retry
    WorkloadSet     \* the sets of templates tasks ask for, {} for no limit

ASSUME WorkloadAssumption ==
    /\ \A e \in Log :
          DOMAIN e = {"statement", "md5", "digest", "plan", "time", "safe"}
    /\ MaxAttempts \in Nat \ {0}

VARIABLES
    source,     \* the workload source of the task
    wanted,     \* workload_set
    stage0,     \* the step of preprocess that comes next
    attempt,    \* failed attempts of the query under way
    diagnosis,  \* which of the two counts of workload_diagnosis are known
    rows,       \* the rows in memory
    undigested, \* rows the server gave no digest for
    workload    \* table workload: digest and plan to row

workloadVars == <<source, wanted, stage0, attempt, diagnosis, rows,
                  undigested, workload>>

ClickHouse == {"slow_log", "awr"}
Queries == {"total", "window", "load", "fallback"}

WorkloadInit ==
    /\ source \in ClickHouse \cup {"slow_log_table", "awr_table"}
    /\ wanted \in WorkloadSet
    /\ stage0 = IF source \in ClickHouse THEN "total" ELSE "table"
    /\ attempt = 0
    /\ diagnosis = {}
    /\ rows = {}
    /\ undigested = {}
    /\ workload = <<>>

\* A group of executions becomes a row; the text is the one of the fastest.
RowOf(group, digest0) ==
    LET first == CHOOSE e \in group : \A o \in group : e.time <= o.time
        last  == CHOOSE e \in group : \A o \in group : o.time <= e.time
    IN  [statement |-> first.statement, slowest |-> last.statement,
         digest |-> digest0, safe |-> first.safe, truth |-> first.digest,
         plan |-> IF source = "slow_log" THEN "" ELSE first.plan]

\* The slow log is grouped by the log's md5, slow executions only; AWR by
\* digest and plan, groups slow on average.
SlowlogRows ==
    LET slow == {e \in Log : e.time >= TimeLimit}
    IN  {RowOf({e \in slow : e.md5 = m}, "") : m \in {e.md5 : e \in slow}}

SlowOnAverage(group) ==
    LET Total == FoldFunctionOnSet(+, 0, [e \in group |-> e.time], group)
    IN  Total >= TimeLimit * Cardinality(group)

AwrRows ==
    LET Group(d, p) == {e \in Log : e.digest = d /\ e.plan = p}
    IN  {RowOf(Group(k[1], k[2]), k[1]) :
            k \in {<<e.digest, e.plan>> :
                      e \in {x \in Log : SlowOnAverage(Group(x.digest, x.plan))}}}

Goto0(next) == stage0' = next /\ attempt' = 0

\* execute_with_retry: success, a transient refusal (Code 202) that is tried
\* again, or an error.
QuerySucceeds ==
    /\ stage0 \in Queries
    /\ IF stage0 \in {"total", "window"}
         THEN /\ diagnosis' = diagnosis \cup {stage0}
              /\ Goto0(IF stage0 = "total" THEN "window" ELSE "load")
              /\ UNCHANGED rows
         ELSE /\ rows' = IF source = "slow_log" THEN SlowlogRows ELSE AwrRows
              /\ Goto0("filter")
              /\ UNCHANGED diagnosis
    /\ UNCHANGED <<source, wanted, undigested, workload>>

QueryRefused ==
    /\ stage0 \in Queries
    /\ attempt + 1 < MaxAttempts
    /\ attempt' = attempt + 1
    /\ UNCHANGED <<source, wanted, stage0, diagnosis, rows, undigested, workload>>

\* A failed diagnosis is dropped whole; a slow log query out of memory
\* (Code 241) is tried once more with less parallelism; all else ends the task.
QueryFails(oom) ==
    /\ stage0 \in Queries
    /\ IF stage0 \in {"total", "window"}
         THEN diagnosis' = {} /\ Goto0("load")
         ELSE /\ Goto0(IF oom /\ stage0 = "load" /\ source = "slow_log"
                       THEN "fallback" ELSE "failed")
              /\ UNCHANGED diagnosis
    /\ UNCHANGED <<source, wanted, rows, undigested, workload>>

\* The mock sources are one query on the instance; rows of the slow log table
\* are of another type, which preprocess rejects.  A source that is not allowed, a
\* connection or a table that is not there fails the task.
ReadTable ==
    /\ stage0 = "table"
    /\ \/ /\ source = "awr_table"
          /\ rows' = {RowOf({e}, e.digest) : e \in {x \in Log : x.time >= TimeLimit}}
          /\ Goto0("filter")
       \/ Goto0("failed") /\ UNCHANGED rows
       \/ source = "slow_log_table" /\ Goto0("done") /\ UNCHANGED rows
    /\ UNCHANGED <<source, wanted, diagnosis, undigested, workload>>

\* _filter_safe_workloads; the list of routines is read from the instance, and
\* no row left ends the work.
FilterSafe ==
    /\ stage0 = "filter"
    /\ rows' = {r \in rows : r.safe}
    /\ Goto0(IF rows' = {} THEN "done" ELSE "digest")
    /\ UNCHANGED <<source, wanted, diagnosis, undigested, workload>>

RoutinesUnknown ==
    /\ stage0 = "filter"
    /\ rows # {}
    /\ Goto0("failed")
    /\ UNCHANGED <<source, wanted, diagnosis, rows, undigested, workload>>

Wanted(r) == wanted = {} \/ r.digest \in wanted

\* The filter on the rows as loaded, before digests are computed.
KeepEarly(failing) ==
    {[r EXCEPT !.digest = r.truth] :
        r \in {x \in rows : Wanted(x) /\ (x.digest # "" \/ x \notin failing)}}

\* _compute_missing_digests skips rows the server has no digest for;
\* _filter_by_workload_set comes after it.
Keep(failing) ==
    {r \in {[x EXCEPT !.digest = x.truth] :
                x \in {y \in rows : y.digest # "" \/ y \notin failing}} : Wanted(r)}

ComputeDigests(failing) ==
    /\ stage0 = "digest"
    /\ failing \subseteq rows
    /\ rows' = Keep(failing)
    /\ undigested' = {x \in failing : x.digest = ""}
    /\ Goto0("save")
    /\ UNCHANGED <<source, wanted, diagnosis, workload>>

\* save_workload_batch: one statement per row, an existing row is overwritten;
\* an error leaves the rows written so far.
SaveRow(r) ==
    /\ stage0 = "save"
    /\ r \in rows
    /\ workload' = [k \in DOMAIN workload \cup {<<r.digest, r.plan>>} |->
                      IF k = <<r.digest, r.plan>> THEN r ELSE workload[k]]
    /\ rows' = rows \ {r}
    /\ UNCHANGED <<source, wanted, stage0, attempt, diagnosis, undigested>>

SaveFails ==
    /\ stage0 = "save"
    /\ rows # {}
    /\ Goto0("failed")
    /\ UNCHANGED <<source, wanted, diagnosis, rows, undigested, workload>>

Saved ==
    /\ stage0 = "save"
    /\ rows = {}
    /\ Goto0("done")
    /\ UNCHANGED <<source, wanted, diagnosis, rows, undigested, workload>>

WorkloadNext ==
    \/ QuerySucceeds
    \/ QueryRefused
    \/ \E oom \in BOOLEAN : QueryFails(oom)
    \/ ReadTable
    \/ FilterSafe
    \/ RoutinesUnknown
    \/ \E failing \in SUBSET rows : ComputeDigests(failing)
    \/ \E r \in rows : SaveRow(r)
    \/ SaveFails
    \/ Saved

WorkloadSpec == WorkloadInit /\ [][WorkloadNext]_workloadVars

-----------------------------------------------------------------------------
WorkloadTypeOK ==
    /\ stage0 \in Queries \cup {"table", "filter", "digest", "save", "done", "failed"}
    /\ attempt \in 0 .. MaxAttempts - 1
    /\ diagnosis \in {{}, {"total"}, {"total", "window"}}

\* What a task stored is safe to run and under the right template, and a task
\* that went through has stored every wanted one, whatever was retried, refused
\* or skipped before: a row with no digest yet is not mistaken for an unwanted
\* one (preprocess, workload_set is applied "after digest computation").
StoredAsAsked ==
    /\ \A k \in DOMAIN workload : workload[k].safe /\ k[1] = workload[k].truth
    /\ stage0 = "done" /\ source \in ClickHouse =>
          LET offered == IF source = "slow_log" THEN SlowlogRows ELSE AwrRows
          IN  DOMAIN workload =
                {<<r.truth, r.plan>> :
                    r \in {x \in offered :
                              /\ x.safe
                              /\ wanted = {} \/ x.truth \in wanted
                              /\ x \notin undigested}}
=============================================================================
