------------------------------ MODULE PerfMon ------------------------------
(***************************************************************************)
(* The periods of a rule: perfmon cuts a template's past at the changes of *)
(* its rule (rule_state_history, see RuleState) and stores a row per       *)
(* period in perf_metrics_history: PerformanceComparator.update_instance_  *)
(* metrics (perfmon/performance_comparator.py), run by perfmon/            *)
(* update_metrics.py, over controller/perf_metrics_controller.py.          *)
(*                                                                         *)
(* The job is scheduled again and again, and run again after an error:     *)
(* two runs can overlap.  Rules change while they run.  A row's metrics    *)
(* are those of the interval it names and are left out.                    *)
(***************************************************************************)
EXTENDS Integers, Sequences, RuleState

CONSTANTS
    Templates,
    Plans,
    NoTemplate,
    Jobs,      \* processes that run update_metrics.py on the instance
    Lookback,  \* length of the baseline period, 30 days
    MaxTime,   \* bound: rows written to rule_state_history, the clock
    MaxFaults  \* bound: failed queries and killed jobs in a behaviour

ASSUME PerfAssumption ==
    /\ NoTemplate \notin Templates
    /\ Lookback \in Nat \ {0}
    /\ MaxTime \in Nat
    /\ MaxFaults \in Nat

VARIABLES
    clock,    \* NOW(3) of the metadata database
    latest,   \* get_latest_state of each template
    changes,  \* what get_all_changes_by_instance returns, per template
    rows,     \* perf_metrics_history: template and period_index to row
    pc,       \* where each job is
    snap,     \* the changes it read
    todo,     \* templates it still has to update
    tpl,      \* template it updates
    stored,   \* the template's rows as it read them
    now,      \* datetime.now() when it identified the periods
    index,    \* the period it is at
    result,   \* "ok" or "error": how its last run ended
    overlap,  \* have two runs ever been active at the same time?
    faults

metadata == <<latest, changes, rows>>
job      == <<pc, snap, todo, tpl, stored, now, index, result>>
vars     == <<clock, metadata, job, overlap, faults>>

Time  == 0..MaxTime
Index == 0..MaxTime

Change == [op : {"setup_plan", "modify_plan", "reset"}, plans : SUBSET Plans,
           time : Time]

NoRow == [start |-> 0, end |-> 0, op |-> "none", plans |-> {}, final |-> FALSE]

\* "plans" are those best_validation_log_id was looked up with.
Row == [start : Int, end : Time, op : Operation \cup {"none"},
        plans : SUBSET Plans, final : BOOLEAN]

\* Mutant: the row of a period that is still open says it is finalized.
PeriodAlwaysFinal(ch, k, t) ==
    [start |-> IF k = 0 THEN ch[1].time - Lookback ELSE ch[k].time,
     end   |-> IF k = Len(ch) THEN t ELSE ch[k + 1].time,
     op    |-> IF k = 0 THEN "none" ELSE ch[k].op,
     plans |-> IF k = 0 THEN {} ELSE ch[k].plans,
     final |-> TRUE]

\* _identify_periods: period 0 is the baseline, period k follows the k-th
\* change, and the one after the last change ends now and is open.
Period(ch, k, t) ==
    [start |-> IF k = 0 THEN ch[1].time - Lookback ELSE ch[k].time,
     end   |-> IF k = Len(ch) THEN t ELSE ch[k + 1].time,
     op    |-> IF k = 0 THEN "none" ELSE ch[k].op,
     plans |-> IF k = 0 THEN {} ELSE ch[k].plans,
     final |-> k < Len(ch)]

-----------------------------------------------------------------------------
TypeOK ==
    /\ clock \in Time
    /\ latest \in [Templates -> StateOver(Plans)]
    /\ changes \in [Templates -> Seq(Change)]
    /\ \A t \in Templates : Len(changes[t]) <= clock
    /\ rows \in [Templates -> [Index -> Row]]
    /\ pc \in [Jobs -> {"idle", "template", "period"}]
    /\ snap \in [Jobs -> [Templates -> Seq(Change)]]
    /\ todo \in [Jobs -> SUBSET Templates]
    /\ tpl \in [Jobs -> Templates \cup {NoTemplate}]
    /\ stored \in [Jobs -> [Index -> Row]]
    /\ now \in [Jobs -> Time]
    /\ index \in [Jobs -> Nat]
    /\ result \in [Jobs -> {"none", "ok", "error"}]
    /\ overlap \in BOOLEAN
    /\ faults \in 0..MaxFaults

Init ==
    /\ clock = 0
    /\ latest = [t \in Templates |-> NoState]
    /\ changes = [t \in Templates |-> <<>>]
    /\ rows = [t \in Templates |-> [k \in Index |-> NoRow]]
    /\ pc = [j \in Jobs |-> "idle"]
    /\ snap = [j \in Jobs |-> changes]
    /\ todo = [j \in Jobs |-> {}]
    /\ tpl = [j \in Jobs |-> NoTemplate]
    /\ stored = [j \in Jobs |-> [k \in Index |-> NoRow]]
    /\ now = [j \in Jobs |-> 0]
    /\ index = [j \in Jobs |-> 0]
    /\ result = [j \in Jobs |-> "none"]
    /\ overlap = FALSE
    /\ faults = 0

Fault == /\ faults < MaxFaults
         /\ faults' = faults + 1


-----------------------------------------------------------------------------
(* The rules change. *)

\* Mutant: a changed timeout is taken for a change of the rule's plans.
AnyOperation == {"setup_plan", "modify_plan", "modify_timeout", "reset"}

\* The operations get_all_changes_by_instance selects.
PeriodOperation == {"setup_plan", "modify_plan", "reset"}

\* An applier or the reset script writes a row; apply_time is NOW(3) of the
\* database.  A changed timeout is a row but does not begin a period.
RecordRule(t, plans, timeout) ==
    LET op == DecideOperation(latest[t], plans, plans = {}, {0}, {timeout})
    IN  /\ clock < MaxTime
        /\ clock' = clock + 1
        /\ latest' = RecordOperation(latest, t, op, plans)
        /\ changes' = IF op \in PeriodOperation
                      THEN [changes EXCEPT ![t] = Append(@,
                               [op |-> op, plans |-> plans, time |-> clock'])]
                      ELSE changes
        /\ UNCHANGED <<rows, job, overlap, faults>>

-----------------------------------------------------------------------------
(* One run of update_instance_metrics. *)

Active(j) == pc[j] # "idle"

\* get_all_changes_by_instance, grouped by template.
Begin(j) ==
    /\ pc[j] = "idle"
    /\ pc' = [pc EXCEPT ![j] = "template"]
    /\ snap' = [snap EXCEPT ![j] = changes]
    /\ todo' = [todo EXCEPT ![j] = {t \in Templates : changes[t] # <<>>}]
    /\ result' = [result EXCEPT ![j] = "none"]
    /\ overlap' = (overlap \/ \E i \in Jobs : Active(i))
    /\ UNCHANGED <<clock, metadata, tpl, stored, now, index, faults>>

\* get_periods of the next template, then _identify_periods.
ReadPeriods(j, t) ==
    /\ pc[j] = "template"
    /\ t \in todo[j]
    /\ pc' = [pc EXCEPT ![j] = "period"]
    /\ tpl' = [tpl EXCEPT ![j] = t]
    /\ stored' = [stored EXCEPT ![j] = rows[t]]
    /\ now' = [now EXCEPT ![j] = clock]
    /\ index' = [index EXCEPT ![j] = 0]
    /\ UNCHANGED <<clock, metadata, snap, todo, result, overlap, faults>>

\* The period the job is at, as it identified it.
Current(j) == Period(snap[j][tpl[j]], index[j], now[j])

\* Mutant: a stored period is never written again.
SkipStored(j) == stored[j][index[j]] # NoRow

\* Mutant: a stored row is not finalized once its period is over.
SkipFinal(j) == stored[j][index[j]] # NoRow /\ Current(j).final

\* A period is left alone when the stored row and the new one are finalized.
Skip(j) == stored[j][index[j]].final /\ Current(j).final

AtPeriod(j) == pc[j] = "period" /\ index[j] <= Len(snap[j][tpl[j]])

SkipPeriod(j) ==
    /\ AtPeriod(j)
    /\ Skip(j)
    /\ index' = [index EXCEPT ![j] = @ + 1]
    /\ UNCHANGED <<clock, metadata, pc, snap, todo, tpl, stored, now, result,
                   overlap, faults>>

Upsert(j) == rows' = [rows EXCEPT ![tpl[j]][index[j]] = Current(j)]

\* load_awr_metrics and upsert_period.
UpsertPeriod(j) ==
    /\ AtPeriod(j)
    /\ ~Skip(j)
    /\ Upsert(j)
    /\ index' = [index EXCEPT ![j] = @ + 1]
    /\ UNCHANGED <<clock, latest, changes, pc, snap, todo, tpl, stored, now,
                   result, overlap, faults>>

\* Back to the loop over the templates.
LeaveTemplate(j) ==
    /\ pc' = [pc EXCEPT ![j] = "template"]
    /\ todo' = [todo EXCEPT ![j] = @ \ {tpl[j]}]
    /\ tpl' = [tpl EXCEPT ![j] = NoTemplate]
    /\ stored' = [stored EXCEPT ![j] = [k \in Index |-> NoRow]]
    /\ now' = [now EXCEPT ![j] = 0]
    /\ index' = [index EXCEPT ![j] = 0]

EndTemplate(j) ==
    /\ pc[j] = "period"
    /\ ~AtPeriod(j)
    /\ LeaveTemplate(j)
    /\ UNCHANGED <<clock, metadata, snap, result, overlap, faults>>

\* Mutant: the failure of a template is not counted.
FailureUncounted(j) == result[j]

FailureCounted(j) == "error"

\* A query of the template fails, the upsert perhaps after its effect: the
\* template is given up and the run goes on.
TemplateFails(j) ==
    /\ pc[j] = "period"
    /\ Fault
    /\ \/ UNCHANGED rows
       \/ AtPeriod(j) /\ ~Skip(j) /\ Upsert(j)
    /\ LeaveTemplate(j)
    /\ result' = [result EXCEPT ![j] = FailureCounted(j)]
    /\ UNCHANGED <<clock, latest, changes, snap, overlap>>

EndRun(j) ==
    /\ pc[j] = "template"
    /\ todo[j] = {}
    /\ pc' = [pc EXCEPT ![j] = "idle"]
    /\ result' = [result EXCEPT ![j] = IF @ = "error" THEN "error" ELSE "ok"]
    /\ UNCHANGED <<clock, metadata, snap, todo, tpl, stored, now, index,
                   overlap, faults>>

\* The process is killed.
Kill(j) ==
    /\ Active(j)
    /\ Fault
    /\ pc' = [pc EXCEPT ![j] = "idle"]
    /\ todo' = [todo EXCEPT ![j] = {}]
    /\ tpl' = [tpl EXCEPT ![j] = NoTemplate]
    /\ stored' = [stored EXCEPT ![j] = [k \in Index |-> NoRow]]
    /\ now' = [now EXCEPT ![j] = 0]
    /\ index' = [index EXCEPT ![j] = 0]
    /\ result' = [result EXCEPT ![j] = "error"]
    /\ UNCHANGED <<clock, metadata, snap, overlap>>

-----------------------------------------------------------------------------
Update(j) ==
    \/ Begin(j)
    \/ SkipPeriod(j)
    \/ UpsertPeriod(j)
    \/ EndTemplate(j)
    \/ EndRun(j)
    \/ \E t \in Templates : ReadPeriods(j, t)

Next ==
    \/ \E t \in Templates, plans \in SUBSET Plans, timeout \in {0, 1} :
          RecordRule(t, plans, timeout)
    \/ \E j \in Jobs : Update(j) \/ TemplateFails(j) \/ Kill(j)

Spec == Init /\ [][Next]_vars

\* The job is scheduled for ever, and a run goes on until it ends.
FairSpec == Spec /\ \A j \in Jobs : WF_vars(Update(j))

-----------------------------------------------------------------------------
(* Properties. *)

\* A finalized row is the truth about a period that is over: it has the
\* bounds, the operation and the plans of that period in the history as it is
\* now, although it was computed from a history read earlier, by one of
\* several runs, and the history has grown since.
FinalizedIsTrue ==
    \A t \in Templates, k \in Index :
        rows[t][k].final => /\ k < Len(changes[t])
                            /\ rows[t][k] = Period(changes[t], k, clock)

\* The rows of a template are consecutive periods and only the last one can
\* be open, as long as runs do not overlap, and although they fail and are
\* killed halfway.
PeriodsInOrder ==
    ~overlap =>
        \A t \in Templates, k \in Index :
            k > 0 /\ rows[t][k] # NoRow => rows[t][k - 1].final

\* A run that reported success has stored every period of the history it
\* read, whatever other runs do.
SuccessCovers ==
    \A j \in Jobs :
        result[j] = "ok" =>
            \A t \in Templates :
                snap[j][t] # <<>> =>
                    \A k \in 0..Len(snap[j][t]) : rows[t][k] # NoRow

\* All of a template's periods are stored, and rightly finalized or open.
UpToDate(t) ==
    changes[t] # <<>> =>
        \A k \in 0..Len(changes[t]) :
            /\ rows[t][k] # NoRow
            /\ rows[t][k].final = (k < Len(changes[t]))

\* Once rules stop changing and jobs stop failing the rows become right and
\* remain so: whatever overlapping or failing runs left behind is repaired.
BecomesUpToDate == <>[](\A t \in Templates : UpToDate(t))

=============================================================================
