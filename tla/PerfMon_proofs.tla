--------------------------- MODULE PerfMon_proofs ---------------------------
(***************************************************************************)
(* Theorems of PerfMon, for all templates, jobs and bounds.                *)
(***************************************************************************)
EXTENDS PerfMon, TLAPS, SequenceTheorems

-----------------------------------------------------------------------------
(* The inductive invariant, in parts. *)

\* A job works on a template that has changes, with the periods of its
\* snapshot; between templates its local variables are reset.
JobInv ==
    \A j \in Jobs :
        /\ todo[j] \subseteq {t \in Templates : snap[j][t] # <<>>}
        /\ pc[j] = "period" => tpl[j] \in todo[j]
        /\ pc[j] = "idle" => todo[j] = {}
        /\ pc[j] = "period" => index[j] <= Len(snap[j][tpl[j]]) + 1

\* The history a job read is the beginning of the history.
SnapInv ==
    \A j \in Jobs, t \in Templates :
        /\ Len(snap[j][t]) <= Len(changes[t])
        /\ \A i \in 1..Len(snap[j][t]) : snap[j][t][i] = changes[t][i]

\* What a job has stored so far, whatever other jobs do.
CoverOf(j) ==
    /\ pc[j] = "period" =>
          \A k \in Index :
              /\ stored[j][k] # NoRow => rows[tpl[j]][k] # NoRow
              /\ k < index[j] => rows[tpl[j]][k] # NoRow
    /\ result[j] # "error" /\ pc[j] # "idle" =>
          \A t \in Templates \ todo[j] :
              snap[j][t] # <<>> =>
                  \A k \in 0..Len(snap[j][t]) : rows[t][k] # NoRow
    /\ result[j] = "ok" => pc[j] = "idle"
    /\ result[j] = "ok" =>
          \A t \in Templates :
              snap[j][t] # <<>> =>
                  \A k \in 0..Len(snap[j][t]) : rows[t][k] # NoRow

CoverInv == \A j \in Jobs : CoverOf(j)

\* Without overlap: what is known of the rows, and what the job that runs
\* knows of them.
OneJob == \A i, j \in Jobs : Active(i) /\ Active(j) => i = j

WithinHistory ==
    \A t \in Templates, k \in Index :
        rows[t][k] # NoRow => k <= Len(changes[t])

WithinSnap ==
    \A j \in Jobs, t \in Templates, k \in Index :
        Active(j) /\ rows[t][k] # NoRow => k <= Len(snap[j][t])

JobRows ==
    \A j \in Jobs, k \in Index :
        pc[j] = "period" =>
            /\ k < index[j] /\ k < Len(snap[j][tpl[j]]) => rows[tpl[j]][k].final
            /\ index[j] <= k => stored[j][k] = rows[tpl[j]][k]

InOrder ==
    \A t \in Templates, k \in Index :
        k > 0 /\ rows[t][k] # NoRow => rows[t][k - 1].final

OrderInv ==
    ~overlap => OneJob /\ WithinHistory /\ WithinSnap /\ JobRows /\ InOrder

BaseInv == TypeOK /\ JobInv /\ SnapInv

IInv == BaseInv /\ FinalizedIsTrue /\ CoverInv /\ OrderInv

-----------------------------------------------------------------------------
(* Lemmas about the operators. *)

\* What a row of the table consists of.
LEMMA RowOf ==
    ASSUME NEW a \in Int, NEW b \in Time, NEW c \in Operation \cup {"none"},
           NEW d \in SUBSET Plans, NEW e \in BOOLEAN
    PROVE  [start |-> a, end |-> b, op |-> c, plans |-> d, final |-> e] \in Row
  BY DEF Row

\* A period of a history that is not empty is a row of the table, and never
\* mistaken for a missing one.
LEMMA PeriodIsRow ==
    ASSUME NEW ch \in Seq(Change), NEW k \in Nat, k <= Len(ch), ch # <<>>,
           NEW t \in Time
    PROVE  /\ Period(ch, k, t) \in Row
           /\ Period(ch, k, t) # NoRow
           /\ Period(ch, k, t).final = (k < Len(ch))
<1> DEFINE p == Period(ch, k, t)
<1>1. Len(ch) \in Nat \ {0} /\ \A i \in 1..Len(ch) : ch[i] \in Change
  OBVIOUS
<1>2. p.final = (k < Len(ch))
  BY DEF Period
<1>3. p.start \in Int
  <2>1. (IF k = 0 THEN ch[1] ELSE ch[k]) \in Change
    BY <1>1
  <2>2. (IF k = 0 THEN ch[1] ELSE ch[k]).time \in Int
    BY <2>1 DEF Change, Time
  <2>3. QED
    BY <2>2, PerfAssumption DEF Period
<1>4. p.end \in Time
  <2>1. k # Len(ch) => ch[k + 1] \in Change
    BY <1>1
  <2>2. QED
    BY <2>1 DEF Period, Change
<1>5. p.op \in Operation \cup {"none"} /\ p.plans \in SUBSET Plans
      /\ (k # 0 => p.op # "none")
  <2>1. k # 0 => ch[k] \in Change
    BY <1>1
  <2>2. QED
    BY <2>1 DEF Period, Change, Operation
<1>6. p \in Row
  <2>1. p = [start |-> p.start, end |-> p.end, op |-> p.op,
             plans |-> p.plans, final |-> p.final]
    BY DEF Period
  <2>2. p.final \in BOOLEAN
    BY <1>2
  <2>3. [start |-> p.start, end |-> p.end, op |-> p.op, plans |-> p.plans,
         final |-> p.final] \in Row
    <3> HIDE DEF p
    <3>1. QED
      BY <1>3, <1>4, <1>5, <2>2, RowOf, Zenon
  <2>4. QED
    BY <2>1, <2>3, Zenon
<1>7. p # NoRow
  <2>1. k # 0 => p # NoRow
    BY <1>5 DEF NoRow
  <2>2. k = 0 => p.final
    <3>1. k = 0 => k < Len(ch)
      BY <1>1
    <3> HIDE DEF p
    <3>2. QED
      BY <3>1, <1>2, Zenon
  <2>3. ~NoRow.final
    BY DEF NoRow
  <2>4. QED
    BY <2>1, <2>2, <2>3, Zenon
<1>8. QED
  BY <1>2, <1>6, <1>7

\* A period that is over is the same one in a longer history.
LEMMA PeriodOfPrefix ==
    ASSUME NEW ch \in Seq(Change), NEW longer \in Seq(Change),
           Len(ch) <= Len(longer),
           \A i \in 1..Len(ch) : ch[i] = longer[i],
           NEW k \in Nat, k < Len(ch), NEW s \in Time, NEW t \in Time
    PROVE  Period(ch, k, s) = Period(longer, k, t)
<1>1. Len(ch) \in Nat /\ Len(longer) \in Nat
  OBVIOUS
<1>2. ch[1] = longer[1] /\ ch[k + 1] = longer[k + 1]
  BY <1>1
<1>3. k > 0 => ch[k] = longer[k]
  BY <1>1
<1>4. /\ (k < Len(ch)) = (k < Len(longer))
      /\ (k = Len(ch)) = FALSE
      /\ (k = Len(longer)) = FALSE
  BY <1>1
<1>5. (IF k = 0 THEN ch[1].time - Lookback ELSE ch[k].time)
          = (IF k = 0 THEN longer[1].time - Lookback ELSE longer[k].time)
      /\ (IF k = 0 THEN "none" ELSE ch[k].op)
          = (IF k = 0 THEN "none" ELSE longer[k].op)
      /\ (IF k = 0 THEN {} ELSE ch[k].plans)
          = (IF k = 0 THEN {} ELSE longer[k].plans)
      /\ (IF k = Len(ch) THEN s ELSE ch[k + 1].time)
          = (IF k = Len(longer) THEN t ELSE longer[k + 1].time)
  BY <1>1, <1>2, <1>3, <1>4
<1>6. QED
  BY <1>4, <1>5, Zenon DEF Period


\* A template without a row has the row NoRow.
LEMMA NoRowIsRow == NoRow \in Row
<1>1. 0 \in Int /\ 0 \in Time /\ {} \in SUBSET Plans /\ FALSE \in BOOLEAN
  BY PerfAssumption DEF Time
<1>2. QED
  BY <1>1, RowOf, Zenon DEF NoRow

\* The local variables of a job that leaves its template.
LEMMA LeaveType ==
    ASSUME TypeOK, NEW j \in Jobs, LeaveTemplate(j)
    PROVE  /\ pc' \in [Jobs -> {"idle", "template", "period"}]
           /\ todo' \in [Jobs -> SUBSET Templates]
           /\ tpl' \in [Jobs -> Templates \cup {NoTemplate}]
           /\ stored' \in [Jobs -> [Index -> Row]]
           /\ now' \in [Jobs -> Time]
           /\ index' \in [Jobs -> Nat]
<1>1. [k \in Index |-> NoRow] \in [Index -> Row]
  BY NoRowIsRow
<1>2. 0 \in Time /\ 0 \in Nat
  BY PerfAssumption DEF Time
<1>3. QED
  BY <1>1, <1>2 DEF TypeOK, LeaveTemplate

\* The period a job is at is a row of the table.
LEMMA CurrentIsRow ==
    ASSUME BaseInv, NEW j \in Jobs, AtPeriod(j)
    PROVE  /\ tpl[j] \in Templates
           /\ snap[j][tpl[j]] # <<>>
           /\ snap[j][tpl[j]] \in Seq(Change)
           /\ index[j] \in Index
           /\ Current(j) \in Row
           /\ Current(j) # NoRow
           /\ Current(j).final = (index[j] < Len(snap[j][tpl[j]]))
<1>1. /\ tpl[j] \in Templates
      /\ snap[j][tpl[j]] # <<>>
  BY DEF BaseInv, JobInv, AtPeriod, TypeOK
<1>2. /\ snap[j][tpl[j]] \in Seq(Change)
      /\ changes[tpl[j]] \in Seq(Change)
      /\ now[j] \in Time
      /\ index[j] \in Nat
      /\ clock \in Time
      /\ Len(changes[tpl[j]]) <= clock
  BY <1>1 DEF BaseInv, TypeOK
<1>3. index[j] <= Len(snap[j][tpl[j]])
  BY DEF AtPeriod
<1>4. Len(snap[j][tpl[j]]) <= Len(changes[tpl[j]])
  BY <1>1 DEF BaseInv, SnapInv
<1>5. index[j] \in Index
  <2>1. Len(snap[j][tpl[j]]) \in Nat /\ Len(changes[tpl[j]]) \in Nat
    BY <1>2
  <2>2. QED
    BY <1>2, <1>3, <1>4, <2>1, PerfAssumption DEF Index, Time
<1>6. QED
  BY <1>1, <1>2, <1>3, <1>5, PeriodIsRow DEF Current

\* A history grows at its end.
LEMMA HistoryGrows ==
    ASSUME BaseInv, NEW t \in Templates, NEW plans \in SUBSET Plans,
           NEW timeout \in {0, 1}, RecordRule(t, plans, timeout),
           NEW s \in Templates
    PROVE  /\ Len(changes[s]) \in Nat
           /\ Len(changes'[s]) \in Nat
           /\ Len(changes[s]) <= Len(changes'[s])
           /\ \A i \in 1..Len(changes[s]) : changes'[s][i] = changes[s][i]
<1> USE DEF BaseInv, TypeOK
<1> DEFINE o == DecideOperation(latest[t], plans, plans = {}, {0}, {timeout})
           c == [op |-> o, plans |-> plans, time |-> clock']
<1>1. \/ changes' = changes
      \/ changes' = [changes EXCEPT ![t] = Append(changes[t], c)]
  BY DEF RecordRule
<1> HIDE DEF c
<1>2. changes'[s] = changes[s] \/ changes'[s] = Append(changes[s], c)
  BY <1>1
<1>3. Len(changes[s]) \in Nat
  OBVIOUS
<1>4. CASE changes'[s] = changes[s]
  BY <1>3, <1>4
<1>5. CASE changes'[s] = Append(changes[s], c)
  <2>1. /\ Len(Append(changes[s], c)) = Len(changes[s]) + 1
        /\ \A i \in 1..Len(changes[s]) :
               Append(changes[s], c)[i] = changes[s][i]
    BY AppendProperties
  <2>2. QED
    BY <1>3, <1>5, <2>1
<1>6. QED
  BY <1>2, <1>4, <1>5

-----------------------------------------------------------------------------
(* The steps preserve each part. *)

\* The types.
LEMMA TypeStep ==
    ASSUME BaseInv, Next
    PROVE  TypeOK'
<1> USE DEF BaseInv, TypeOK, metadata, job
<1>0. BaseInv
  OBVIOUS
<1>1. ASSUME NEW t \in Templates, NEW plans \in SUBSET Plans,
              NEW timeout \in {0, 1}, RecordRule(t, plans, timeout)
      PROVE  TypeOK'
  <2> DEFINE o == DecideOperation(latest[t], plans, plans = {}, {0}, {timeout})
  <2>1. o \in Operation
    BY <1>0, <1>1 DEF DecideOperation, Operation
  <2>2. latest' \in [Templates -> StateOver(Plans)]
    <3>1. o # "noop" => [op |-> o, plans |-> plans] \in StateOver(Plans)
      BY <2>1 DEF StateOver
    <3> HIDE DEF o
    <3>2. latest' = IF o = "noop" THEN latest ELSE
                    [latest EXCEPT ![t] = [op |-> o, plans |-> plans]]
      BY <1>0, <1>1 DEF RecordRule, RecordOperation, o
    <3>3. QED
      BY <1>0, <1>1, <3>1, <3>2
  <2>3. clock' \in Time /\ clock' = clock + 1
    BY <1>0, <1>1, PerfAssumption DEF RecordRule, Time
  <2>4. /\ changes' \in [Templates -> Seq(Change)]
        /\ \A s \in Templates : Len(changes'[s]) <= clock'
    <3>1. CASE o \in PeriodOperation
      <4> DEFINE c == [op |-> o, plans |-> plans, time |-> clock']
      <4>1. c \in Change
        BY <2>3, <3>1 DEF PeriodOperation, Change
      <4>2. changes' = [changes EXCEPT ![t] = Append(changes[t], c)]
        BY <1>0, <1>1, <3>1 DEF RecordRule
      <4> HIDE DEF c
      <4>3. /\ Append(changes[t], c) \in Seq(Change)
            /\ Len(Append(changes[t], c)) = Len(changes[t]) + 1
        BY <1>0, <1>1, <4>1
      <4>4. \A s \in Templates : Len(changes[s]) \in Nat
        BY <1>0, <1>1
      <4>5. \A s \in Templates :
               changes'[s] = IF s = t THEN Append(changes[t], c) ELSE changes[s]
        BY <1>0, <1>1, <4>2
      <4>6. \A s \in Templates : Len(changes'[s]) <= clock + 1
        <5>1. clock \in Nat
          BY <1>0, <1>1, PerfAssumption DEF Time
        <5>2. \A s \in Templates : Len(changes[s]) <= clock
          BY <1>0, <1>1
        <5>3. Len(changes[t]) + 1 <= clock + 1
          BY <4>4, <5>1, <5>2
        <5>4. \A s \in Templates : Len(changes[s]) <= clock + 1
          BY <4>4, <5>1, <5>2
        <5>5. QED
          BY <4>3, <4>5, <5>3, <5>4
      <4>7. QED
        BY <1>0, <1>1, <2>3, <4>2, <4>3, <4>6
    <3>2. CASE o \notin PeriodOperation
      <4>1. changes' = changes
        BY <1>0, <1>1, <3>2 DEF RecordRule
      <4>2. \A s \in Templates : Len(changes[s]) \in Nat
        BY <1>0, <1>1
      <4>3. QED
        BY <1>0, <1>1, <2>3, <4>1, <4>2 DEF Time
    <3>3. QED
      BY <3>1, <3>2
  <2>5. QED
    BY <1>0, <1>1, <2>2, <2>3, <2>4 DEF RecordRule
<1>2. ASSUME NEW j \in Jobs, Begin(j)
      PROVE  TypeOK'
  BY <1>0, <1>2, NoRowIsRow DEF Begin, LeaveTemplate, Fault, Active
<1>3. ASSUME NEW j \in Jobs, NEW t \in Templates, ReadPeriods(j, t)
      PROVE  TypeOK'
  BY <1>0, <1>3, NoRowIsRow DEF ReadPeriods, LeaveTemplate, Fault, Active
<1>4. ASSUME NEW j \in Jobs, SkipPeriod(j)
      PROVE  TypeOK'
  BY <1>0, <1>4, NoRowIsRow DEF SkipPeriod, LeaveTemplate, Fault, Active
<1>5. ASSUME NEW j \in Jobs, UpsertPeriod(j)
      PROVE  TypeOK'
  <2>1. rows' \in [Templates -> [Index -> Row]]
    BY <1>0, <1>5, CurrentIsRow DEF UpsertPeriod, Upsert, JobInv
  <2>2. QED
    BY <1>0, <1>5, <2>1 DEF UpsertPeriod
<1>6. ASSUME NEW j \in Jobs, EndTemplate(j)
      PROVE  TypeOK'
  BY <1>0, <1>6, LeaveType DEF EndTemplate
<1>7. ASSUME NEW j \in Jobs, TemplateFails(j)
      PROVE  TypeOK'
  <2>1. rows' \in [Templates -> [Index -> Row]]
    <3>1. CASE UNCHANGED rows
      BY <1>0, <1>7, <3>1
    <3>2. CASE AtPeriod(j) /\ Upsert(j)
      BY <1>0, <1>7, <3>2, CurrentIsRow DEF Upsert
    <3>3. QED
      BY <1>0, <1>7, <3>1, <3>2 DEF TemplateFails
  <2>2. result' \in [Jobs -> {"none", "ok", "error"}]
    BY <1>0, <1>7 DEF TemplateFails, FailureCounted
  <2>3. faults' \in 0..MaxFaults
    BY <1>0, <1>7, PerfAssumption DEF TemplateFails, Fault
  <2>4. QED
    BY <1>0, <1>7, <2>1, <2>2, <2>3, LeaveType DEF TemplateFails
<1>8. ASSUME NEW j \in Jobs, EndRun(j)
      PROVE  TypeOK'
  BY <1>0, <1>8, NoRowIsRow DEF EndRun, LeaveTemplate, Fault, Active
<1>9. ASSUME NEW j \in Jobs, Kill(j)
      PROVE  TypeOK'
  <2>1. [k \in Index |-> NoRow] \in [Index -> Row]
    BY NoRowIsRow
  <2>2. 0 \in Time /\ 0 \in Nat
    BY PerfAssumption DEF Time
  <2>3. faults' \in 0..MaxFaults
    BY <1>0, <1>9, PerfAssumption DEF Kill, Fault
  <2>4. QED
    BY <1>0, <1>9, <2>1, <2>2, <2>3 DEF Kill
<1>10. QED
  BY <1>0, <1>1, <1>2, <1>3, <1>4, <1>5, <1>6, <1>7, <1>8, <1>9
     DEF Next, Update

\* The local variables of the jobs.
LEMMA JobStep ==
    ASSUME BaseInv, Next
    PROVE  JobInv'
<1> USE DEF BaseInv, TypeOK, JobInv, metadata, job
<1>0. BaseInv
  OBVIOUS
<1>1. ASSUME NEW t \in Templates, NEW plans \in SUBSET Plans,
              NEW timeout \in {0, 1}, RecordRule(t, plans, timeout)
      PROVE  JobInv'
  BY <1>0, <1>1 DEF RecordRule, LeaveTemplate, AtPeriod
<1>2. ASSUME NEW j \in Jobs, Begin(j)
      PROVE  JobInv'
  BY <1>0, <1>2 DEF Begin
<1>3. ASSUME NEW j \in Jobs, NEW t \in Templates, ReadPeriods(j, t)
      PROVE  JobInv'
  BY <1>0, <1>3 DEF ReadPeriods, LeaveTemplate, AtPeriod
<1>4. ASSUME NEW j \in Jobs, SkipPeriod(j)
      PROVE  JobInv'
  BY <1>0, <1>4 DEF SkipPeriod, LeaveTemplate, AtPeriod
<1>5. ASSUME NEW j \in Jobs, UpsertPeriod(j)
      PROVE  JobInv'
  BY <1>0, <1>5 DEF UpsertPeriod, LeaveTemplate, AtPeriod
<1>6. ASSUME NEW j \in Jobs, EndTemplate(j)
      PROVE  JobInv'
  BY <1>0, <1>6 DEF EndTemplate, LeaveTemplate, AtPeriod
<1>7. ASSUME NEW j \in Jobs, TemplateFails(j)
      PROVE  JobInv'
  BY <1>0, <1>7 DEF TemplateFails, LeaveTemplate, AtPeriod
<1>8. ASSUME NEW j \in Jobs, EndRun(j)
      PROVE  JobInv'
  BY <1>0, <1>8 DEF EndRun, LeaveTemplate, AtPeriod
<1>9. ASSUME NEW j \in Jobs, Kill(j)
      PROVE  JobInv'
  BY <1>0, <1>9 DEF Kill, LeaveTemplate, AtPeriod
<1>10. QED
  BY <1>0, <1>1, <1>2, <1>3, <1>4, <1>5, <1>6, <1>7, <1>8, <1>9
     DEF Next, Update

\* Histories only grow at their end.
LEMMA SnapStep ==
    ASSUME BaseInv, Next
    PROVE  SnapInv'
<1> USE DEF BaseInv, TypeOK, SnapInv, metadata, job
<1>0. BaseInv
  OBVIOUS
<1>1. ASSUME NEW t \in Templates, NEW plans \in SUBSET Plans,
              NEW timeout \in {0, 1}, RecordRule(t, plans, timeout)
      PROVE  SnapInv'
  <2>1. UNCHANGED snap
    BY <1>0, <1>1 DEF RecordRule
  <2>2. SUFFICES ASSUME NEW j \in Jobs, NEW s \in Templates
                 PROVE  /\ Len(snap[j][s]) <= Len(changes'[s])
                        /\ \A i \in 1..Len(snap[j][s]) :
                               snap[j][s][i] = changes'[s][i]
    BY <2>1
  <2>3. /\ Len(snap[j][s]) \in Nat
        /\ Len(changes[s]) \in Nat
        /\ Len(changes'[s]) \in Nat
    BY <1>0, <1>1, HistoryGrows
  <2>4. /\ Len(snap[j][s]) <= Len(changes[s])
        /\ \A i \in 1..Len(snap[j][s]) : snap[j][s][i] = changes[s][i]
    BY <1>0, <1>1
  <2>5. /\ Len(changes[s]) <= Len(changes'[s])
        /\ \A i \in 1..Len(changes[s]) : changes'[s][i] = changes[s][i]
    BY <1>0, <1>1, HistoryGrows
  <2>6. \A i \in 1..Len(snap[j][s]) : i \in 1..Len(changes[s])
    BY <2>3, <2>4
  <2>7. QED
    BY <2>3, <2>4, <2>5, <2>6
<1>2. ASSUME NEW j \in Jobs, Begin(j)
      PROVE  SnapInv'
  <2>1. \A s \in Templates : Len(changes[s]) \in Nat
    BY <1>0, <1>2
  <2>2. QED
    BY <1>0, <1>2, <2>1 DEF Begin
<1>3. ASSUME NEW j \in Jobs, NEW t \in Templates, ReadPeriods(j, t)
      PROVE  SnapInv'
  BY <1>0, <1>3 DEF ReadPeriods
<1>4. ASSUME NEW j \in Jobs, SkipPeriod(j)
      PROVE  SnapInv'
  BY <1>0, <1>4 DEF SkipPeriod
<1>5. ASSUME NEW j \in Jobs, UpsertPeriod(j)
      PROVE  SnapInv'
  BY <1>0, <1>5 DEF UpsertPeriod
<1>6. ASSUME NEW j \in Jobs, EndTemplate(j)
      PROVE  SnapInv'
  BY <1>0, <1>6 DEF EndTemplate
<1>7. ASSUME NEW j \in Jobs, TemplateFails(j)
      PROVE  SnapInv'
  BY <1>0, <1>7 DEF TemplateFails
<1>8. ASSUME NEW j \in Jobs, EndRun(j)
      PROVE  SnapInv'
  BY <1>0, <1>8 DEF EndRun
<1>9. ASSUME NEW j \in Jobs, Kill(j)
      PROVE  SnapInv'
  BY <1>0, <1>9 DEF Kill
<1>10. QED
  BY <1>0, <1>1, <1>2, <1>3, <1>4, <1>5, <1>6, <1>7, <1>8, <1>9
     DEF Next, Update


\* A row written from an older history is right about the present one.
LEMMA UpsertFinalized ==
    ASSUME BaseInv, FinalizedIsTrue, NEW j \in Jobs, AtPeriod(j), Upsert(j),
           UNCHANGED <<clock, changes>>
    PROVE  FinalizedIsTrue'
<1>1. SUFFICES ASSUME NEW t \in Templates, NEW k \in Index,
                      rows'[t][k].final
               PROVE  /\ k < Len(changes[t])
                      /\ rows'[t][k] = Period(changes[t], k, clock)
  BY DEF FinalizedIsTrue
<1>2. CASE t = tpl[j] /\ k = index[j]
  <2>1. rows'[t][k] = Current(j)
    BY <1>2, CurrentIsRow DEF Upsert, BaseInv, TypeOK
  <2>2. /\ k < Len(snap[j][t])
        /\ k \in Nat
        /\ snap[j][t] \in Seq(Change)
        /\ changes[t] \in Seq(Change)
        /\ now[j] \in Time
        /\ clock \in Time
    BY <1>1, <1>2, <2>1, CurrentIsRow DEF BaseInv, TypeOK
  <2>3. /\ Len(snap[j][t]) <= Len(changes[t])
        /\ \A i \in 1..Len(snap[j][t]) : snap[j][t][i] = changes[t][i]
    BY DEF BaseInv, SnapInv
  <2>4. Period(snap[j][t], k, now[j]) = Period(changes[t], k, clock)
    BY <2>2, <2>3, PeriodOfPrefix, SMTT(60)
  <2>5. Len(snap[j][t]) \in Nat /\ Len(changes[t]) \in Nat
    BY <2>2
  <2>6. QED
    BY <1>2, <2>1, <2>2, <2>3, <2>4, <2>5 DEF Current
<1>3. CASE ~(t = tpl[j] /\ k = index[j])
  <2>1. rows'[t][k] = rows[t][k]
    BY <1>3 DEF Upsert, BaseInv, TypeOK
  <2>2. QED
    BY <1>1, <2>1 DEF FinalizedIsTrue
<1>4. QED
  BY <1>2, <1>3

\* A finalized row stays true while its history grows.
LEMMA FinalizedStep ==
    ASSUME BaseInv /\ FinalizedIsTrue, Next
    PROVE  FinalizedIsTrue'
<1> USE DEF FinalizedIsTrue, metadata, job
<1>0. BaseInv /\ FinalizedIsTrue
  OBVIOUS
<1>1. ASSUME NEW t \in Templates, NEW plans \in SUBSET Plans,
              NEW timeout \in {0, 1}, RecordRule(t, plans, timeout)
      PROVE  FinalizedIsTrue'
  <2>1. SUFFICES ASSUME NEW s \in Templates, NEW k \in Index, rows[s][k].final
                 PROVE  /\ k < Len(changes'[s])
                        /\ rows[s][k] = Period(changes'[s], k, clock')
    BY <1>0, <1>1 DEF RecordRule
  <2>2. k < Len(changes[s]) /\ rows[s][k] = Period(changes[s], k, clock)
    BY <1>0, <1>1, <2>1
  <2>3. /\ changes[s] \in Seq(Change)
        /\ changes'[s] \in Seq(Change)
        /\ k \in Nat
        /\ clock \in Time
        /\ clock' \in Time
    BY <1>0, <1>1, TypeStep DEF BaseInv, TypeOK, Index, Next
  <2>4. /\ Len(changes[s]) \in Nat
        /\ Len(changes'[s]) \in Nat
        /\ Len(changes[s]) <= Len(changes'[s])
        /\ \A i \in 1..Len(changes[s]) : changes[s][i] = changes'[s][i]
    BY <1>0, <1>1, HistoryGrows
  <2>5. Period(changes[s], k, clock) = Period(changes'[s], k, clock')
    BY <2>2, <2>3, <2>4, PeriodOfPrefix
  <2>6. QED
    BY <2>2, <2>3, <2>4, <2>5
<1>2. ASSUME NEW j \in Jobs, Begin(j)
      PROVE  FinalizedIsTrue'
  BY <1>0, <1>2 DEF Begin
<1>3. ASSUME NEW j \in Jobs, NEW t \in Templates, ReadPeriods(j, t)
      PROVE  FinalizedIsTrue'
  BY <1>0, <1>3 DEF ReadPeriods
<1>4. ASSUME NEW j \in Jobs, SkipPeriod(j)
      PROVE  FinalizedIsTrue'
  BY <1>0, <1>4 DEF SkipPeriod
<1>5. ASSUME NEW j \in Jobs, UpsertPeriod(j)
      PROVE  FinalizedIsTrue'
  BY <1>0, <1>5, UpsertFinalized DEF UpsertPeriod
<1>6. ASSUME NEW j \in Jobs, EndTemplate(j)
      PROVE  FinalizedIsTrue'
  BY <1>0, <1>6 DEF EndTemplate
<1>7. ASSUME NEW j \in Jobs, TemplateFails(j)
      PROVE  FinalizedIsTrue'
  <2>1. CASE UNCHANGED rows
    BY <1>0, <1>7, <2>1 DEF TemplateFails
  <2>2. CASE AtPeriod(j) /\ Upsert(j)
    BY <1>0, <1>7, <2>2, UpsertFinalized DEF TemplateFails
  <2>3. QED
    BY <1>0, <1>7, <2>1, <2>2 DEF TemplateFails
<1>8. ASSUME NEW j \in Jobs, EndRun(j)
      PROVE  FinalizedIsTrue'
  BY <1>0, <1>8 DEF EndRun
<1>9. ASSUME NEW j \in Jobs, Kill(j)
      PROVE  FinalizedIsTrue'
  BY <1>0, <1>9 DEF Kill
<1>10. QED
  BY <1>0, <1>1, <1>2, <1>3, <1>4, <1>5, <1>6, <1>7, <1>8, <1>9
     DEF Next, Update


\* The periods of a history a job read have an index in the table.
LEMMA SnapIndex ==
    ASSUME BaseInv, NEW j \in Jobs, NEW t \in Templates
    PROVE  /\ Len(snap[j][t]) \in Nat
           /\ 0..Len(snap[j][t]) \subseteq Index
<1>1. /\ snap[j][t] \in Seq(Change)
      /\ changes[t] \in Seq(Change)
      /\ clock \in Time
      /\ Len(changes[t]) <= clock
  BY DEF BaseInv, TypeOK
<1>2. Len(snap[j][t]) \in Nat /\ Len(changes[t]) \in Nat
  BY <1>1
<1>3. Len(snap[j][t]) <= Len(changes[t])
  BY DEF BaseInv, SnapInv
<1>4. QED
  BY <1>1, <1>2, <1>3, PerfAssumption DEF Index, Time

\* No row disappears when one is written.
LEMMA UpsertKeeps ==
    ASSUME BaseInv, NEW j \in Jobs, AtPeriod(j), Upsert(j)
    PROVE  /\ \A t \in Templates, k \in Index :
                 rows[t][k] # NoRow => rows'[t][k] # NoRow
           /\ rows'[tpl[j]][index[j]] # NoRow
  BY CurrentIsRow DEF Upsert, BaseInv, TypeOK

\* A job that moves to another state cannot change what others know.
LEMMA OthersCover ==
    ASSUME BaseInv, CoverInv, NEW i \in Jobs,
           \A t \in Templates, k \in Index :
               rows[t][k] # NoRow => rows'[t][k] # NoRow,
           pc'[i] = pc[i], snap'[i] = snap[i], todo'[i] = todo[i],
           tpl'[i] = tpl[i], stored'[i] = stored[i], index'[i] = index[i],
           result'[i] = result[i]
    PROVE  CoverOf(i)'
<1>1. \A t \in Templates : 0..Len(snap[i][t]) \subseteq Index
  BY SnapIndex
<1>2. pc[i] = "period" => tpl[i] \in Templates
  BY DEF BaseInv, JobInv, TypeOK
<1>3. CoverOf(i)
  BY DEF CoverInv
<1>4. QED
  BY <1>1, <1>2, <1>3 DEF CoverOf

\* What a job has stored stays stored.
LEMMA CoverStep ==
    ASSUME BaseInv /\ CoverInv, Next
    PROVE  CoverInv'
<1> USE DEF metadata, job, BaseInv, TypeOK
<1>0. BaseInv /\ CoverInv
  OBVIOUS
<1>1. ASSUME NEW t \in Templates, NEW plans \in SUBSET Plans,
              NEW timeout \in {0, 1}, RecordRule(t, plans, timeout)
      PROVE  CoverInv'
  <2>1. UNCHANGED <<rows, job>>
    BY <1>0, <1>1 DEF RecordRule
  <2>2. QED
    BY <1>0, <1>1, <2>1, OthersCover DEF CoverInv
<1>2. ASSUME NEW j \in Jobs, Begin(j)
      PROVE  CoverInv'
  <2>1. \A s \in Templates, k \in Index :
           rows[s][k] # NoRow => rows'[s][k] # NoRow
    BY <1>0, <1>2 DEF Begin
  <2>2. ASSUME NEW i \in Jobs, i # j
        PROVE  CoverOf(i)'
    <3>1. /\ pc'[i] = pc[i] /\ snap'[i] = snap[i] /\ todo'[i] = todo[i]
          /\ tpl'[i] = tpl[i] /\ stored'[i] = stored[i]
          /\ index'[i] = index[i] /\ result'[i] = result[i]
      BY <1>0, <1>2, <2>2 DEF Begin, LeaveTemplate
    <3>2. QED
      BY <1>0, <1>2, <2>1, <3>1, OthersCover
  <2>3. CoverOf(j)'
    BY <1>0, <1>2 DEF Begin, CoverOf, TypeOK
  <2>4. QED
    BY <2>2, <2>3 DEF CoverInv
<1>3. ASSUME NEW j \in Jobs, NEW t \in Templates, ReadPeriods(j, t)
      PROVE  CoverInv'
  <2>1. \A s \in Templates, k \in Index :
           rows[s][k] # NoRow => rows'[s][k] # NoRow
    BY <1>0, <1>3 DEF ReadPeriods
  <2>2. ASSUME NEW i \in Jobs, i # j
        PROVE  CoverOf(i)'
    <3>1. /\ pc'[i] = pc[i] /\ snap'[i] = snap[i] /\ todo'[i] = todo[i]
          /\ tpl'[i] = tpl[i] /\ stored'[i] = stored[i]
          /\ index'[i] = index[i] /\ result'[i] = result[i]
      BY <1>0, <1>3, <2>2 DEF ReadPeriods, LeaveTemplate
    <3>2. QED
      BY <1>0, <1>3, <2>1, <3>1, OthersCover
  <2>3. CoverOf(j)'
    <3>1. CoverOf(j)
      BY <1>0, <1>3 DEF CoverInv
    <3>2. /\ pc[j] = "template" /\ pc'[j] = "period"
          /\ tpl'[j] = t /\ stored'[j] = rows[t] /\ index'[j] = 0
          /\ UNCHANGED <<rows, snap, todo, result>>
      BY <1>0, <1>3 DEF ReadPeriods, TypeOK
    <3>3. \A k \in Index : ~(k < 0)
      BY PerfAssumption DEF Index
    <3>4. QED
      BY <3>1, <3>2, <3>3 DEF CoverOf
  <2>4. QED
    BY <2>2, <2>3 DEF CoverInv
<1>4. ASSUME NEW j \in Jobs, SkipPeriod(j)
      PROVE  CoverInv'
  <2>1. \A s \in Templates, k \in Index :
           rows[s][k] # NoRow => rows'[s][k] # NoRow
    BY <1>0, <1>4 DEF SkipPeriod
  <2>2. ASSUME NEW i \in Jobs, i # j
        PROVE  CoverOf(i)'
    <3>1. /\ pc'[i] = pc[i] /\ snap'[i] = snap[i] /\ todo'[i] = todo[i]
          /\ tpl'[i] = tpl[i] /\ stored'[i] = stored[i]
          /\ index'[i] = index[i] /\ result'[i] = result[i]
      BY <1>0, <1>4, <2>2 DEF SkipPeriod, LeaveTemplate
    <3>2. QED
      BY <1>0, <1>4, <2>1, <3>1, OthersCover
  <2>3. CoverOf(j)'
    <3>1. CoverOf(j)
      BY <1>0, <1>4 DEF CoverInv
    <3>2. /\ pc[j] = "period" /\ index[j] \in Index /\ tpl[j] \in Templates
          /\ index'[j] = index[j] + 1
          /\ UNCHANGED <<rows, pc, snap, todo, tpl, stored, result>>
      BY <1>0, <1>4, CurrentIsRow DEF SkipPeriod, AtPeriod, TypeOK
    <3>3. stored[j][index[j]] # NoRow
      <4>1. stored[j][index[j]].final
        BY <1>0, <1>4 DEF SkipPeriod, Skip
      <4>2. ~NoRow.final
        BY DEF NoRow
      <4>3. QED
        BY <4>1, <4>2, Zenon
    <3>4. \A k \in Index : k < index[j] + 1 => rows[tpl[j]][k] # NoRow
      <4>1. \A k \in Index : k < index[j] + 1 => k < index[j] \/ k = index[j]
        BY <3>2, PerfAssumption DEF Index
      <4>2. QED
        BY <3>1, <3>2, <3>3, <4>1 DEF CoverOf
    <3>5. QED
      BY <3>1, <3>2, <3>4 DEF CoverOf
  <2>4. QED
    BY <2>2, <2>3 DEF CoverInv
<1>5. ASSUME NEW j \in Jobs, UpsertPeriod(j)
      PROVE  CoverInv'
  <2>1. \A s \in Templates, k \in Index :
           rows[s][k] # NoRow => rows'[s][k] # NoRow
    BY <1>0, <1>5, UpsertKeeps DEF UpsertPeriod
  <2>2. ASSUME NEW i \in Jobs, i # j
        PROVE  CoverOf(i)'
    <3>1. /\ pc'[i] = pc[i] /\ snap'[i] = snap[i] /\ todo'[i] = todo[i]
          /\ tpl'[i] = tpl[i] /\ stored'[i] = stored[i]
          /\ index'[i] = index[i] /\ result'[i] = result[i]
      BY <1>0, <1>5, <2>2 DEF UpsertPeriod, LeaveTemplate
    <3>2. QED
      BY <1>0, <1>5, <2>1, <3>1, OthersCover
  <2>3. CoverOf(j)'
    <3>1. CoverOf(j)
      BY <1>0, <1>5 DEF CoverInv
    <3>2. /\ pc[j] = "period" /\ index[j] \in Index /\ tpl[j] \in Templates
          /\ index'[j] = index[j] + 1
          /\ UNCHANGED <<pc, snap, todo, tpl, stored, result>>
      BY <1>0, <1>5, CurrentIsRow DEF UpsertPeriod, AtPeriod, TypeOK
    <3>3. rows'[tpl[j]][index[j]] # NoRow
      BY <1>0, <1>5, UpsertKeeps DEF UpsertPeriod
    <3>4. \A k \in Index : k < index[j] + 1 => rows'[tpl[j]][k] # NoRow
      <4>1. \A k \in Index : k < index[j] + 1 => k < index[j] \/ k = index[j]
        BY <3>2, PerfAssumption DEF Index
      <4>2. QED
        BY <2>1, <3>1, <3>2, <3>3, <4>1 DEF CoverOf
    <3>5. \A s \in Templates : 0..Len(snap[j][s]) \subseteq Index
      BY <1>0, <1>5, SnapIndex
    <3>6. QED
      BY <2>1, <3>1, <3>2, <3>4, <3>5 DEF CoverOf
  <2>4. QED
    BY <2>2, <2>3 DEF CoverInv
<1>6. ASSUME NEW j \in Jobs, EndTemplate(j)
      PROVE  CoverInv'
  <2>1. \A s \in Templates, k \in Index :
           rows[s][k] # NoRow => rows'[s][k] # NoRow
    BY <1>0, <1>6 DEF EndTemplate
  <2>2. ASSUME NEW i \in Jobs, i # j
        PROVE  CoverOf(i)'
    <3>1. /\ pc'[i] = pc[i] /\ snap'[i] = snap[i] /\ todo'[i] = todo[i]
          /\ tpl'[i] = tpl[i] /\ stored'[i] = stored[i]
          /\ index'[i] = index[i] /\ result'[i] = result[i]
      BY <1>0, <1>6, <2>2 DEF EndTemplate, LeaveTemplate
    <3>2. QED
      BY <1>0, <1>6, <2>1, <3>1, OthersCover
  <2>3. CoverOf(j)'
    <3>1. CoverOf(j)
      BY <1>0, <1>6 DEF CoverInv
    <3>2. /\ tpl[j] \in Templates
          /\ index[j] \in Nat
          /\ pc[j] = "period"
          /\ ~(index[j] <= Len(snap[j][tpl[j]]))
      BY <1>0, <1>6 DEF EndTemplate, AtPeriod, JobInv, TypeOK
    <3>3. /\ Len(snap[j][tpl[j]]) \in Nat
          /\ 0..Len(snap[j][tpl[j]]) \subseteq Index
      BY <1>0, <1>6, <3>2, SnapIndex
    <3>4. \A k \in 0..Len(snap[j][tpl[j]]) : rows[tpl[j]][k] # NoRow
      BY <3>1, <3>2, <3>3 DEF CoverOf
    <3>5. /\ pc'[j] = "template" /\ todo'[j] = todo[j] \ {tpl[j]}
          /\ UNCHANGED <<rows, snap, result>>
      BY <1>0, <1>6 DEF EndTemplate, LeaveTemplate, TypeOK
    <3>6. QED
      BY <3>1, <3>2, <3>4, <3>5 DEF CoverOf
  <2>4. QED
    BY <2>2, <2>3 DEF CoverInv
<1>7. ASSUME NEW j \in Jobs, TemplateFails(j)
      PROVE  CoverInv'
  <2>1. \A s \in Templates, k \in Index :
           rows[s][k] # NoRow => rows'[s][k] # NoRow
    <3>1. CASE UNCHANGED rows
      BY <3>1
    <3>2. CASE AtPeriod(j) /\ Upsert(j)
      BY <1>0, <1>7, <3>2, UpsertKeeps
    <3>3. QED
      BY <1>0, <1>7, <3>1, <3>2 DEF TemplateFails
  <2>2. ASSUME NEW i \in Jobs, i # j
        PROVE  CoverOf(i)'
    <3>1. /\ pc'[i] = pc[i] /\ snap'[i] = snap[i] /\ todo'[i] = todo[i]
          /\ tpl'[i] = tpl[i] /\ stored'[i] = stored[i]
          /\ index'[i] = index[i] /\ result'[i] = result[i]
      BY <1>0, <1>7, <2>2 DEF TemplateFails, LeaveTemplate
    <3>2. QED
      BY <1>0, <1>7, <2>1, <3>1, OthersCover
  <2>3. CoverOf(j)'
    <3>1. result'[j] = "error" /\ pc'[j] = "template"
      BY <1>0, <1>7 DEF TemplateFails, LeaveTemplate, FailureCounted, TypeOK
    <3>2. QED
      BY <3>1 DEF CoverOf
  <2>4. QED
    BY <2>2, <2>3 DEF CoverInv
<1>8. ASSUME NEW j \in Jobs, EndRun(j)
      PROVE  CoverInv'
  <2>1. \A s \in Templates, k \in Index :
           rows[s][k] # NoRow => rows'[s][k] # NoRow
    BY <1>0, <1>8 DEF EndRun
  <2>2. ASSUME NEW i \in Jobs, i # j
        PROVE  CoverOf(i)'
    <3>1. /\ pc'[i] = pc[i] /\ snap'[i] = snap[i] /\ todo'[i] = todo[i]
          /\ tpl'[i] = tpl[i] /\ stored'[i] = stored[i]
          /\ index'[i] = index[i] /\ result'[i] = result[i]
      BY <1>0, <1>8, <2>2 DEF EndRun, LeaveTemplate
    <3>2. QED
      BY <1>0, <1>8, <2>1, <3>1, OthersCover
  <2>3. CoverOf(j)'
    <3>1. CoverOf(j)
      BY <1>0, <1>8 DEF CoverInv
    <3>2. QED
      BY <1>0, <1>8, <3>1 DEF EndRun, CoverOf, TypeOK
  <2>4. QED
    BY <2>2, <2>3 DEF CoverInv
<1>9. ASSUME NEW j \in Jobs, Kill(j)
      PROVE  CoverInv'
  <2>1. \A s \in Templates, k \in Index :
           rows[s][k] # NoRow => rows'[s][k] # NoRow
    BY <1>0, <1>9 DEF Kill
  <2>2. ASSUME NEW i \in Jobs, i # j
        PROVE  CoverOf(i)'
    <3>1. /\ pc'[i] = pc[i] /\ snap'[i] = snap[i] /\ todo'[i] = todo[i]
          /\ tpl'[i] = tpl[i] /\ stored'[i] = stored[i]
          /\ index'[i] = index[i] /\ result'[i] = result[i]
      BY <1>0, <1>9, <2>2 DEF Kill, LeaveTemplate
    <3>2. QED
      BY <1>0, <1>9, <2>1, <3>1, OthersCover
  <2>3. CoverOf(j)'
    <3>1. result'[j] = "error" /\ pc'[j] = "idle"
      BY <1>0, <1>9 DEF Kill, TypeOK
    <3>2. QED
      BY <3>1 DEF CoverOf
  <2>4. QED
    BY <2>2, <2>3 DEF CoverInv
<1>10. QED
  BY <1>0, <1>1, <1>2, <1>3, <1>4, <1>5, <1>6, <1>7, <1>8, <1>9
     DEF Next, Update


\* The row a job writes, and all the others.
LEMMA UpsertAt ==
    ASSUME BaseInv, NEW j \in Jobs, AtPeriod(j), Upsert(j)
    PROVE  /\ rows'[tpl[j]][index[j]] = Current(j)
           /\ \A t \in Templates, k \in Index :
                 (t = tpl[j] /\ k = index[j]) \/ rows'[t][k] = rows[t][k]
  BY CurrentIsRow DEF Upsert, BaseInv, TypeOK

\* The only job that runs writes a row that continues the ones before.
LEMMA UpsertOrder ==
    ASSUME BaseInv, OrderInv, ~overlap, NEW j \in Jobs, AtPeriod(j),
           Upsert(j), UNCHANGED <<changes, snap>>
    PROVE  /\ WithinHistory'
           /\ \A t \in Templates, k \in Index :
                 rows'[t][k] # NoRow => k <= Len(snap[j][t])
           /\ InOrder'
<1>1. OneJob /\ WithinHistory /\ WithinSnap /\ JobRows /\ InOrder
  BY DEF OrderInv
<1>2. /\ pc[j] = "period" /\ Active(j)
      /\ index[j] <= Len(snap[j][tpl[j]])
  BY DEF AtPeriod, Active
<1>3. \A t \in Templates :
         /\ Len(snap[j][t]) \in Nat /\ Len(changes[t]) \in Nat
         /\ Len(snap[j][t]) <= Len(changes[t])
  BY DEF BaseInv, TypeOK, SnapInv
<1>4. \A t \in Templates, k \in Index :
         rows'[t][k] # NoRow => k <= Len(snap[j][t])
  BY <1>1, <1>2, UpsertAt DEF WithinSnap
<1>5. WithinHistory'
  <2>1. \A t \in Templates, k \in Index :
           rows'[t][k] # NoRow => k <= Len(changes[t])
    BY <1>3, <1>4, PerfAssumption DEF Index
  <2>2. QED
    BY <2>1 DEF WithinHistory
<1>6. InOrder'
  <2>1. SUFFICES ASSUME NEW t \in Templates, NEW k \in Index,
                        k > 0, rows'[t][k] # NoRow
                 PROVE  rows'[t][k - 1].final
    BY DEF InOrder
  <2>2. k - 1 \in Index /\ k \in Nat /\ k - 1 # k
    BY <2>1, PerfAssumption DEF Index
  <2>3. CASE t = tpl[j] /\ k = index[j]
    <3>1. k - 1 < index[j] /\ k - 1 < Len(snap[j][tpl[j]])
      BY <1>2, <1>3, <2>2, <2>3
    <3>2. rows[t][k - 1].final
      BY <1>1, <1>2, <2>2, <2>3, <3>1 DEF JobRows
    <3>3. rows'[t][k - 1] = rows[t][k - 1]
      BY <2>2, <2>3, UpsertAt
    <3>4. QED
      BY <3>2, <3>3
  <2>4. CASE t = tpl[j] /\ k - 1 = index[j]
    <3>1. k <= Len(snap[j][t])
      BY <1>4, <2>1
    <3>2. index[j] < Len(snap[j][tpl[j]])
      BY <1>3, <2>2, <2>4, <3>1
    <3>3. Current(j).final = (index[j] < Len(snap[j][tpl[j]]))
      BY CurrentIsRow
    <3>4. Current(j).final
      BY <3>2, <3>3, Zenon
    <3>5. QED
      BY <2>4, <3>4, UpsertAt
  <2>5. CASE ~(t = tpl[j] /\ k = index[j]) /\ ~(t = tpl[j] /\ k - 1 = index[j])
    <3>1. rows'[t][k] = rows[t][k] /\ rows'[t][k - 1] = rows[t][k - 1]
      BY <2>2, <2>5, UpsertAt
    <3>2. QED
      BY <1>1, <2>1, <3>1 DEF InOrder
  <2>6. QED
    BY <2>3, <2>4, <2>5
<1>7. QED
  BY <1>4, <1>5, <1>6

\* Without overlap the rows stay in order.
LEMMA OrderStep ==
    ASSUME BaseInv /\ OrderInv, Next
    PROVE  OrderInv'
<1> USE DEF metadata, job, BaseInv, TypeOK
<1>0. BaseInv /\ OrderInv
  OBVIOUS
<1>1. ASSUME NEW t \in Templates, NEW plans \in SUBSET Plans,
              NEW timeout \in {0, 1}, RecordRule(t, plans, timeout)
      PROVE  OrderInv'
  <2>1. SUFFICES ASSUME ~overlap
                 PROVE  (OneJob /\ WithinHistory /\ WithinSnap /\ JobRows
                            /\ InOrder)'
    BY <1>0, <1>1 DEF RecordRule, OrderInv
  <2>2. OneJob /\ WithinHistory /\ WithinSnap /\ JobRows /\ InOrder
    BY <1>0, <1>1, <2>1 DEF OrderInv
  <2>3. UNCHANGED <<rows, job>>
    BY <1>0, <1>1 DEF RecordRule
  <2>4. WithinHistory'
    <3>1. \A s \in Templates :
             /\ Len(changes[s]) \in Nat /\ Len(changes'[s]) \in Nat
             /\ Len(changes[s]) <= Len(changes'[s])
      BY <1>0, <1>1, HistoryGrows
    <3>2. \A s \in Templates, k \in Index :
             k <= Len(changes[s]) => k <= Len(changes'[s])
      BY <3>1, PerfAssumption DEF Index
    <3>3. QED
      BY <2>2, <2>3, <3>2 DEF WithinHistory
  <2>5. QED
    BY <2>2, <2>3, <2>4 DEF OneJob, Active, WithinSnap, JobRows, InOrder
<1>2. ASSUME NEW j \in Jobs, Begin(j)
      PROVE  OrderInv'
  <2>1. SUFFICES ASSUME ~overlap, \A i \in Jobs : pc[i] = "idle"
                 PROVE  (OneJob /\ WithinHistory /\ WithinSnap /\ JobRows
                            /\ InOrder)'
    BY <1>0, <1>2 DEF Begin, OrderInv, Active
  <2>2. WithinHistory /\ InOrder
    BY <1>0, <1>2, <2>1 DEF OrderInv
  <2>3. /\ \A i \in Jobs : pc'[i] = IF i = j THEN "template" ELSE "idle"
        /\ snap'[j] = changes
        /\ UNCHANGED <<rows, changes>>
    BY <1>0, <1>2, <2>1 DEF Begin
  <2>4. QED
    BY <2>2, <2>3
       DEF OneJob, Active, WithinHistory, WithinSnap, JobRows, InOrder
<1>3. ASSUME NEW j \in Jobs, NEW t \in Templates, ReadPeriods(j, t)
      PROVE  OrderInv'
  <2>1. SUFFICES ASSUME ~overlap
                 PROVE  (OneJob /\ WithinHistory /\ WithinSnap /\ JobRows
                            /\ InOrder)'
    BY <1>0, <1>3 DEF ReadPeriods, OrderInv
  <2>2. OneJob /\ WithinHistory /\ WithinSnap /\ JobRows /\ InOrder
    BY <1>0, <1>3, <2>1 DEF OrderInv
  <2>3. /\ pc[j] = "template" /\ pc'[j] = "period"
        /\ tpl'[j] = t /\ stored'[j] = rows[t] /\ index'[j] = 0
        /\ \A i \in Jobs : i # j => pc'[i] = pc[i]
        /\ UNCHANGED <<rows, changes, snap>>
    BY <1>0, <1>3 DEF ReadPeriods
  <2>4. \A i \in Jobs : pc'[i] # "idle" <=> pc[i] # "idle"
    BY <2>3
  <2>5. JobRows'
    <3>1. \A i \in Jobs : pc'[i] = "period" => i = j
      BY <2>2, <2>3, <2>4 DEF OneJob, Active
    <3>2. \A k \in Index : ~(k < 0)
      BY PerfAssumption DEF Index
    <3>3. QED
      BY <2>3, <3>1, <3>2 DEF JobRows
  <2>6. QED
    BY <2>2, <2>3, <2>4, <2>5
       DEF OneJob, Active, WithinHistory, WithinSnap, InOrder
<1>4. ASSUME NEW j \in Jobs, SkipPeriod(j)
      PROVE  OrderInv'
  <2>1. SUFFICES ASSUME ~overlap
                 PROVE  (OneJob /\ WithinHistory /\ WithinSnap /\ JobRows
                            /\ InOrder)'
    BY <1>0, <1>4 DEF SkipPeriod, OrderInv
  <2>2. OneJob /\ WithinHistory /\ WithinSnap /\ JobRows /\ InOrder
    BY <1>0, <1>4, <2>1 DEF OrderInv
  <2>3. /\ index' = [index EXCEPT ![j] = index[j] + 1]
        /\ pc[j] = "period" /\ index[j] \in Index
        /\ stored[j][index[j]].final
        /\ UNCHANGED <<rows, changes, pc, snap, tpl, stored>>
    BY <1>0, <1>4, CurrentIsRow DEF SkipPeriod, AtPeriod, Skip
  <2>4. JobRows'
    <3>1. SUFFICES ASSUME NEW i \in Jobs, NEW k \in Index, pc[i] = "period"
                   PROVE  /\ k < index'[i] /\ k < Len(snap[i][tpl[i]])
                                => rows[tpl[i]][k].final
                          /\ index'[i] <= k => stored[i][k] = rows[tpl[i]][k]
      BY <2>3 DEF JobRows
    <3>2. CASE i # j
      BY <1>0, <1>4, <2>2, <2>3, <3>1, <3>2 DEF JobRows
    <3>3. CASE i = j
      <4>1. index'[j] = index[j] + 1
        BY <1>0, <1>4, <2>3
      <4>2. /\ k < index[j] + 1 => k < index[j] \/ k = index[j]
            /\ index[j] + 1 <= k => index[j] <= k
            /\ index[j] <= index[j]
        BY <2>3, PerfAssumption DEF Index
      <4>3. rows[tpl[j]][index[j]].final
        BY <2>2, <2>3, <4>2 DEF JobRows
      <4>4. QED
        BY <2>2, <2>3, <3>1, <3>3, <4>1, <4>2, <4>3 DEF JobRows
    <3>4. QED
      BY <3>2, <3>3
  <2>5. QED
    BY <2>2, <2>3, <2>4
       DEF OneJob, Active, WithinHistory, WithinSnap, InOrder
<1>5. ASSUME NEW j \in Jobs, UpsertPeriod(j)
      PROVE  OrderInv'
  <2>1. SUFFICES ASSUME ~overlap
                 PROVE  (OneJob /\ WithinHistory /\ WithinSnap /\ JobRows
                            /\ InOrder)'
    BY <1>0, <1>5 DEF UpsertPeriod, OrderInv
  <2>2. OneJob /\ WithinHistory /\ WithinSnap /\ JobRows /\ InOrder
    BY <1>0, <1>5, <2>1 DEF OrderInv
  <2>3. /\ index' = [index EXCEPT ![j] = index[j] + 1]
        /\ pc[j] = "period" /\ index[j] \in Index /\ tpl[j] \in Templates
        /\ UNCHANGED <<changes, pc, snap, tpl, stored>>
        /\ AtPeriod(j) /\ Upsert(j)
    BY <1>0, <1>5, CurrentIsRow DEF UpsertPeriod, AtPeriod
  <2>4. /\ WithinHistory'
        /\ \A s \in Templates, k \in Index :
              rows'[s][k] # NoRow => k <= Len(snap[j][s])
        /\ InOrder'
    BY <1>0, <1>5, <2>1, <2>3, UpsertOrder
  <2>5. \A i \in Jobs : Active(i) => i = j
    BY <2>2, <2>3 DEF OneJob, Active
  <2>6. OneJob' /\ WithinSnap'
    BY <2>3, <2>4, <2>5 DEF OneJob, Active, WithinSnap
  <2>7. JobRows'
    <3>1. SUFFICES ASSUME NEW k \in Index
                   PROVE  /\ k < index[j] + 1 /\ k < Len(snap[j][tpl[j]])
                                => rows'[tpl[j]][k].final
                          /\ index[j] + 1 <= k
                                => stored[j][k] = rows'[tpl[j]][k]
      BY <1>0, <1>5, <2>3, <2>5 DEF JobRows, Active
    <3>2. CASE k = index[j]
      <4>1. Current(j).final = (k < Len(snap[j][tpl[j]]))
        BY <1>0, <1>5, <2>3, <3>2, CurrentIsRow
      <4>2. rows'[tpl[j]][k] = Current(j)
        BY <1>0, <1>5, <2>3, <3>2, UpsertAt
      <4>3. k < Len(snap[j][tpl[j]]) => rows'[tpl[j]][k].final
        BY <4>1, <4>2, Zenon
      <4>4. ~(index[j] + 1 <= k)
        BY <2>3, <3>2, PerfAssumption DEF Index
      <4>5. QED
        BY <4>3, <4>4
    <3>3. CASE k # index[j]
      <4>1. rows'[tpl[j]][k] = rows[tpl[j]][k]
        BY <1>0, <1>5, <2>3, <3>3, UpsertAt
      <4>2. /\ k < index[j] + 1 => k < index[j]
            /\ index[j] + 1 <= k => index[j] <= k
        BY <2>3, <3>3, PerfAssumption DEF Index
      <4>3. QED
        BY <2>2, <2>3, <4>1, <4>2 DEF JobRows
    <3>4. QED
      BY <3>2, <3>3
  <2>8. QED
    BY <2>4, <2>6, <2>7
<1>6. ASSUME NEW j \in Jobs, EndTemplate(j)
      PROVE  OrderInv'
  <2>1. SUFFICES ASSUME ~overlap
                 PROVE  (OneJob /\ WithinHistory /\ WithinSnap /\ JobRows
                            /\ InOrder)'
    BY <1>0, <1>6 DEF EndTemplate, OrderInv
  <2>2. OneJob /\ WithinHistory /\ WithinSnap /\ JobRows /\ InOrder
    BY <1>0, <1>6, <2>1 DEF OrderInv
  <2>3. /\ pc[j] # "idle" /\ pc'[j] = "template"
        /\ \A i \in Jobs : i # j => pc'[i] = pc[i]
        /\ UNCHANGED <<rows, changes, snap>>
    BY <1>0, <1>6 DEF EndTemplate, LeaveTemplate
  <2>4. \A i \in Jobs : Active(i) => i = j
    BY <2>2, <2>3 DEF OneJob, Active
  <2>5. OneJob' /\ JobRows'
    BY <2>3, <2>4 DEF OneJob, Active, JobRows
  <2>6. QED
    BY <2>2, <2>3, <2>5 DEF WithinHistory, WithinSnap, Active, InOrder
<1>7. ASSUME NEW j \in Jobs, TemplateFails(j)
      PROVE  OrderInv'
  <2>1. SUFFICES ASSUME ~overlap
                 PROVE  (OneJob /\ WithinHistory /\ WithinSnap /\ JobRows
                            /\ InOrder)'
    BY <1>0, <1>7 DEF TemplateFails, OrderInv
  <2>2. OneJob /\ WithinHistory /\ WithinSnap /\ JobRows /\ InOrder
    BY <1>0, <1>7, <2>1 DEF OrderInv
  <2>3. /\ pc[j] = "period" /\ pc'[j] = "template"
        /\ \A i \in Jobs : i # j => pc'[i] = pc[i]
        /\ UNCHANGED <<changes, snap>>
    BY <1>0, <1>7 DEF TemplateFails, LeaveTemplate
  <2>4. \A i \in Jobs : Active(i) => i = j
    BY <2>2, <2>3 DEF OneJob, Active
  <2>5. /\ WithinHistory'
        /\ \A s \in Templates, k \in Index :
              rows'[s][k] # NoRow => k <= Len(snap[j][s])
        /\ InOrder'
    <3>1. CASE UNCHANGED rows
      BY <2>2, <2>3, <3>1 DEF WithinHistory, WithinSnap, Active, InOrder
    <3>2. CASE AtPeriod(j) /\ Upsert(j)
      BY <1>0, <1>7, <2>1, <2>3, <3>2, UpsertOrder
    <3>3. QED
      BY <1>0, <1>7, <3>1, <3>2 DEF TemplateFails
  <2>6. OneJob' /\ WithinSnap' /\ JobRows'
    BY <2>3, <2>4, <2>5 DEF OneJob, Active, WithinSnap, JobRows
  <2>7. QED
    BY <2>5, <2>6
<1>8. ASSUME NEW j \in Jobs, EndRun(j)
      PROVE  OrderInv'
  <2>1. SUFFICES ASSUME ~overlap
                 PROVE  (OneJob /\ WithinHistory /\ WithinSnap /\ JobRows
                            /\ InOrder)'
    BY <1>0, <1>8 DEF EndRun, OrderInv
  <2>2. OneJob /\ WithinHistory /\ WithinSnap /\ JobRows /\ InOrder
    BY <1>0, <1>8, <2>1 DEF OrderInv
  <2>3. /\ pc[j] # "idle" /\ pc'[j] = "idle"
        /\ \A i \in Jobs : i # j => pc'[i] = pc[i]
        /\ UNCHANGED <<rows, changes, snap>>
    BY <1>0, <1>8 DEF EndRun
  <2>4. \A i \in Jobs : Active(i) => i = j
    BY <2>2, <2>3 DEF OneJob, Active
  <2>5. OneJob' /\ JobRows'
    BY <2>3, <2>4 DEF OneJob, Active, JobRows
  <2>6. QED
    BY <2>2, <2>3, <2>5 DEF WithinHistory, WithinSnap, Active, InOrder
<1>9. ASSUME NEW j \in Jobs, Kill(j)
      PROVE  OrderInv'
  <2>1. SUFFICES ASSUME ~overlap
                 PROVE  (OneJob /\ WithinHistory /\ WithinSnap /\ JobRows
                            /\ InOrder)'
    BY <1>0, <1>9 DEF Kill, OrderInv
  <2>2. OneJob /\ WithinHistory /\ WithinSnap /\ JobRows /\ InOrder
    BY <1>0, <1>9, <2>1 DEF OrderInv
  <2>3. /\ pc[j] # "idle" /\ pc'[j] = "idle"
        /\ \A i \in Jobs : i # j => pc'[i] = pc[i]
        /\ UNCHANGED <<rows, changes, snap>>
    BY <1>0, <1>9 DEF Kill, Active
  <2>4. \A i \in Jobs : Active(i) => i = j
    BY <2>2, <2>3 DEF OneJob, Active
  <2>5. OneJob' /\ JobRows'
    BY <2>3, <2>4 DEF OneJob, Active, JobRows
  <2>6. QED
    BY <2>2, <2>3, <2>5 DEF WithinHistory, WithinSnap, Active, InOrder
<1>10. QED
  BY <1>0, <1>1, <1>2, <1>3, <1>4, <1>5, <1>6, <1>7, <1>8, <1>9
     DEF Next, Update


-----------------------------------------------------------------------------
(* The theorems. *)

\* The invariant holds at the start, when nothing has happened.
LEMMA InitInv ==
    ASSUME Init
    PROVE  IInv
<1> USE DEF Init, metadata, job
<1>1. /\ 0 \in Time /\ 0 \in 0..MaxFaults
      /\ [k \in Index |-> NoRow] \in [Index -> Row]
  BY NoRowIsRow, PerfAssumption DEF Time
<1>2. NoState \in StateOver(Plans)
  BY DEF NoState, StateOver
<1>3. <<>> \in Seq(Change) /\ Len(<<>>) = 0
  OBVIOUS
<1>4. TypeOK
  <2>1. changes \in [Templates -> Seq(Change)]
    BY <1>3
  <2>2. \A t \in Templates : Len(changes[t]) <= clock
    BY <1>3
  <2>3. QED
    BY <1>1, <1>2, <2>1, <2>2 DEF TypeOK
<1>5. JobInv
  BY DEF JobInv
<1>6. SnapInv
  BY <1>3 DEF SnapInv
<1>7. FinalizedIsTrue
  BY DEF FinalizedIsTrue, NoRow
<1>8. CoverInv
  BY DEF CoverInv, CoverOf
<1>9. OrderInv
  BY DEF OrderInv, OneJob, Active, WithinHistory, WithinSnap, JobRows, InOrder
<1>10. QED
  BY <1>4, <1>5, <1>6, <1>7, <1>8, <1>9 DEF IInv, BaseInv

\* Every step preserves it, and so does a step in which nothing changes.
LEMMA NextInv ==
    ASSUME IInv, [Next]_vars
    PROVE  IInv'
<1>1. CASE Next
  BY <1>1, TypeStep, JobStep, SnapStep, FinalizedStep, CoverStep, OrderStep
     DEF IInv, BaseInv
<1>2. CASE UNCHANGED vars
  BY <1>2 DEF vars, metadata, job, IInv, BaseInv, TypeOK, JobInv, SnapInv,
     FinalizedIsTrue, CoverInv, CoverOf, OrderInv, OneJob, Active,
     WithinHistory, WithinSnap, JobRows, InOrder
<1>3. QED
  BY <1>1, <1>2

\* The inductive invariant of the update jobs.
THEOREM InductiveInvariant == Spec => []IInv
<1>1. Init => IInv
  BY InitInv
<1>2. IInv /\ [Next]_vars => IInv'
  BY NextInv
<1>3. QED
  BY <1>1, <1>2, PTL DEF Spec

\* What the table and the jobs hold is well formed; a row is never written at
\* an index that no period of the template has (_identify_periods).
THEOREM TypeCorrect == Spec => []TypeOK
<1>1. IInv => TypeOK
  BY DEF IInv, BaseInv
<1>2. QED
  BY <1>1, InductiveInvariant, PTL

\* A finalized row is the truth about a period that is over, for any number
\* of overlapping, failing and killed runs of update_metrics.py.
THEOREM FinalizedRowsAreTrue == Spec => []FinalizedIsTrue
<1>1. IInv => FinalizedIsTrue
  BY DEF IInv
<1>2. QED
  BY <1>1, InductiveInvariant, PTL

\* A run that reported success has stored every period of the history it read,
\* and no other run can take one away.
THEOREM SuccessIsComplete == Spec => []SuccessCovers
<1>1. IInv => SuccessCovers
  BY DEF IInv, CoverInv, CoverOf, SuccessCovers
<1>2. QED
  BY <1>1, InductiveInvariant, PTL

\* As long as runs do not overlap, only a template's last row can be open,
\* wherever runs fail or are killed.
THEOREM RowsInOrder == Spec => []PeriodsInOrder
<1>1. IInv => PeriodsInOrder
  BY DEF IInv, OrderInv, InOrder, PeriodsInOrder
<1>2. QED
  BY <1>1, InductiveInvariant, PTL

=============================================================================
