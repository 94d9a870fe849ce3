-------------------------- MODULE SpmApply_proofs --------------------------
(***************************************************************************)
(* Theorems about SpmApply, for any templates, plans and number of         *)
(* failures: what holds whatever fails (IInv), and that the metadata is    *)
(* true as long as nothing did (TruthInv).                                 *)
(***************************************************************************)
EXTENDS SpmApply, FiniteSetTheorems, TLAPS

-----------------------------------------------------------------------------
(* The inductive invariant, in parts. *)

\* While a template is applied it is in the batch and has no outcome yet;
\* between templates there is none, and between tasks no batch.
PhaseInv ==
    /\ pc \in ApplyPhase => tpl \in todo /\ outcome[tpl] = "none"
    /\ pc \notin ApplyPhase => tpl = NoTemplate
    /\ pc = "idle" => todo = {}
    /\ pc \in {"add", "accept", "enable"} => plan \in pending

\* The applier and the management plane never work on the same template: one
\* that was blacklisted after the task loaded it is left alone until the task
\* is over.
ApartInv ==
    /\ \A t \in todo \cap blacklist : mgmt.step = "online" /\ mgmt.tpl = t
    /\ mgmt.step # "idle" => mgmt.tpl \in blacklist

\* An operation decided on a state that was read is still the right one when
\* it is recorded.
DecidedInv ==
    /\ pc \in ApplyPhase =>
           op = DecideOperation(latest[tpl], decision[tpl], decision[tpl] = {},
                                {}, {})
    /\ mgmt.step = "record" =>
           mgmt.op = DecideOperation(latest[mgmt.tpl], {}, TRUE, {}, {})

\* The rules of a template that are done are in force.
RulesDoneInv ==
    ~PlanDrift =>
        /\ pc \in {"rule", "add", "accept", "enable", "record"}
              /\ op \notin {"reset", "noop"}
           => decision[tpl] \subseteq pending \cup InUse(tpl)
        /\ pc = "record" /\ op \notin {"reset", "noop"} => pending = {}
        /\ pc = "enable" => plan \in accepted[tpl]

\* What a disable has achieved after its second step, and for good after the
\* last one.
DisabledInv ==
    /\ mgmt.step \in {"script", "record"} => accepted[mgmt.tpl] = {}
    /\ \A t \in blacklist :
          ~MgmtOn(t) => accepted[t] = {} /\ ~HasCurrentRule(latest[t])

IInv == TypeOK /\ PhaseInv /\ ApartInv /\ DecidedInv /\ RulesDoneInv
               /\ DisabledInv /\ SuccessLasts

-----------------------------------------------------------------------------
\* What the decision matrix can answer.
LEMMA DecideOperationType ==
    ASSUME NEW P, NEW s \in StateOver(P), NEW new \in SUBSET P,
           NEW reset \in BOOLEAN, NEW cur, NEW timeout
    PROVE  DecideOperation(s, new, reset, cur, timeout) \in Operation
BY DEF DecideOperation, Operation, HasCurrentRule

\* Recording an operation leaves a state in the table.
LEMMA RecordOperationType ==
    ASSUME NEW P, NEW f \in [Templates -> StateOver(P)], NEW t \in Templates,
           NEW o \in Operation, NEW plans \in SUBSET P
    PROVE  RecordOperation(f, t, o, plans) \in [Templates -> StateOver(P)]
<1>1. CASE o = "noop"
  BY <1>1 DEF RecordOperation
<1>2. CASE o # "noop"
  <2>1. [op |-> o, plans |-> plans] \in StateOver(P)
    BY <1>2 DEF StateOver
  <2>2. QED
    BY <1>2, <2>1 DEF RecordOperation
<1>3. QED
  BY <1>1, <1>2

\* What leaving a template does to the types of the task's variables.
LEMMA LeaveType ==
    ASSUME IInv, pc \in ApplyPhase,
           NEW r \in {"none", "success", "skip", "fail"}, Leave(r)
    PROVE  /\ outcome' \in [Templates -> {"none", "success", "skip", "fail"}]
           /\ todo' \in SUBSET Templates
           /\ decision' \in [Templates -> SUBSET Plans]
           /\ tpl' \in Templates \cup {NoTemplate}
           /\ op' \in Operation
           /\ pending' \in SUBSET Plans
           /\ plan' \in Plans \cup {NoPlan}
           /\ pc' = "next"
BY DEF IInv, TypeOK, Leave, Operation

-----------------------------------------------------------------------------
\* The steps preserve the types.
LEMMA TypeStep ==
    ASSUME IInv, Next
    PROVE  TypeOK'
<1> USE SpmAssumption DEF TypeOK, online, task
<1>0. IInv
  OBVIOUS
<1>1. CASE BeginTask
  BY <1>0, <1>1 DEF IInv, BeginTask, Eligible
<1>27. CASE BeginApplying
  BY <1>0, <1>27 DEF IInv, BeginApplying
<1>2. ASSUME NEW t \in Templates, ReadState(t)
      PROVE  TypeOK'
  <2>1. op' \in Operation
    BY <1>0, <1>2, DecideOperationType DEF IInv, ReadState
  <2>2. QED
    BY <1>0, <1>2, <2>1 DEF IInv, ReadState, ApplyPhase
<1>3. CASE ListBaselines
  BY <1>0, <1>3 DEF IInv, ListBaselines, AllBaselines, PhaseInv, ApplyPhase
<1>4. ASSUME NEW p \in Plans, RejectBaseline(p)
      PROVE  TypeOK'
  BY <1>0, <1>4 DEF IInv, RejectBaseline, Fault
<1>5. ASSUME NEW p \in Plans, LookupBaseline(p)
      PROVE  TypeOK'
  BY <1>0, <1>5 DEF IInv, LookupBaseline, ApplyPhase
<1>6. CASE EndReject
  BY <1>0, <1>6 DEF IInv, EndReject, PhaseInv, ApplyPhase
<1>7. CASE EndRules
  BY <1>0, <1>7 DEF IInv, EndRules, ApplyPhase
<1>8. CASE AddBaseline
  BY <1>0, <1>8 DEF IInv, AddBaseline, HintedPlan, StoreBaseline, PhaseInv, ApplyPhase
<1>9. CASE AcceptBaseline
  BY <1>0, <1>9, LeaveType DEF IInv, AcceptBaseline, PhaseInv, ApplyPhase
<1>10. CASE EnableBaseline
  BY <1>0, <1>10, LeaveType DEF IInv, EnableBaseline, PhaseInv, ApplyPhase
<1>11. CASE Record
  BY <1>0, <1>11, LeaveType, RecordOperationType
     DEF IInv, Record, PhaseInv, ApplyPhase
<1>12. CASE EndTask
  BY <1>0, <1>12 DEF IInv, EndTask
<1>13. ASSUME NEW t \in Templates, ReadStateFails(t)
       PROVE  TypeOK'
  BY <1>0, <1>13 DEF IInv, ReadStateFails, Fault
<1>14. CASE AddFails
  BY <1>0, <1>14
     DEF IInv, AddFails, HintedPlan, StoreBaseline, Fault, PhaseInv, ApplyPhase
<1>15. CASE CallFails
  BY <1>0, <1>15, LeaveType DEF IInv, CallFails, Fault, ApplyPhase
<1>16. CASE ReplyLost
  BY <1>0, <1>16, LeaveType, RecordOperationType
     DEF IInv, ReplyLost, Fault, PhaseInv, ApplyPhase
<1>17. CASE Crash
  BY <1>0, <1>17 DEF IInv, Crash, Fault, Operation
<1>18. ASSUME NEW t \in Templates, NEW p \in Plans, Capture(t, p)
       PROVE  TypeOK'
  BY <1>0, <1>18 DEF IInv, Capture
<1>19. ASSUME NEW t \in Templates, NEW p \in Plans, Evict(t, p)
       PROVE  TypeOK'
  BY <1>0, <1>19 DEF IInv, Evict, Fault
<1>20. ASSUME NEW t \in Templates, MgmtBlacklist(t)
       PROVE  TypeOK'
  BY <1>0, <1>20 DEF IInv, MgmtBlacklist
<1>21. ASSUME NEW t \in Templates, MgmtEnable(t)
       PROVE  TypeOK'
  BY <1>0, <1>21 DEF IInv, MgmtEnable
<1>22. CASE MgmtClear
  BY <1>0, <1>22 DEF IInv, MgmtClear, ApartInv
<1>23. CASE ScriptDecide
  <2>1. ScriptOperation \in {"reset", "noop"}
    BY <1>0 DEF ScriptOperation, DecideOperation
  <2>2. QED
    BY <1>0, <1>23, <2>1 DEF IInv, ScriptDecide
<1>24. CASE ScriptRecord
  <2>1. mgmt.tpl \in Templates /\ mgmt.op \in Operation
    BY <1>0, <1>24 DEF IInv, ScriptRecord, ApartInv, Operation
  <2>2. latest' \in [Templates -> StateOver(Plans)]
    BY <1>0, <1>24, <2>1, RecordOperationType DEF IInv, ScriptRecord
  <2>3. QED
    BY <1>0, <1>24, <2>2 DEF IInv, ScriptRecord, NoMgmt
<1>25. CASE ScriptFails
  <2>1. mgmt' \in [step : {"idle", "online", "script", "record"},
                   tpl : Templates \cup {NoTemplate}, op : {"reset", "noop"}]
    BY <1>0, <1>25 DEF IInv, ScriptFails
  <2>2. faults' \in 0..MaxFaults
    BY <1>0, <1>25 DEF IInv, ScriptFails, Fault
  <2>3. mgmt.tpl \in Templates /\ mgmt.op \in Operation
    BY <1>0, <1>25 DEF IInv, ScriptFails, ApartInv, Operation
  <2>4. latest' \in [Templates -> StateOver(Plans)]
    BY <1>0, <1>25, <2>3, RecordOperationType DEF IInv, ScriptFails
  <2>5. QED
    BY <1>0, <1>25, <2>1, <2>2, <2>4 DEF IInv, ScriptFails
<1>26. QED
  BY <1>1, <1>2, <1>3, <1>4, <1>5, <1>6, <1>7, <1>8, <1>9, <1>10, <1>11,
     <1>12, <1>13, <1>14, <1>15, <1>16, <1>17, <1>18, <1>19, <1>20, <1>21,
     <1>22, <1>23, <1>24, <1>25, <1>27
     DEF Next, Applier, Failure, External, Script

\* Only ReadState enters a template, and leaving it clears it.
LEMMA PhaseStep ==
    ASSUME IInv, Next
    PROVE  PhaseInv'
<1> USE DEF IInv, TypeOK, PhaseInv, ApplyPhase, online, task
<1>0. IInv
  OBVIOUS
<1>1. CASE BeginTask
  BY <1>0, <1>1 DEF BeginTask
<1>27. CASE BeginApplying
  BY <1>0, <1>27 DEF BeginApplying
<1>2. ASSUME NEW t \in Templates, ReadState(t)
      PROVE  PhaseInv'
  BY <1>0, <1>2 DEF ReadState
<1>3. CASE ListBaselines
  BY <1>0, <1>3 DEF ListBaselines
<1>4. ASSUME NEW p \in Plans, RejectBaseline(p)
      PROVE  PhaseInv'
  BY <1>0, <1>4 DEF RejectBaseline
<1>5. CASE EndReject
  BY <1>0, <1>5 DEF EndReject
<1>6. ASSUME NEW p \in Plans, LookupBaseline(p)
      PROVE  PhaseInv'
  BY <1>0, <1>6 DEF LookupBaseline
<1>7. CASE EndRules
  BY <1>0, <1>7 DEF EndRules
<1>8. CASE AddBaseline
  BY <1>0, <1>8 DEF AddBaseline
<1>9. CASE AddFails
  BY <1>0, <1>9 DEF AddFails
<1>10. CASE AcceptBaseline
  BY <1>0, <1>10 DEF AcceptBaseline, Leave
<1>11. CASE EnableBaseline
  BY <1>0, <1>11 DEF EnableBaseline, Leave
<1>12. CASE Record
  BY <1>0, <1>12 DEF Record, Leave
<1>13. CASE EndTask
  BY <1>0, <1>13 DEF EndTask
<1>14. ASSUME NEW t \in Templates, ReadStateFails(t)
      PROVE  PhaseInv'
  BY <1>0, <1>14 DEF ReadStateFails
<1>15. CASE CallFails
  BY <1>0, <1>15 DEF CallFails, Leave
<1>16. CASE ReplyLost
  BY <1>0, <1>16 DEF ReplyLost, Leave
<1>17. CASE Crash
  BY <1>0, <1>17 DEF Crash
<1>18. ASSUME NEW t \in Templates, NEW p \in Plans, Capture(t, p)
      PROVE  PhaseInv'
  BY <1>0, <1>18 DEF Capture
<1>19. ASSUME NEW t \in Templates, NEW p \in Plans, Evict(t, p)
      PROVE  PhaseInv'
  BY <1>0, <1>19 DEF Evict
<1>20. ASSUME NEW t \in Templates, MgmtBlacklist(t)
      PROVE  PhaseInv'
  BY <1>0, <1>20 DEF MgmtBlacklist
<1>21. CASE MgmtClear
  BY <1>0, <1>21 DEF MgmtClear
<1>22. CASE ScriptDecide
  BY <1>0, <1>22 DEF ScriptDecide
<1>23. CASE ScriptRecord
  BY <1>0, <1>23 DEF ScriptRecord
<1>24. CASE ScriptFails
  BY <1>0, <1>24 DEF ScriptFails
<1>25. ASSUME NEW t \in Templates, MgmtEnable(t)
      PROVE  PhaseInv'
  BY <1>0, <1>25 DEF MgmtEnable
<1>26. QED
  BY <1>1, <1>2, <1>3, <1>4, <1>5, <1>6, <1>7, <1>8, <1>9, <1>10, <1>11,
     <1>12, <1>13, <1>14, <1>15, <1>16, <1>17, <1>18, <1>19, <1>20, <1>21,
     <1>22, <1>23, <1>24, <1>25, <1>27
     DEF Next, Applier, Failure, External, Script

\* A batch is eligible when it is loaded, and a template of it is only cleared
\* when its task is over.
LEMMA ApartStep ==
    ASSUME IInv, Next
    PROVE  ApartInv'
<1> USE DEF IInv, TypeOK, PhaseInv, ApartInv, ApplyPhase, online, task
<1>0. IInv
  OBVIOUS
<1>1. CASE BeginTask
  BY <1>0, <1>1 DEF BeginTask, Eligible
<1>27. CASE BeginApplying
  BY <1>0, <1>27 DEF BeginApplying
<1>2. ASSUME NEW t \in Templates, ReadState(t)
      PROVE  ApartInv'
  BY <1>0, <1>2 DEF ReadState
<1>3. CASE ListBaselines
  BY <1>0, <1>3 DEF ListBaselines
<1>4. ASSUME NEW p \in Plans, RejectBaseline(p)
      PROVE  ApartInv'
  BY <1>0, <1>4 DEF RejectBaseline
<1>5. CASE EndReject
  BY <1>0, <1>5 DEF EndReject
<1>6. ASSUME NEW p \in Plans, LookupBaseline(p)
      PROVE  ApartInv'
  BY <1>0, <1>6 DEF LookupBaseline
<1>7. CASE EndRules
  BY <1>0, <1>7 DEF EndRules
<1>8. CASE AddBaseline
  BY <1>0, <1>8 DEF AddBaseline
<1>9. CASE AddFails
  BY <1>0, <1>9 DEF AddFails
<1>10. CASE AcceptBaseline
  BY <1>0, <1>10 DEF AcceptBaseline, Leave
<1>11. CASE EnableBaseline
  BY <1>0, <1>11 DEF EnableBaseline, Leave
<1>12. CASE Record
  BY <1>0, <1>12 DEF Record, Leave
<1>13. CASE EndTask
  BY <1>0, <1>13 DEF EndTask
<1>14. ASSUME NEW t \in Templates, ReadStateFails(t)
      PROVE  ApartInv'
  BY <1>0, <1>14 DEF ReadStateFails
<1>15. CASE CallFails
  BY <1>0, <1>15 DEF CallFails, Leave
<1>16. CASE ReplyLost
  BY <1>0, <1>16 DEF ReplyLost, Leave
<1>17. CASE Crash
  BY <1>0, <1>17 DEF Crash
<1>18. ASSUME NEW t \in Templates, NEW p \in Plans, Capture(t, p)
      PROVE  ApartInv'
  BY <1>0, <1>18 DEF Capture
<1>19. ASSUME NEW t \in Templates, NEW p \in Plans, Evict(t, p)
      PROVE  ApartInv'
  BY <1>0, <1>19 DEF Evict
<1>20. ASSUME NEW t \in Templates, MgmtBlacklist(t)
      PROVE  ApartInv'
  BY <1>0, <1>20 DEF MgmtBlacklist, NoMgmt
<1>21. CASE MgmtClear
  BY <1>0, <1>21 DEF MgmtClear
<1>22. CASE ScriptDecide
  BY <1>0, <1>22 DEF ScriptDecide
<1>23. CASE ScriptRecord
  BY <1>0, <1>23 DEF ScriptRecord, NoMgmt
<1>24. CASE ScriptFails
  BY <1>0, <1>24
     DEF ScriptFails, NoMgmt
<1>25. ASSUME NEW t \in Templates, MgmtEnable(t)
      PROVE  ApartInv'
  BY <1>0, <1>25 DEF MgmtEnable, MgmtOn
<1>26. QED
  BY <1>1, <1>2, <1>3, <1>4, <1>5, <1>6, <1>7, <1>8, <1>9, <1>10, <1>11,
     <1>12, <1>13, <1>14, <1>15, <1>16, <1>17, <1>18, <1>19, <1>20, <1>21,
     <1>22, <1>23, <1>24, <1>25, <1>27
     DEF Next, Applier, Failure, External, Script

\* Nobody else records an operation of a template between its state is read
\* and its own operation is recorded.
LEMMA DecidedStep ==
    ASSUME IInv, Next
    PROVE  DecidedInv'
<1> USE DEF IInv, TypeOK, PhaseInv, ApartInv, ApplyPhase, online, task,
            DecidedInv
<1>0. IInv
  OBVIOUS
<1>1. CASE BeginTask
  BY <1>0, <1>1 DEF BeginTask
<1>27. CASE BeginApplying
  BY <1>0, <1>27 DEF BeginApplying
<1>2. ASSUME NEW t \in Templates, ReadState(t)
      PROVE  DecidedInv'
  BY <1>0, <1>2 DEF ReadState
<1>3. CASE ListBaselines
  BY <1>0, <1>3 DEF ListBaselines
<1>4. ASSUME NEW p \in Plans, RejectBaseline(p)
      PROVE  DecidedInv'
  BY <1>0, <1>4 DEF RejectBaseline
<1>5. CASE EndReject
  BY <1>0, <1>5 DEF EndReject
<1>6. ASSUME NEW p \in Plans, LookupBaseline(p)
      PROVE  DecidedInv'
  BY <1>0, <1>6 DEF LookupBaseline
<1>7. CASE EndRules
  BY <1>0, <1>7 DEF EndRules
<1>8. CASE AddBaseline
  BY <1>0, <1>8 DEF AddBaseline
<1>9. CASE AddFails
  BY <1>0, <1>9 DEF AddFails
<1>10. CASE AcceptBaseline
  BY <1>0, <1>10 DEF AcceptBaseline, Leave
<1>11. CASE EnableBaseline
  BY <1>0, <1>11 DEF EnableBaseline, Leave
<1>12. CASE Record
  BY <1>0, <1>12 DEF Record, Leave, RecordOperation
<1>13. CASE EndTask
  BY <1>0, <1>13 DEF EndTask
<1>14. ASSUME NEW t \in Templates, ReadStateFails(t)
      PROVE  DecidedInv'
  BY <1>0, <1>14 DEF ReadStateFails
<1>15. CASE CallFails
  BY <1>0, <1>15 DEF CallFails, Leave
<1>16. CASE ReplyLost
  <2>1. pc' = "next" /\ mgmt' = mgmt
    BY <1>0, <1>16 DEF ReplyLost, Leave
  <2>2. mgmt.step = "record" => latest'[mgmt.tpl] = latest[mgmt.tpl]
    <3>1. CASE latest' = latest
      BY <3>1
    <3>2. CASE latest' # latest
      BY <1>0, <1>16, <3>2 DEF ReplyLost, RecordOperation
    <3>3. QED
      BY <3>1, <3>2
  <2>3. QED
    BY <1>0, <2>1, <2>2
<1>17. CASE Crash
  BY <1>0, <1>17 DEF Crash
<1>18. ASSUME NEW t \in Templates, NEW p \in Plans, Capture(t, p)
      PROVE  DecidedInv'
  BY <1>0, <1>18 DEF Capture
<1>19. ASSUME NEW t \in Templates, NEW p \in Plans, Evict(t, p)
      PROVE  DecidedInv'
  BY <1>0, <1>19 DEF Evict
<1>20. ASSUME NEW t \in Templates, MgmtBlacklist(t)
      PROVE  DecidedInv'
  BY <1>0, <1>20 DEF MgmtBlacklist, NoMgmt
<1>21. CASE MgmtClear
  BY <1>0, <1>21 DEF MgmtClear
<1>22. CASE ScriptDecide
  BY <1>0, <1>22 DEF ScriptDecide, ScriptOperation
<1>23. CASE ScriptRecord
  BY <1>0, <1>23 DEF ScriptRecord, RecordOperation, NoMgmt
<1>24. CASE ScriptFails
  BY <1>0, <1>24
     DEF ScriptFails, RecordOperation
<1>25. ASSUME NEW t \in Templates, MgmtEnable(t)
      PROVE  DecidedInv'
  BY <1>0, <1>25 DEF MgmtEnable
<1>26. QED
  BY <1>1, <1>2, <1>3, <1>4, <1>5, <1>6, <1>7, <1>8, <1>9, <1>10, <1>11,
     <1>12, <1>13, <1>14, <1>15, <1>16, <1>17, <1>18, <1>19, <1>20, <1>21,
     <1>22, <1>23, <1>24, <1>25, <1>27
     DEF Next, Applier, Failure, External, Script

\* Once a rule is done no call of anybody takes its plan out of force.
LEMMA RulesDoneStep ==
    ASSUME IInv, Next
    PROVE  RulesDoneInv'
<1> USE DEF IInv, TypeOK, PhaseInv, ApartInv, ApplyPhase, online, task,
            RulesDoneInv, InUse
<1>0. IInv
  OBVIOUS
<1>1. CASE BeginTask
  BY <1>0, <1>1 DEF BeginTask
<1>27. CASE BeginApplying
  BY <1>0, <1>27 DEF BeginApplying
<1>2. ASSUME NEW t \in Templates, ReadState(t)
      PROVE  RulesDoneInv'
  BY <1>0, <1>2 DEF ReadState
<1>3. CASE ListBaselines
  BY <1>0, <1>3 DEF ListBaselines
<1>4. ASSUME NEW p \in Plans, RejectBaseline(p)
      PROVE  RulesDoneInv'
  BY <1>0, <1>4 DEF RejectBaseline
<1>5. CASE EndReject
  BY <1>0, <1>5 DEF EndReject
<1>6. ASSUME NEW p \in Plans, LookupBaseline(p)
      PROVE  RulesDoneInv'
  BY <1>0, <1>6 DEF LookupBaseline
<1>7. CASE EndRules
  BY <1>0, <1>7 DEF EndRules
<1>8. CASE AddBaseline
  BY <1>0, <1>8 DEF AddBaseline, HintedPlan, StoreBaseline
<1>9. CASE AddFails
  BY <1>0, <1>9 DEF AddFails, HintedPlan, StoreBaseline
<1>10. CASE AcceptBaseline
  BY <1>0, <1>10 DEF AcceptBaseline, Leave
<1>11. CASE EnableBaseline
  BY <1>0, <1>11 DEF EnableBaseline, Leave
<1>12. CASE Record
  BY <1>0, <1>12 DEF Record, Leave
<1>13. CASE EndTask
  BY <1>0, <1>13 DEF EndTask
<1>14. ASSUME NEW t \in Templates, ReadStateFails(t)
      PROVE  RulesDoneInv'
  BY <1>0, <1>14 DEF ReadStateFails
<1>15. CASE CallFails
  BY <1>0, <1>15 DEF CallFails, Leave
<1>16. CASE ReplyLost
  BY <1>0, <1>16 DEF ReplyLost, Leave
<1>17. CASE Crash
  BY <1>0, <1>17 DEF Crash
<1>18. ASSUME NEW t \in Templates, NEW p \in Plans, Capture(t, p)
      PROVE  RulesDoneInv'
  BY <1>0, <1>18 DEF Capture
<1>19. ASSUME NEW t \in Templates, NEW p \in Plans, Evict(t, p)
      PROVE  RulesDoneInv'
  BY <1>0, <1>19 DEF Evict
<1>20. ASSUME NEW t \in Templates, MgmtBlacklist(t)
      PROVE  RulesDoneInv'
  BY <1>0, <1>20 DEF MgmtBlacklist
<1>21. CASE MgmtClear
  BY <1>0, <1>21 DEF MgmtClear
<1>22. CASE ScriptDecide
  BY <1>0, <1>22 DEF ScriptDecide
<1>23. CASE ScriptRecord
  BY <1>0, <1>23 DEF ScriptRecord
<1>24. CASE ScriptFails
  BY <1>0, <1>24 DEF ScriptFails
<1>25. ASSUME NEW t \in Templates, MgmtEnable(t)
      PROVE  RulesDoneInv'
  BY <1>0, <1>25 DEF MgmtEnable
<1>26. QED
  BY <1>1, <1>2, <1>3, <1>4, <1>5, <1>6, <1>7, <1>8, <1>9, <1>10, <1>11,
     <1>12, <1>13, <1>14, <1>15, <1>16, <1>17, <1>18, <1>19, <1>20, <1>21,
     <1>22, <1>23, <1>24, <1>25, <1>27
     DEF Next, Applier, Failure, External, Script

\* Only the applier accepts plans and records rules, and never for a
\* blacklisted template.
LEMMA DisabledStep ==
    ASSUME IInv, Next
    PROVE  DisabledInv'
<1> USE DEF IInv, TypeOK, PhaseInv, ApartInv, ApplyPhase, online, task,
            DisabledInv, MgmtOn
<1>0. IInv
  OBVIOUS
<1>1. CASE BeginTask
  BY <1>0, <1>1 DEF BeginTask
<1>27. CASE BeginApplying
  BY <1>0, <1>27 DEF BeginApplying
<1>2. ASSUME NEW t \in Templates, ReadState(t)
      PROVE  DisabledInv'
  BY <1>0, <1>2 DEF ReadState
<1>3. CASE ListBaselines
  BY <1>0, <1>3 DEF ListBaselines
<1>4. ASSUME NEW p \in Plans, RejectBaseline(p)
      PROVE  DisabledInv'
  BY <1>0, <1>4 DEF RejectBaseline
<1>5. CASE EndReject
  BY <1>0, <1>5 DEF EndReject
<1>6. ASSUME NEW p \in Plans, LookupBaseline(p)
      PROVE  DisabledInv'
  BY <1>0, <1>6 DEF LookupBaseline
<1>7. CASE EndRules
  BY <1>0, <1>7 DEF EndRules
<1>8. CASE AddBaseline
  BY <1>0, <1>8 DEF AddBaseline, HintedPlan, StoreBaseline
<1>9. CASE AddFails
  BY <1>0, <1>9 DEF AddFails, HintedPlan, StoreBaseline
<1>10. CASE AcceptBaseline
  BY <1>0, <1>10 DEF AcceptBaseline, Leave
<1>11. CASE EnableBaseline
  BY <1>0, <1>11 DEF EnableBaseline, Leave
<1>12. CASE Record
  BY <1>0, <1>12 DEF Record, Leave, RecordOperation
<1>13. CASE EndTask
  BY <1>0, <1>13 DEF EndTask
<1>14. ASSUME NEW t \in Templates, ReadStateFails(t)
      PROVE  DisabledInv'
  BY <1>0, <1>14 DEF ReadStateFails
<1>15. CASE CallFails
  BY <1>0, <1>15 DEF CallFails, Leave
<1>16. CASE ReplyLost
  BY <1>0, <1>16 DEF ReplyLost, Leave, RecordOperation
<1>17. CASE Crash
  BY <1>0, <1>17 DEF Crash
<1>18. ASSUME NEW t \in Templates, NEW p \in Plans, Capture(t, p)
      PROVE  DisabledInv'
  BY <1>0, <1>18 DEF Capture
<1>19. ASSUME NEW t \in Templates, NEW p \in Plans, Evict(t, p)
      PROVE  DisabledInv'
  BY <1>0, <1>19 DEF Evict
<1>20. ASSUME NEW t \in Templates, MgmtBlacklist(t)
      PROVE  DisabledInv'
  BY <1>0, <1>20 DEF MgmtBlacklist, NoMgmt
<1>21. CASE MgmtClear
  BY <1>0, <1>21 DEF MgmtClear
<1>22. CASE ScriptDecide
  BY <1>0, <1>22 DEF ScriptDecide
<1>23. CASE ScriptRecord
  BY <1>0, <1>23
     DEF ScriptRecord, DecidedInv, DecideOperation, RecordOperation, NoMgmt,
         HasCurrentRule, BindingOperation
<1>24. CASE ScriptFails
  BY <1>0, <1>24
     DEF ScriptFails, DecidedInv, DecideOperation, RecordOperation,
         HasCurrentRule, BindingOperation
<1>25. ASSUME NEW t \in Templates, MgmtEnable(t)
      PROVE  DisabledInv'
  BY <1>0, <1>25 DEF MgmtEnable
<1>26. QED
  BY <1>1, <1>2, <1>3, <1>4, <1>5, <1>6, <1>7, <1>8, <1>9, <1>10, <1>11,
     <1>12, <1>13, <1>14, <1>15, <1>16, <1>17, <1>18, <1>19, <1>20, <1>21,
     <1>22, <1>23, <1>24, <1>25, <1>27
     DEF Next, Applier, Failure, External, Script

\* A success is recorded when all its plans are in force, and only an
\* application or a disable of the template takes them out of force.
LEMMA SuccessStep ==
    ASSUME IInv, Next
    PROVE  SuccessLasts'
<1> USE DEF IInv, TypeOK, PhaseInv, ApartInv, ApplyPhase, online, task,
            SuccessLasts, AtRest, MgmtOn, InUse
<1>0. IInv
  OBVIOUS
<1>1. CASE BeginTask
  BY <1>0, <1>1 DEF BeginTask
<1>27. CASE BeginApplying
  BY <1>0, <1>27 DEF BeginApplying
<1>2. ASSUME NEW t \in Templates, ReadState(t)
      PROVE  SuccessLasts'
  <2>1. /\ UNCHANGED <<accepted, enabled, latest, mgmt>>
        /\ outcome' = [outcome EXCEPT ![t] = "none"]
        /\ tpl = NoTemplate
    BY <1>0, <1>2 DEF ReadState
  <2>2. QED
    BY <1>0, <2>1, SpmAssumption
<1>3. CASE ListBaselines
  BY <1>0, <1>3 DEF ListBaselines
<1>4. ASSUME NEW p \in Plans, RejectBaseline(p)
      PROVE  SuccessLasts'
  BY <1>0, <1>4 DEF RejectBaseline
<1>5. CASE EndReject
  BY <1>0, <1>5 DEF EndReject
<1>6. ASSUME NEW p \in Plans, LookupBaseline(p)
      PROVE  SuccessLasts'
  BY <1>0, <1>6 DEF LookupBaseline
<1>7. CASE EndRules
  BY <1>0, <1>7 DEF EndRules
<1>8. CASE AddBaseline
  BY <1>0, <1>8 DEF AddBaseline, HintedPlan, StoreBaseline
<1>9. CASE AddFails
  BY <1>0, <1>9 DEF AddFails, HintedPlan, StoreBaseline
<1>10. CASE AcceptBaseline
  BY <1>0, <1>10 DEF AcceptBaseline, Leave
<1>11. CASE EnableBaseline
  BY <1>0, <1>11 DEF EnableBaseline, Leave
<1>12. CASE Record
  BY <1>0, <1>12
     DEF Record, Leave, RecordOperation, RulesDoneInv, HasCurrentRule,
         BindingOperation
<1>13. CASE EndTask
  BY <1>0, <1>13 DEF EndTask
<1>14. ASSUME NEW t \in Templates, ReadStateFails(t)
      PROVE  SuccessLasts'
  BY <1>0, <1>14 DEF ReadStateFails
<1>15. CASE CallFails
  BY <1>0, <1>15 DEF CallFails, Leave
<1>16. CASE ReplyLost
  BY <1>0, <1>16 DEF ReplyLost, Leave, RecordOperation
<1>17. CASE Crash
  BY <1>0, <1>17 DEF Crash
<1>18. ASSUME NEW t \in Templates, NEW p \in Plans, Capture(t, p)
      PROVE  SuccessLasts'
  BY <1>0, <1>18 DEF Capture
<1>19. ASSUME NEW t \in Templates, NEW p \in Plans, Evict(t, p)
      PROVE  SuccessLasts'
  BY <1>0, <1>19 DEF Evict
<1>20. ASSUME NEW t \in Templates, MgmtBlacklist(t)
      PROVE  SuccessLasts'
  BY <1>0, <1>20 DEF MgmtBlacklist, NoMgmt
<1>21. CASE MgmtClear
  BY <1>0, <1>21 DEF MgmtClear
<1>22. CASE ScriptDecide
  BY <1>0, <1>22 DEF ScriptDecide
<1>23. CASE ScriptRecord
  BY <1>0, <1>23
     DEF ScriptRecord, DecidedInv, DecideOperation, RecordOperation, NoMgmt,
         HasCurrentRule, BindingOperation
<1>24. CASE ScriptFails
  BY <1>0, <1>24
     DEF ScriptFails, DecidedInv, DecideOperation, RecordOperation,
         HasCurrentRule, BindingOperation
<1>25. ASSUME NEW t \in Templates, MgmtEnable(t)
      PROVE  SuccessLasts'
  BY <1>0, <1>25 DEF MgmtEnable
<1>26. QED
  BY <1>1, <1>2, <1>3, <1>4, <1>5, <1>6, <1>7, <1>8, <1>9, <1>10, <1>11,
     <1>12, <1>13, <1>14, <1>15, <1>16, <1>17, <1>18, <1>19, <1>20, <1>21,
     <1>22, <1>23, <1>24, <1>25, <1>27
     DEF Next, Applier, Failure, External, Script
-----------------------------------------------------------------------------
(* The theorems. *)

\* The initial states satisfy the inductive invariant.
LEMMA InitInv == Init => IInv
<1>1. ASSUME Init
      PROVE  IInv
  <2>1. TypeOK
    BY <1>1, SpmAssumption
       DEF Init, TypeOK, StateOver, NoState, NoMgmt, Operation
  <2>2. PhaseInv /\ ApartInv /\ DecidedInv /\ RulesDoneInv /\ DisabledInv
    BY <1>1 DEF Init, NoMgmt, PhaseInv, ApplyPhase, ApartInv, DecidedInv,
                RulesDoneInv, DisabledInv
  <2>3. SuccessLasts
    BY <1>1 DEF Init, SuccessLasts
  <2>4. QED
    BY <2>1, <2>2, <2>3 DEF IInv
<1>2. QED
  BY <1>1

\* Every step, and a stutter, preserves it.
LEMMA StepInv == IInv /\ [Next]_vars => IInv'
<1>1. ASSUME IInv, Next
      PROVE  IInv'
  BY <1>1, TypeStep, PhaseStep, ApartStep, DecidedStep, RulesDoneStep,
     DisabledStep, SuccessStep DEF IInv
<1>2. ASSUME IInv, UNCHANGED vars
      PROVE  IInv'
  <2>1. /\ UNCHANGED <<captured, accepted, enabled, latest, blacklist, mgmt>>
        /\ UNCHANGED <<pc, todo, decision, tpl, op, pending, plan, outcome>>
        /\ UNCHANGED <<tasks, faults>>
    BY <1>2 DEF vars, online, task
  <2>2. TypeOK'
    BY <1>2, <2>1 DEF IInv, TypeOK
  <2>3. PhaseInv' /\ ApartInv'
    BY <1>2, <2>1 DEF IInv, PhaseInv, ApartInv
  <2>4. DecidedInv'
    BY <1>2, <2>1 DEF IInv, DecidedInv
  <2>5. RulesDoneInv'
    BY <1>2, <2>1 DEF IInv, RulesDoneInv, InUse
  <2>6. DisabledInv'
    BY <1>2, <2>1 DEF IInv, DisabledInv, MgmtOn
  <2>7. SuccessLasts'
    BY <1>2, <2>1 DEF IInv, SuccessLasts, InUse, AtRest, MgmtOn
  <2>8. QED
    BY <2>2, <2>3, <2>4, <2>5, <2>6, <2>7 DEF IInv
<1>3. QED
  BY <1>1, <1>2

\* IInv is an inductive invariant of the specification.
THEOREM InductiveInvariant == Spec => []IInv
  BY InitInv, StepInv, PTL DEF Spec

\* The variables always have their types (the state of the applier, of the
\* script and of the tables they write).
THEOREM TypeCorrect == Spec => []TypeOK
<1>1. IInv => TypeOK
  BY DEF IInv
<1>2. QED
  BY <1>1, InductiveInvariant, PTL

\* A reported success stays true: the plans an application recorded are in
\* force until the template is applied again or disabled, whatever fails and
\* wherever the process dies (_apply_template_rules).
THEOREM SuccessIsLasting == Spec => []SuccessLasts
<1>1. IInv => SuccessLasts
  BY DEF IInv
<1>2. QED
  BY <1>1, InductiveInvariant, PTL

\* A template the management plane disabled stays DEFAULT and has no plan in
\* force for as long as it is blacklisted, whatever tasks run and fail.
THEOREM DisabledStaysDisabled == Spec => []BlacklistedQuiescent
<1>1. IInv => BlacklistedQuiescent
  BY DEF IInv, DisabledInv, BlacklistedQuiescent, InUse
<1>2. QED
  BY <1>1, InductiveInvariant, PTL

-----------------------------------------------------------------------------
(* The rows of rule_state_history alternate. *)

\* A row written with the operation decide_operation gives for the present
\* state continues the history.
LEMMA DecidedAlternates ==
    ASSUME NEW s, NEW new, NEW o,
           o = DecideOperation(s, new, new = {}, {}, {}), o # "noop"
    PROVE  \/ o = "setup_plan" /\ ~HasCurrentRule(s)
           \/ o = "modify_plan" /\ HasCurrentRule(s) /\ new # s.plans
           \/ o = "reset" /\ HasCurrentRule(s) /\ new = {}
  BY DEF DecideOperation

\* The operations recorded for a template alternate as the decision matrix of
\* decide_operation says, although the row is written long after the state was
\* read and two programs write rows.
THEOREM HistoryIsAlternating == Spec => HistoryAlternates
<1> DEFINE Continues(t) ==
          \/ latest'[t].op = "setup_plan" /\ ~HasCurrentRule(latest[t])
          \/ /\ latest'[t].op = "modify_plan"
             /\ HasCurrentRule(latest[t])
             /\ latest'[t].plans # latest[t].plans
          \/ /\ latest'[t].op = "reset"
             /\ HasCurrentRule(latest[t])
             /\ latest'[t].plans = {}
<1>1. ASSUME IInv, Next, NEW t \in Templates, latest'[t] # latest[t]
      PROVE  Continues(t)
  <2>1. CASE Record \/ ReplyLost
    <3>1. /\ pc = "record"
          /\ latest' = RecordOperation(latest, tpl, op, decision[tpl])
      BY <1>1, <2>1 DEF Record, ReplyLost
    <3>2. /\ op # "noop"
          /\ t = tpl
          /\ latest'[t] = [op |-> op, plans |-> decision[t]]
      BY <1>1, <3>1 DEF RecordOperation, IInv, TypeOK
    <3>3. op = DecideOperation(latest[t], decision[t], decision[t] = {},
                               {}, {})
      BY <1>1, <3>1, <3>2 DEF IInv, DecidedInv, ApplyPhase
    <3>4. QED
      BY <3>2, <3>3, DecidedAlternates
  <2>2. CASE ScriptRecord \/ ScriptFails
    <3>1. /\ mgmt.step = "record"
          /\ latest' = RecordOperation(latest, mgmt.tpl, mgmt.op, {})
      BY <1>1, <2>2 DEF ScriptRecord, ScriptFails
    <3>2. /\ mgmt.op # "noop"
          /\ t = mgmt.tpl
          /\ latest'[t] = [op |-> mgmt.op, plans |-> {}]
      BY <1>1, <3>1 DEF RecordOperation, IInv, TypeOK
    <3>3. mgmt.op = DecideOperation(latest[t], {}, TRUE, {}, {})
      BY <1>1, <3>1, <3>2 DEF IInv, DecidedInv
    <3>4. QED
      BY <3>2, <3>3 DEF DecideOperation
  <2>3. CASE ~(Record \/ ReplyLost \/ ScriptRecord \/ ScriptFails)
    BY <1>1, <2>3
       DEF Next, Applier, Failure, External, Script, BeginTask,
           BeginApplying, ReadState, ListBaselines, RejectBaseline, EndReject, LookupBaseline, EndRules,
           AddBaseline, AddFails, AcceptBaseline, EnableBaseline, EndTask,
           ReadStateFails, CallFails, Crash, Capture, Evict, MgmtBlacklist,
           MgmtClear, ScriptDecide, MgmtEnable
  <2>4. QED
    BY <2>1, <2>2, <2>3
<1>2. ASSUME IInv, UNCHANGED vars, NEW t \in Templates,
             latest'[t] # latest[t]
      PROVE  Continues(t)
  BY <1>2 DEF vars
<1>3. IInv /\ [Next]_vars =>
          [\A t \in Templates : latest'[t] # latest[t] => Continues(t)]_vars
  BY <1>1, <1>2
<1>4. QED
  BY <1>3, InductiveInvariant, PTL DEF Spec, HistoryAlternates

-----------------------------------------------------------------------------
(* The metadata tells the truth, as long as nothing failed. *)

\* Every accepted baseline exists, and a reset names no plans.
StoredInv ==
    \A t \in Templates :
        /\ accepted[t] \subseteq captured[t]
        /\ latest[t].op = "reset" => latest[t].plans = {}

\* Without failures an application rejects every accepted plan and then
\* accepts decided ones only.
ExactInv ==
    ~PlanDrift /\ faults = 0 =>
        /\ pc \in ApplyPhase \ {"record"} => op # "noop"
        /\ pc = "reject" => accepted[tpl] \subseteq pending
        /\ pc \in {"rule", "add", "accept", "enable", "record"} /\ op # "noop"
              => accepted[tpl] \subseteq decision[tpl]
        /\ pc \in {"rule", "add", "accept", "enable"} =>
              pending \subseteq decision[tpl]
        /\ pc = "accept" => plan \in captured[tpl]
        /\ pc = "record" /\ op = "noop" /\ latest[tpl] # NoState =>
              InUse(tpl) = latest[tpl].plans

TruthInv == StoredInv /\ ExactInv /\ OnlineMatchesRecord

\* A baseline is accepted when it exists and stays while it is accepted.
LEMMA StoredStep ==
    ASSUME IInv, TruthInv, Next
    PROVE  StoredInv'
<1> USE DEF IInv, TruthInv, TypeOK, PhaseInv, ApartInv, ApplyPhase, online,
           task, StoredInv
<1>0. IInv /\ TruthInv
  OBVIOUS
<1>1. CASE BeginTask
  BY <1>0, <1>1 DEF BeginTask
<1>27. CASE BeginApplying
  BY <1>0, <1>27 DEF BeginApplying
<1>2. ASSUME NEW t \in Templates, ReadState(t)
      PROVE  StoredInv'
  BY <1>0, <1>2 DEF ReadState
<1>3. CASE ListBaselines
  BY <1>0, <1>3 DEF ListBaselines
<1>4. ASSUME NEW p \in Plans, RejectBaseline(p)
      PROVE  StoredInv'
  BY <1>0, <1>4 DEF RejectBaseline
<1>5. CASE EndReject
  BY <1>0, <1>5 DEF EndReject
<1>6. ASSUME NEW p \in Plans, LookupBaseline(p)
      PROVE  StoredInv'
  BY <1>0, <1>6 DEF LookupBaseline
<1>7. CASE EndRules
  BY <1>0, <1>7 DEF EndRules
<1>8. CASE AddBaseline
  BY <1>0, <1>8 DEF AddBaseline, HintedPlan, StoreBaseline
<1>9. CASE AddFails
  BY <1>0, <1>9 DEF AddFails, HintedPlan, StoreBaseline
<1>10. CASE AcceptBaseline
  BY <1>0, <1>10 DEF AcceptBaseline
<1>11. CASE EnableBaseline
  BY <1>0, <1>11 DEF EnableBaseline
<1>12. CASE Record
  BY <1>0, <1>12
     DEF Record, RecordOperation, DecidedInv, DecideOperation
<1>13. CASE EndTask
  BY <1>0, <1>13 DEF EndTask
<1>14. ASSUME NEW t \in Templates, ReadStateFails(t)
      PROVE  StoredInv'
  BY <1>0, <1>14 DEF ReadStateFails
<1>15. CASE CallFails
  BY <1>0, <1>15 DEF CallFails
<1>16. CASE ReplyLost
  BY <1>0, <1>16
     DEF ReplyLost, RecordOperation, DecidedInv, DecideOperation
<1>17. CASE Crash
  BY <1>0, <1>17 DEF Crash
<1>18. ASSUME NEW t \in Templates, NEW p \in Plans, Capture(t, p)
      PROVE  StoredInv'
  BY <1>0, <1>18 DEF Capture
<1>19. ASSUME NEW t \in Templates, NEW p \in Plans, Evict(t, p)
      PROVE  StoredInv'
  BY <1>0, <1>19 DEF Evict
<1>20. ASSUME NEW t \in Templates, MgmtBlacklist(t)
      PROVE  StoredInv'
  BY <1>0, <1>20 DEF MgmtBlacklist
<1>21. CASE MgmtClear
  BY <1>0, <1>21 DEF MgmtClear
<1>22. CASE ScriptDecide
  BY <1>0, <1>22 DEF ScriptDecide
<1>23. CASE ScriptRecord
  BY <1>0, <1>23 DEF ScriptRecord, RecordOperation
<1>24. CASE ScriptFails
  BY <1>0, <1>24
     DEF ScriptFails, RecordOperation
<1>25. ASSUME NEW t \in Templates, MgmtEnable(t)
      PROVE  StoredInv'
  BY <1>0, <1>25 DEF MgmtEnable
<1>26. QED
  BY <1>1, <1>2, <1>3, <1>4, <1>5, <1>6, <1>7, <1>8,
     <1>9, <1>10, <1>11, <1>12, <1>13, <1>14, <1>15, <1>16,
     <1>17, <1>18, <1>19, <1>20, <1>21, <1>22, <1>23, <1>24, <1>25, <1>27
     DEF Next, Applier, Failure, External, Script

\* An application that no call fails in ends with what it decided.
LEMMA ExactStep ==
    ASSUME IInv, TruthInv, Next
    PROVE  ExactInv'
<1> USE DEF IInv, TruthInv, TypeOK, PhaseInv, ApartInv, ApplyPhase, online,
           task, StoredInv, ExactInv, InUse
<1>0. IInv /\ TruthInv
  OBVIOUS
<1>1. CASE BeginTask
  BY <1>0, <1>1 DEF BeginTask, Eligible
<1>27. CASE BeginApplying
  BY <1>0, <1>27 DEF BeginApplying
<1>2. ASSUME NEW t \in Templates, ReadState(t)
      PROVE  ExactInv'
  <2>1. tpl = NoTemplate /\ AtRest(t)
    BY <1>0, <1>2, SpmAssumption DEF ReadState, AtRest
  <2>2. ~PlanDrift /\ faults = 0 /\ latest[t] # NoState =>
            InUse(t) = latest[t].plans
    BY <1>0, <2>1 DEF OnlineMatchesRecord
  <2>3. /\ tpl' = t
        /\ pc' = IF op' = "noop" THEN "record" ELSE "list"
        /\ UNCHANGED <<accepted, enabled, latest, faults>>
    BY <1>2 DEF ReadState
  <2>4. QED
    BY <2>2, <2>3
<1>3. CASE ListBaselines
  BY <1>0, <1>3
     DEF ListBaselines, AllBaselines, DecidedInv
<1>4. ASSUME NEW p \in Plans, RejectBaseline(p)
      PROVE  ExactInv'
  BY <1>0, <1>4 DEF RejectBaseline, Fault
<1>5. CASE EndReject
  BY <1>0, <1>5 DEF EndReject, DecidedInv
<1>6. ASSUME NEW p \in Plans, LookupBaseline(p)
      PROVE  ExactInv'
  BY <1>0, <1>6 DEF LookupBaseline
<1>7. CASE EndRules
  BY <1>0, <1>7 DEF EndRules, RulesDoneInv
<1>8. CASE AddBaseline
  BY <1>0, <1>8 DEF AddBaseline, HintedPlan, StoreBaseline
<1>9. CASE AddFails
  BY <1>0, <1>9
     DEF AddFails, HintedPlan, StoreBaseline, Fault
<1>10. CASE AcceptBaseline
  BY <1>0, <1>10 DEF AcceptBaseline, Leave
<1>11. CASE EnableBaseline
  BY <1>0, <1>11 DEF EnableBaseline, Leave
<1>12. CASE Record
  BY <1>0, <1>12 DEF Record, Leave
<1>13. CASE EndTask
  BY <1>0, <1>13 DEF EndTask
<1>14. ASSUME NEW t \in Templates, ReadStateFails(t)
      PROVE  ExactInv'
  BY <1>0, <1>14 DEF ReadStateFails, Fault
<1>15. CASE CallFails
  BY <1>0, <1>15
     DEF CallFails, Leave, Fault
<1>16. CASE ReplyLost
  BY <1>0, <1>16
     DEF ReplyLost, Leave, Fault
<1>17. CASE Crash
  BY <1>0, <1>17 DEF Crash, Fault
<1>18. ASSUME NEW t \in Templates, NEW p \in Plans, Capture(t, p)
      PROVE  ExactInv'
  BY <1>0, <1>18 DEF Capture
<1>19. ASSUME NEW t \in Templates, NEW p \in Plans, Evict(t, p)
      PROVE  ExactInv'
  BY <1>0, <1>19 DEF Evict, Fault
<1>20. ASSUME NEW t \in Templates, MgmtBlacklist(t)
      PROVE  ExactInv'
  BY <1>0, <1>20 DEF MgmtBlacklist
<1>21. CASE MgmtClear
  BY <1>0, <1>21 DEF MgmtClear
<1>22. CASE ScriptDecide
  BY <1>0, <1>22 DEF ScriptDecide
<1>23. CASE ScriptRecord
  BY <1>0, <1>23 DEF ScriptRecord, RecordOperation
<1>24. CASE ScriptFails
  BY <1>0, <1>24 DEF ScriptFails, Fault
<1>25. ASSUME NEW t \in Templates, MgmtEnable(t)
      PROVE  ExactInv'
  BY <1>0, <1>25 DEF MgmtEnable
<1>26. QED
  BY <1>1, <1>2, <1>3, <1>4, <1>5, <1>6, <1>7, <1>8,
     <1>9, <1>10, <1>11, <1>12, <1>13, <1>14, <1>15, <1>16,
     <1>17, <1>18, <1>19, <1>20, <1>21, <1>22, <1>23, <1>24, <1>25, <1>27
     DEF Next, Applier, Failure, External, Script

\* Accepted and recorded plans change together.
LEMMA MatchStep ==
    ASSUME IInv, TruthInv, Next
    PROVE  OnlineMatchesRecord'
<1> USE DEF IInv, TruthInv, TypeOK, PhaseInv, ApartInv, ApplyPhase, online,
           task, StoredInv, ExactInv,
           OnlineMatchesRecord, AtRest, MgmtOn, InUse
<1>0. IInv /\ TruthInv
  OBVIOUS
<1>1. CASE BeginTask
  BY <1>0, <1>1 DEF BeginTask, Eligible
<1>27. CASE BeginApplying
  BY <1>0, <1>27 DEF BeginApplying
<1>2. ASSUME NEW t \in Templates, ReadState(t)
      PROVE  OnlineMatchesRecord'
  BY <1>0, <1>2, SpmAssumption DEF ReadState
<1>3. CASE ListBaselines
  BY <1>0, <1>3 DEF ListBaselines
<1>4. ASSUME NEW p \in Plans, RejectBaseline(p)
      PROVE  OnlineMatchesRecord'
  BY <1>0, <1>4 DEF RejectBaseline, Fault
<1>5. CASE EndReject
  BY <1>0, <1>5 DEF EndReject
<1>6. ASSUME NEW p \in Plans, LookupBaseline(p)
      PROVE  OnlineMatchesRecord'
  BY <1>0, <1>6 DEF LookupBaseline
<1>7. CASE EndRules
  BY <1>0, <1>7 DEF EndRules
<1>8. CASE AddBaseline
  BY <1>0, <1>8 DEF AddBaseline, HintedPlan, StoreBaseline
<1>9. CASE AddFails
  BY <1>0, <1>9
     DEF AddFails, HintedPlan, StoreBaseline, Fault
<1>10. CASE AcceptBaseline
  BY <1>0, <1>10 DEF AcceptBaseline, Leave
<1>11. CASE EnableBaseline
  BY <1>0, <1>11
     DEF EnableBaseline, Leave, RulesDoneInv
<1>12. CASE Record
  BY <1>0, <1>12
     DEF Record, Leave, RecordOperation, RulesDoneInv, DecidedInv, DecideOperation
<1>13. CASE EndTask
  BY <1>0, <1>13 DEF EndTask
<1>14. ASSUME NEW t \in Templates, ReadStateFails(t)
      PROVE  OnlineMatchesRecord'
  BY <1>0, <1>14 DEF ReadStateFails, Fault
<1>15. CASE CallFails
  BY <1>0, <1>15
     DEF CallFails, Leave, Fault
<1>16. CASE ReplyLost
  BY <1>0, <1>16
     DEF ReplyLost, Leave, Fault
<1>17. CASE Crash
  BY <1>0, <1>17 DEF Crash, Fault
<1>18. ASSUME NEW t \in Templates, NEW p \in Plans, Capture(t, p)
      PROVE  OnlineMatchesRecord'
  BY <1>0, <1>18 DEF Capture
<1>19. ASSUME NEW t \in Templates, NEW p \in Plans, Evict(t, p)
      PROVE  OnlineMatchesRecord'
  BY <1>0, <1>19 DEF Evict, Fault
<1>20. ASSUME NEW t \in Templates, MgmtBlacklist(t)
      PROVE  OnlineMatchesRecord'
  BY <1>0, <1>20 DEF MgmtBlacklist, NoMgmt
<1>21. CASE MgmtClear
  BY <1>0, <1>21 DEF MgmtClear
<1>22. CASE ScriptDecide
  BY <1>0, <1>22 DEF ScriptDecide
<1>23. CASE ScriptRecord
  <2>1. /\ mgmt.step = "record"
        /\ latest' = RecordOperation(latest, mgmt.tpl, mgmt.op, {})
        /\ mgmt'.step = "idle"
        /\ UNCHANGED <<accepted, enabled, faults, tpl>>
    BY <1>23 DEF ScriptRecord, NoMgmt
  <2>2. mgmt.tpl \in Templates /\ InUse(mgmt.tpl) = {}
    BY <1>0, <2>1 DEF DisabledInv
  <2>3. latest'[mgmt.tpl] # NoState => latest'[mgmt.tpl].plans = {}
    <3>1. CASE mgmt.op = "noop"
      <4>1. ~HasCurrentRule(latest[mgmt.tpl])
        BY <1>0, <2>1, <3>1 DEF DecidedInv, DecideOperation
      <4>2. latest[mgmt.tpl] = NoState \/ latest[mgmt.tpl].op = "reset"
        BY <1>0, <2>2, <4>1
           DEF HasCurrentRule, BindingOperation, StateOver, Operation
      <4>3. QED
        BY <1>0, <2>1, <2>2, <3>1, <4>2 DEF RecordOperation
    <3>2. CASE mgmt.op # "noop"
      BY <1>0, <2>1, <2>2, <3>2 DEF RecordOperation
    <3>3. QED
      BY <3>1, <3>2
  <2>4. \A t \in Templates : t # mgmt.tpl => latest'[t] = latest[t]
    BY <1>0, <2>1 DEF RecordOperation
  <2>5. QED
    BY <1>0, <2>1, <2>2, <2>3, <2>4
<1>24. CASE ScriptFails
  BY <1>0, <1>24 DEF ScriptFails, Fault
<1>25. ASSUME NEW t \in Templates, MgmtEnable(t)
      PROVE  OnlineMatchesRecord'
  BY <1>0, <1>25 DEF MgmtEnable
<1>26. QED
  BY <1>1, <1>2, <1>3, <1>4, <1>5, <1>6, <1>7, <1>8,
     <1>9, <1>10, <1>11, <1>12, <1>13, <1>14, <1>15, <1>16,
     <1>17, <1>18, <1>19, <1>20, <1>21, <1>22, <1>23, <1>24, <1>25, <1>27
     DEF Next, Applier, Failure, External, Script

\* The strengthening is an invariant of the specification.
LEMMA TruthHolds == Spec => []TruthInv
<1>1. ASSUME Init
      PROVE  TruthInv
  <2>1. StoredInv
    BY <1>1, SpmAssumption DEF Init, StoredInv, NoState
  <2>2. ExactInv /\ OnlineMatchesRecord
    BY <1>1, SpmAssumption DEF Init, ExactInv, OnlineMatchesRecord, ApplyPhase
  <2>3. QED
    BY <2>1, <2>2 DEF TruthInv
<1>2. ASSUME IInv, TruthInv, Next
      PROVE  TruthInv'
  BY <1>2, StoredStep, ExactStep, MatchStep DEF TruthInv
<1>3. ASSUME TruthInv, UNCHANGED vars
      PROVE  TruthInv'
  <2>1. /\ UNCHANGED <<captured, accepted, enabled, latest, mgmt, pc, decision>>
        /\ UNCHANGED <<tpl, op, pending, plan, faults>>
    BY <1>3 DEF vars, online, task
  <2>2. StoredInv' /\ ExactInv'
    BY <1>3, <2>1 DEF TruthInv, StoredInv, ExactInv, InUse
  <2>3. OnlineMatchesRecord'
    BY <1>3, <2>1 DEF TruthInv, OnlineMatchesRecord, AtRest, MgmtOn, InUse
  <2>4. QED
    BY <2>2, <2>3 DEF TruthInv
<1>4. Init => TruthInv
  BY <1>1
<1>5. IInv /\ TruthInv /\ [Next]_vars => TruthInv'
  BY <1>2, <1>3
<1>6. QED
  BY <1>4, <1>5, InductiveInvariant, PTL DEF Spec

\* The metadata tells the truth: as long as nothing failed and added baselines
\* get the trained plan's id, a template at rest has exactly the plans in force
\* that its record names (_apply_template_rules, reset_rule_state.py).
THEOREM MetadataIsTrue == Spec => []OnlineMatchesRecord
<1>1. TruthInv => OnlineMatchesRecord
  BY DEF TruthInv
<1>2. QED
  BY <1>1, TruthHolds, PTL

-----------------------------------------------------------------------------
(* Plans left in force beside the recorded ones. *)

\* A plan stays accepted beside the decided ones only where a reject failed.
LeftInv ==
    ~PlanDrift =>
        /\ pc \in ApplyPhase \ {"record"} => op # "noop"
        /\ pc = "reject" => Cardinality(accepted[tpl] \ pending) <= faults
        /\ pc \in {"rule", "add", "accept", "enable", "record"} /\ op # "noop"
              => Cardinality(accepted[tpl] \ decision[tpl]) <= faults
        /\ pc \in {"rule", "add", "accept", "enable"} =>
              pending \subseteq decision[tpl]

LeftoverInv == LeftInv /\ LeftoversAreFailures

\* A set of plans within another one plus one more has at most one more element.
LEMMA OneMorePlan ==
    ASSUME NEW S \in SUBSET Plans, NEW T \in SUBSET Plans, NEW p,
           T \subseteq S \cup {p}
    PROVE  Cardinality(T) <= Cardinality(S) + 1
<1>1. IsFiniteSet(S) /\ IsFiniteSet(T)
  BY FS_Subset, SpmAssumption
<1>2. /\ IsFiniteSet(S \cup {p})
      /\ Cardinality(S \cup {p}) <= Cardinality(S) + 1
  <2>1. IsFiniteSet(S \cup {p})
        /\ Cardinality(S \cup {p}) = IF p \in S THEN Cardinality(S)
                                               ELSE Cardinality(S) + 1
    BY <1>1, FS_AddElement, Zenon
  <2>2. Cardinality(S) \in Nat
    BY <1>1, FS_CardinalityType
  <2>3. QED
    BY <2>1, <2>2
<1>3. Cardinality(T) <= Cardinality(S \cup {p})
  BY <1>2, FS_Subset
<1>4. Cardinality(T) \in Nat /\ Cardinality(S \cup {p}) \in Nat
      /\ Cardinality(S) \in Nat
  BY <1>1, <1>2, FS_CardinalityType
<1>5. QED
  BY <1>2, <1>3, <1>4

\* A smaller set of plans has no more elements.
LEMMA FewerPlans ==
    ASSUME NEW S \in SUBSET Plans, NEW T \in SUBSET S
    PROVE  Cardinality(T) <= Cardinality(S) /\ Cardinality(T) \in Nat
           /\ Cardinality(S) \in Nat
  BY FS_Subset, FS_CardinalityType, SpmAssumption

\* Rejects leave behind at most as many plans as calls failed, and nothing but
\* decided plans is accepted after them.
LEMMA LeftStep ==
    ASSUME IInv, StoredInv, LeftoverInv, Next
    PROVE  LeftInv'
<1> USE DEF IInv, TypeOK, PhaseInv, ApplyPhase, online, task, StoredInv,
            LeftoverInv, LeftInv
<1>0. IInv /\ StoredInv /\ LeftoverInv
  OBVIOUS
<1>f. faults \in Nat /\ faults' \in Nat
  BY <1>0, TypeStep, SpmAssumption
<1>1. CASE BeginTask
  BY <1>0, <1>f, <1>1 DEF BeginTask
<1>2. CASE BeginApplying
  BY <1>0, <1>f, <1>2 DEF BeginApplying
<1>3. ASSUME NEW t \in Templates, ReadState(t)
      PROVE  LeftInv'
  BY <1>0, <1>f, <1>3 DEF ReadState
<1>4. CASE ListBaselines
  <2>1. ~PlanDrift => accepted[tpl] \ pending' = {}
    BY <1>0, <1>4 DEF ListBaselines, AllBaselines
  <2>2. Cardinality({}) = 0
    BY FS_EmptySet
  <2>3. /\ pc = "list" /\ pc' = "reject"
        /\ UNCHANGED <<accepted, tpl, op, faults>>
    BY <1>4 DEF ListBaselines
  <2>4. ~PlanDrift => Cardinality(accepted[tpl] \ pending') = 0
    BY <2>1, <2>2, Zenon
  <2>5. QED
    BY <1>0, <1>f, <2>3, <2>4
<1>5. ASSUME NEW p \in Plans, RejectBaseline(p)
      PROVE  LeftInv'
  <2> DEFINE Left == accepted[tpl] \ pending
  <2>0. pc = "reject" /\ pc' = "reject" /\ UNCHANGED <<tpl, op>>
    BY <1>5 DEF RejectBaseline
  <2>1. tpl \in Templates /\ accepted[tpl] \in SUBSET Plans
        /\ accepted'[tpl] \in SUBSET Plans
    BY <1>0, <1>5, <2>0, TypeStep
  <2>2. CASE accepted' = [accepted EXCEPT ![tpl] = @ \ {p}] /\ faults' = faults
    <3>1. (accepted'[tpl] \ pending') \in SUBSET Left
      BY <1>0, <1>5, <2>1, <2>2 DEF RejectBaseline
    <3>2. Cardinality(accepted'[tpl] \ pending') <= Cardinality(Left)
          /\ Cardinality(accepted'[tpl] \ pending') \in Nat
          /\ Cardinality(Left) \in Nat
      BY <2>1, <3>1, FewerPlans
    <3>3. QED
      BY <1>0, <1>f, <2>0, <2>2, <3>2
  <2>3. CASE accepted' = accepted /\ faults' = faults + 1
    <3>1. accepted[tpl] \ pending' \subseteq Left \cup {p}
      BY <1>5 DEF RejectBaseline
    <3>2. Cardinality(accepted[tpl] \ pending') <= Cardinality(Left) + 1
      BY <2>1, <3>1, OneMorePlan
    <3>3. Cardinality(accepted[tpl] \ pending') \in Nat
          /\ Cardinality(Left) \in Nat
      BY <2>1, FewerPlans
    <3>4. QED
      BY <1>0, <1>f, <2>0, <2>3, <3>2, <3>3
  <2>4. \/ accepted' = [accepted EXCEPT ![tpl] = @ \ {p}] /\ faults' = faults
        \/ accepted' = accepted /\ faults' = faults + 1
    BY <1>5 DEF RejectBaseline, Fault
  <2>5. QED
    BY <2>2, <2>3, <2>4, Zenon
<1>6. CASE EndReject
  <2>1. pending = {} /\ pc = "reject" /\ pending' = decision[tpl]
        /\ pc' \in {"record", "rule"}
        /\ UNCHANGED <<accepted, decision, tpl, op, faults>>
    BY <1>6 DEF EndReject
  <2>2. tpl \in Templates /\ accepted[tpl] \in SUBSET Plans
    BY <1>0, <2>1
  <2>3. accepted[tpl] \ pending = accepted[tpl]
    BY <2>1
  <2>4. Cardinality(accepted[tpl] \ decision[tpl]) <= Cardinality(accepted[tpl])
        /\ Cardinality(accepted[tpl] \ decision[tpl]) \in Nat
        /\ Cardinality(accepted[tpl]) \in Nat
    BY <2>2, FewerPlans
  <2>5. QED
    BY <1>0, <1>f, <2>1, <2>3, <2>4
<1>7. ASSUME NEW p \in Plans, LookupBaseline(p)
      PROVE  LeftInv'
  BY <1>0, <1>f, <1>7 DEF LookupBaseline
<1>8. CASE EndRules
  BY <1>0, <1>f, <1>8 DEF EndRules
<1>9. CASE AddBaseline
  <2>1. ~PlanDrift => accepted'[tpl] \ decision[tpl] = accepted[tpl] \ decision[tpl]
    BY <1>0, <1>9 DEF AddBaseline, HintedPlan, StoreBaseline
  <2>2. tpl \in Templates /\ accepted[tpl] \in SUBSET Plans
    BY <1>0, <1>9 DEF AddBaseline
  <2>3. Cardinality(accepted[tpl] \ decision[tpl]) \in Nat
    BY <2>2, FewerPlans
  <2>4. QED
    BY <1>0, <1>f, <1>9, <2>1, <2>3 DEF AddBaseline
<1>10. CASE AddFails
  <2>1. ~PlanDrift => accepted'[tpl] \ decision[tpl] = accepted[tpl] \ decision[tpl]
    BY <1>0, <1>10 DEF AddFails, HintedPlan, StoreBaseline
  <2>2. tpl \in Templates /\ accepted[tpl] \in SUBSET Plans
    BY <1>0, <1>10 DEF AddFails
  <2>3. Cardinality(accepted[tpl] \ decision[tpl]) \in Nat
    BY <2>2, FewerPlans
  <2>4. /\ pc = "add" /\ pc' = "accept" /\ faults' = faults + 1
        /\ UNCHANGED <<decision, tpl, op, pending>>
    BY <1>10 DEF AddFails, Fault
  <2>5. ~PlanDrift => Cardinality(accepted'[tpl'] \ decision'[tpl']) <= faults'
    <3>1. ~PlanDrift => Cardinality(accepted[tpl] \ decision[tpl]) <= faults
      BY <1>0, <2>4
    <3>2. ~PlanDrift => Cardinality(accepted'[tpl] \ decision[tpl])
                         = Cardinality(accepted[tpl] \ decision[tpl])
      BY <2>1, Zenon
    <3>3. QED
      BY <1>f, <2>3, <2>4, <3>1, <3>2
  <2>6. QED
    BY <1>0, <2>4, <2>5
<1>11. CASE AcceptBaseline
  <2>1. CASE plan \in captured[tpl]
    <3>1. ~PlanDrift => accepted'[tpl] \ decision[tpl] = accepted[tpl] \ decision[tpl]
      BY <1>0, <1>11, <2>1 DEF AcceptBaseline
    <3>2. QED
      BY <1>0, <1>11, <2>1, <3>1 DEF AcceptBaseline
  <2>2. CASE plan \notin captured[tpl]
    BY <1>0, <1>11, <2>2 DEF AcceptBaseline, Leave
  <2>3. QED
    BY <2>1, <2>2
<1>12. CASE EnableBaseline
  BY <1>0, <1>f, <1>12 DEF EnableBaseline, Leave
<1>13. CASE Record
  BY <1>0, <1>f, <1>13 DEF Record, Leave
<1>14. CASE EndTask
  BY <1>0, <1>f, <1>14 DEF EndTask
<1>15. ASSUME NEW t \in Templates, ReadStateFails(t)
      PROVE  LeftInv'
  BY <1>0, <1>f, <1>15 DEF ReadStateFails
<1>16. CASE CallFails
  BY <1>0, <1>f, <1>16 DEF CallFails, Leave
<1>17. CASE ReplyLost
  BY <1>0, <1>f, <1>17 DEF ReplyLost, Leave
<1>18. CASE Crash
  BY <1>0, <1>f, <1>18 DEF Crash
<1>19. ASSUME NEW t \in Templates, NEW p \in Plans, Capture(t, p)
      PROVE  LeftInv'
  BY <1>0, <1>f, <1>19 DEF Capture
<1>20. ASSUME NEW t \in Templates, NEW p \in Plans, Evict(t, p)
      PROVE  LeftInv'
  <2>1. faults' = faults + 1 /\ UNCHANGED <<accepted, pc, decision, tpl, op, pending>>
    BY <1>20 DEF Evict, Fault
  <2>2. pc \in ApplyPhase =>
            /\ Cardinality(accepted[tpl] \ pending) \in Nat
            /\ Cardinality(accepted[tpl] \ decision[tpl]) \in Nat
    BY <1>0, FewerPlans
  <2>3. QED
    BY <1>0, <1>f, <2>1, <2>2
<1>21. ASSUME NEW t \in Templates, MgmtBlacklist(t)
      PROVE  LeftInv'
  BY <1>0, <1>f, <1>21 DEF MgmtBlacklist
<1>22. CASE MgmtClear
  BY <1>0, <1>f, <1>22 DEF MgmtClear
<1>23. CASE ScriptDecide
  BY <1>0, <1>f, <1>23 DEF ScriptDecide
<1>24. CASE ScriptRecord
  BY <1>0, <1>f, <1>24 DEF ScriptRecord
<1>25. CASE ScriptFails
  <2>1. faults' = faults + 1 /\ UNCHANGED <<accepted, pc, decision, tpl, op, pending>>
    BY <1>25 DEF ScriptFails, Fault
  <2>2. pc \in ApplyPhase =>
            /\ Cardinality(accepted[tpl] \ pending) \in Nat
            /\ Cardinality(accepted[tpl] \ decision[tpl]) \in Nat
    BY <1>0, FewerPlans
  <2>3. QED
    BY <1>0, <1>f, <2>1, <2>2
<1>26. ASSUME NEW t \in Templates, MgmtEnable(t)
      PROVE  LeftInv'
  BY <1>0, <1>f, <1>26 DEF MgmtEnable
<1>27. QED
  BY <1>1, <1>2, <1>3, <1>4, <1>5, <1>6, <1>7, <1>8, <1>9, <1>10, <1>11, <1>12, <1>13, <1>14, <1>15, <1>16, <1>17, <1>18, <1>19, <1>20, <1>21, <1>22, <1>23, <1>24, <1>25, <1>26
     DEF Next, Applier, Failure, External, Script

\* What a reported success left in force beside its plans is never added to.
LEMMA LeftoversStep ==
    ASSUME IInv, StoredInv, LeftoverInv, Next
    PROVE  LeftoversAreFailures'
<1> DEFINE Beside(t) == InUse(t) \ latest[t].plans
<1>0. IInv /\ StoredInv /\ LeftoverInv
  OBVIOUS
<1>f. faults \in Nat /\ faults' \in Nat /\ faults <= faults'
  <2>1. faults' = faults \/ faults' = faults + 1
    BY DEF Next, Applier, Failure, External, Script, Fault, BeginTask,
           BeginApplying, ReadState, ListBaselines, RejectBaseline, EndReject,
           LookupBaseline, EndRules, AddBaseline, AddFails, AcceptBaseline,
           EnableBaseline, Record, EndTask, ReadStateFails, CallFails, ReplyLost,
           Crash, Capture, Evict, MgmtBlacklist, MgmtClear, ScriptDecide,
           ScriptRecord, ScriptFails, MgmtEnable
  <2>2. QED
    BY <1>0, <2>1, TypeStep, SpmAssumption DEF IInv, TypeOK
<1>s. SUFFICES ASSUME ~PlanDrift, NEW t \in Templates,
                      outcome'[t] = "success", AtRest(t)'
               PROVE  Cardinality(Beside(t)') <= faults'
  BY DEF LeftoversAreFailures
<1>t. /\ InUse(t) \in SUBSET Plans /\ InUse(t)' \in SUBSET Plans
      /\ Cardinality(Beside(t)) \in Nat
  BY <1>0, TypeStep, FewerPlans DEF IInv, TypeOK, InUse
\* Where the template was at rest before the step, and no plan of it came into
\* force or lost its record.
<1>1. ASSUME outcome[t] = "success", AtRest(t), Beside(t)' \subseteq Beside(t)
      PROVE  Cardinality(Beside(t)') <= faults'
  <2>1. Cardinality(Beside(t)) <= faults
    BY <1>0, <1>s, <1>1 DEF LeftoverInv, LeftoversAreFailures
  <2>2. Cardinality(Beside(t)') <= Cardinality(Beside(t))
        /\ Cardinality(Beside(t)') \in Nat
    BY <1>t, <1>1, FewerPlans
  <2>3. QED
    BY <1>f, <1>t, <2>1, <2>2
<1>2. CASE Record
  <2>1. CASE t = tpl
    <3>1. op # "noop" /\ pc = "record"
      BY <1>0, <1>2, <1>s, <2>1 DEF Record, Leave, IInv, TypeOK
    <3>2. /\ latest'[t].plans = decision[t]
          /\ InUse(t)' = InUse(t)
          /\ faults' = faults
      BY <1>0, <1>2, <2>1, <3>1 DEF Record, RecordOperation, InUse, online, IInv, TypeOK
    <3>3. Cardinality(accepted[t] \ decision[t]) <= faults
      BY <1>0, <1>s, <2>1, <3>1 DEF LeftoverInv, LeftInv
    <3>4. Beside(t)' \in SUBSET (accepted[t] \ decision[t])
      BY <3>2 DEF InUse
    <3>5. (accepted[t] \ decision[t]) \in SUBSET Plans
      BY <1>0 DEF IInv, TypeOK
    <3>6. Cardinality(Beside(t)') <= Cardinality(accepted[t] \ decision[t])
          /\ Cardinality(Beside(t)') \in Nat
          /\ Cardinality(accepted[t] \ decision[t]) \in Nat
      BY <3>4, <3>5, FewerPlans
    <3>7. QED
      BY <1>f, <3>2, <3>3, <3>6
  <2>2. CASE t # tpl
    <3>1. latest'[t] = latest[t] /\ InUse(t)' = InUse(t) /\ mgmt' = mgmt
          /\ outcome'[t] = outcome[t]
      BY <1>0, <1>2, <2>2
         DEF Record, Leave, RecordOperation, InUse, online, IInv, TypeOK
    <3>2. QED
      BY <1>1, <1>s, <2>2, <3>1 DEF AtRest
  <2>3. QED
    BY <2>1, <2>2
<1>3. CASE ScriptRecord \/ ScriptFails \/ MgmtClear
  <2>1. /\ outcome' = outcome /\ tpl' = tpl
        /\ captured' = captured
    BY <1>3 DEF ScriptRecord, ScriptFails, MgmtClear, online, task
  <2>2. CASE mgmt.tpl = t
    <3>1. CASE ScriptRecord
      <4>1. accepted[t] = {} /\ accepted' = accepted
        BY <1>0, <1>3, <2>2, <3>1
           DEF ScriptRecord, online, IInv, DisabledInv
      <4>2. Beside(t)' = {}
        BY <4>1 DEF InUse
      <4>3. QED
        BY <1>f, <4>2, FS_EmptySet
    <3>2. CASE ScriptFails \/ MgmtClear
      BY <1>0, <1>s, <2>2, <3>2 DEF ScriptFails, MgmtClear, AtRest, IInv, TypeOK
    <3>3. QED
      BY <1>3, <3>1, <3>2
  <2>3. CASE mgmt.tpl # t
    <3>1. Beside(t)' = Beside(t)
      BY <1>0, <1>3, <2>3
         DEF ScriptRecord, ScriptFails, MgmtClear, RecordOperation, InUse, online,
             IInv, TypeOK
    <3>2. QED
      BY <1>1, <1>s, <2>1, <2>3, <3>1 DEF AtRest
  <2>4. QED
    BY <2>2, <2>3
<1>4. ASSUME NEW u \in Templates, ReadState(u)
      PROVE  Cardinality(Beside(t)') <= faults'
  <2>1. /\ UNCHANGED <<accepted, enabled, latest, mgmt>>
        /\ outcome' = [outcome EXCEPT ![u] = "none"]
    BY <1>4 DEF ReadState, online
  <2>2. outcome[t] = "success"
    BY <1>0, <1>s, <2>1 DEF IInv, TypeOK
  <2>3. AtRest(t)
    BY <1>0, <1>s, <1>4, <2>1, SpmAssumption
       DEF ReadState, AtRest, IInv, PhaseInv, ApplyPhase
  <2>4. QED
    BY <1>1, <2>1, <2>2, <2>3 DEF InUse
<1>5. ASSUME NEW u \in Templates, NEW p \in Plans, Evict(u, p) \/ Capture(u, p)
      PROVE  Cardinality(Beside(t)') <= faults'
  <2>1. /\ UNCHANGED <<accepted, latest, mgmt, tpl, outcome>>
        /\ InUse(t)' \subseteq InUse(t)
    BY <1>0, <1>5 DEF Evict, Capture, task, InUse, StoredInv, IInv, TypeOK
  <2>2. QED
    BY <1>1, <1>s, <2>1 DEF AtRest
<1>6. CASE ListBaselines \/ EndReject \/ EndRules \/ AddBaseline \/ AddFails
           \/ AcceptBaseline \/ EnableBaseline \/ CallFails \/ ReplyLost
           \/ \E p \in Plans : RejectBaseline(p) \/ LookupBaseline(p)
  <2>1. pc \in ApplyPhase /\ outcome[tpl] = "none"
    BY <1>0, <1>6
       DEF ListBaselines, EndReject, EndRules, AddBaseline, AddFails,
           AcceptBaseline, EnableBaseline, CallFails, ReplyLost, RejectBaseline,
           LookupBaseline, IInv, PhaseInv, ApplyPhase
  <2>2. /\ outcome' = outcome \/ outcome' = [outcome EXCEPT ![tpl] = "fail"]
        /\ mgmt' = mgmt
    BY <1>6
       DEF ListBaselines, EndReject, EndRules, AddBaseline, AddFails,
           AcceptBaseline, EnableBaseline, CallFails, ReplyLost, RejectBaseline,
           LookupBaseline, Leave, online, task
  <2>3. t # tpl /\ outcome[t] = "success"
    BY <1>0, <1>s, <2>1, <2>2 DEF IInv, TypeOK
  <2>4. InUse(t)' = InUse(t) /\ latest'[t] = latest[t]
    BY <1>0, <1>6, <2>3
       DEF ListBaselines, EndReject, EndRules, AddBaseline, AddFails,
           AcceptBaseline, EnableBaseline, CallFails, ReplyLost, RejectBaseline,
           LookupBaseline, StoreBaseline, RecordOperation, Leave, online, task,
           InUse, IInv, TypeOK
  <2>5. QED
    BY <1>1, <1>s, <2>2, <2>3, <2>4 DEF AtRest
<1>7. CASE BeginTask \/ BeginApplying \/ EndTask \/ ScriptDecide \/ Crash
           \/ \E u \in Templates : ReadStateFails(u) \/ MgmtBlacklist(u)
                                  \/ MgmtEnable(u)
  <2>1. /\ UNCHANGED <<accepted, enabled, latest>>
        /\ outcome'[t] = "success" => outcome[t] = "success"
    BY <1>0, <1>7
       DEF BeginTask, BeginApplying, EndTask, ScriptDecide, Crash, ReadStateFails,
           MgmtBlacklist, MgmtEnable, online, task, IInv, TypeOK
  <2>2. \/ mgmt'.step \in {"script", "record"} /\ mgmt'.tpl = mgmt.tpl
        \/ mgmt.step \notin {"script", "record"}
    <3>1. CASE ScriptDecide
      BY <1>0, <3>1 DEF ScriptDecide, IInv, TypeOK
    <3>2. CASE \E u \in Templates : MgmtBlacklist(u)
      BY <3>2 DEF MgmtBlacklist, NoMgmt
    <3>3. CASE mgmt' = mgmt
      BY <3>3
    <3>4. QED
      BY <1>7, <3>1, <3>2, <3>3
         DEF BeginTask, BeginApplying, EndTask, Crash, ReadStateFails, MgmtEnable
  <2>3. outcome[t] = "success" => tpl # t
    BY <1>0, SpmAssumption DEF IInv, PhaseInv
  <2>4. outcome[t] = "success" => AtRest(t)
    BY <1>s, <2>2, <2>3 DEF AtRest
  <2>5. QED
    BY <1>1, <1>s, <2>1, <2>4 DEF InUse
<1>8. QED
  BY <1>2, <1>3, <1>4, <1>5, <1>6, <1>7
     DEF Next, Applier, Failure, External, Script

\* After a reported success at most as many unrecorded plans are in force as
\* calls failed, in however many tasks (reject_all_baselines, which swallows the
\* failure of a reject and goes on).
THEOREM LeftoversAreAccounted == Spec => []LeftoversAreFailures
<1>1. ASSUME Init
      PROVE  LeftoverInv
  BY <1>1 DEF Init, LeftoverInv, LeftInv, LeftoversAreFailures, ApplyPhase
<1>2. ASSUME IInv, StoredInv, LeftoverInv, Next
      PROVE  LeftoverInv'
  BY <1>2, LeftStep, LeftoversStep DEF LeftoverInv
<1>3. ASSUME IInv, StoredInv, LeftoverInv, UNCHANGED vars
      PROVE  LeftoverInv'
  BY <1>3
     DEF vars, online, task, LeftoverInv, LeftInv, LeftoversAreFailures, AtRest, InUse
<1>4. IInv /\ StoredInv /\ LeftoverInv /\ [Next]_vars => LeftoverInv'
  BY <1>2, <1>3
<1>5. LeftoverInv => LeftoversAreFailures
  BY DEF LeftoverInv
<1>6. Init => LeftoverInv
  BY <1>1
<1>7. TruthInv => StoredInv
  BY DEF TruthInv
<1>8. QED
  BY <1>4, <1>5, <1>6, <1>7, InductiveInvariant, TruthHolds, PTL DEF Spec

\* A reported success is true of the instance up to the failures: its plans stay in
\* force, and at most one other for each failure, until the template is applied
\* again or disabled (_apply_template_rules and reject_all_baselines).
THEOREM SuccessIsAccounted == Spec => []SuccessAccounted
BY SuccessIsLasting, LeftoversAreAccounted, PTL DEF SuccessAccounted

=============================================================================
