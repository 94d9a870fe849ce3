------------------------- MODULE OutlineApply_proofs -------------------------
(***************************************************************************)
(* Theorems about OutlineApply, for any templates, plans, timeouts and     *)
(* faults: what a success promises, and what only faults can leave behind. *)
(***************************************************************************)
EXTENDS OutlineApply, TLAPS, FiniteSetTheorems

Busy == {"show", "delete", "add", "record"}

\* While a template is applied it waits for its outcome, its state was read from
\* the table and is still there; between templates there is none, and between
\* tasks no batch.
PlaceInv ==
    /\ pc \in Busy => tpl \in todo /\ state = latest[tpl]
    /\ pc \notin Busy => tpl = NoTemplate /\ existing = {}
    /\ pc = "idle" => todo = {}
    /\ \A t \in todo : outcome[t] = "none"

\* The instance hands out every id once, so what is listed for deletion can
\* only be rules of the template being applied.
IdInv ==
    /\ IsFiniteSet(rules)
    /\ \A r, s \in rules : r.id = s.id => r = s
    /\ \A r \in rules : r.id \in existing => r.tpl = tpl
    /\ pc = "add" => existing = {}

\* The operation fits the decision, and has its effect before it is recorded.
OpInv ==
    /\ pc \in {"delete", "add"} => op # "noop"
    /\ pc = "add" => op # "reset"
    /\ pc \in {"delete", "add", "record"} =>
          /\ op = "reset" => decision[tpl] = {}
          /\ op \in BindingOperation => decision[tpl] # {}
    /\ pc = "record" /\ op # "noop" =>
          decision[tpl] \subseteq {ChoiceOf(r) : r \in RulesOf(tpl)}

\* The rules of a template that are not listed for deletion.
Kept(t) == {r \in RulesOf(t) : r.id \notin existing}

\* Each rule that a deletion has left behind is a fault's.
BoundInv ==
    /\ pc \in {"delete", "add"} => Cardinality(Kept(tpl)) <= faults
    /\ RulesBoundedByFaults

\* Without faults the table knows what is online: a template's rules have the
\* plans of its state, and one without a state has none.
PlansOnline(t) ==
    /\ {r.plan : r \in RulesOf(t)}
          = IF HasCurrentRule(latest[t]) THEN latest[t].plans ELSE {}
    /\ HasCurrentRule(latest[t]) => latest[t].plans # {}

InForce(t) == {ChoiceOf(r) : r \in RulesOf(t)} = decision[t]

FaultlessInv ==
    faults = 0 =>
        /\ \A t \in Templates :
              (pc \in {"delete", "add", "record"} /\ op # "noop" /\ t = tpl)
                  \/ PlansOnline(t)
        /\ pc \in {"delete", "add"} => Kept(tpl) = {}
        /\ pc = "record" => InForce(tpl)
        /\ \A t \in Templates :
              outcome[t] \in {"success", "skip"} => InForce(t)

IInv == TypeOK /\ PlaceInv /\ IdInv /\ OpInv /\ BoundInv /\ FaultlessInv
               /\ SuccessLasts
-----------------------------------------------------------------------------
\* The operation decided for a template fits its decision.
LEMMA OperationFits ==
    ASSUME NEW t \in Templates, NEW timeout
    PROVE  /\ OperationFor(t, timeout) \in Operation
           /\ OperationFor(t, timeout) = "reset" => decision[t] = {}
           /\ OperationFor(t, timeout) \in BindingOperation => decision[t] # {}
  BY DEF OperationFor, DecideOperation, Operation, BindingOperation, HasCurrentRule

\* A template is skipped only when its state is what was decided, and its
\* timeout is not known to differ.
LEMMA NoopMeansNoChange ==
    ASSUME NEW t \in Templates, NEW timeout, OperationFor(t, timeout) = "noop"
    PROVE  \/ decision[t] = {} /\ ~HasCurrentRule(state)
           \/ /\ decision[t] # {} /\ HasCurrentRule(state)
              /\ state.plans = {c.plan : c \in decision[t]}
              /\ \/ timeout = {} \/ {c.timeout : c \in decision[t]} = {}
                 \/ timeout = {c.timeout : c \in decision[t]}
  BY DEF OperationFor, DecideOperation, HasCurrentRule

\* Recording an operation leaves a state in the table.
LEMMA RecordOperationType ==
    ASSUME NEW P, NEW f \in [Templates -> StateOver(P)], NEW t \in Templates,
           NEW o \in Operation, NEW plans \in SUBSET P
    PROVE  RecordOperation(f, t, o, plans) \in [Templates -> StateOver(P)]
  <1>1. CASE o = "noop"
    BY <1>1 DEF RecordOperation
  <1>2. CASE o # "noop"
    <2>1. [op |-> o, plans |-> plans] \in StateOver(P)
      BY <1>2 DEF StateOver
    <2> QED  BY <1>2, <2>1 DEF RecordOperation
  <1> QED  BY <1>1, <1>2

\* A decision is empty or one choice, a plan with its timeout.
LEMMA DecisionParts ==
    ASSUME TypeOK, NEW t \in Templates
    PROVE  /\ decision[t] \in SUBSET Choice
           /\ decision[t] = {} \/ \E c \in Choice : decision[t] = {c}
           /\ {c.plan : c \in decision[t]} \in SUBSET Plans
           /\ {c.timeout : c \in decision[t]} \in SUBSET Timeouts
           /\ \A c \in Choice : c.plan \in Plans /\ c.timeout \in Timeouts
  <1>1. decision[t] = {} \/ \E c \in Choice : decision[t] = {c}
    BY DEF TypeOK, Decision
  <1>2. \A c \in Choice : c.plan \in Plans /\ c.timeout \in Timeouts
    BY DEF Choice
  <1> QED  BY <1>1, <1>2

\* The rule an add for a choice stores.
NewRule(c) == [id |-> nextId, tpl |-> tpl, plan |-> c.plan, timeout |-> c.timeout]

\* A stored rule is new: its id is not another rule's.
LEMMA StoredRule ==
    ASSUME TypeOK, IdInv, StoreRule, tpl \in Templates
    PROVE  \E c \in Choice :
             /\ decision[tpl] = {c} /\ ChoiceOf(NewRule(c)) = c
             /\ rules' = rules \cup {NewRule(c)}
             /\ \A r \in rules : r.id # nextId
             /\ NewRule(c).id = nextId /\ NewRule(c) \notin rules
             /\ NewRule(c) \in [id : 1..nextId, tpl : Templates, plan : Plans,
                                timeout : Timeouts]
             /\ \A t \in Templates :
                   RulesOf(t)' = IF t = tpl THEN RulesOf(t) \cup {NewRule(c)}
                                            ELSE RulesOf(t)
             /\ NewRule(c) \notin RulesOf(tpl)
  <1>1. PICK c \in decision[tpl] : rules' = rules \cup {NewRule(c)}
    BY DEF StoreRule, NewRule
  <1>2. decision[tpl] = {c} /\ c \in Choice
    BY DecisionParts
  <1>3. /\ c.plan \in Plans /\ c.timeout \in Timeouts
        /\ c = [plan |-> c.plan, timeout |-> c.timeout]
    BY <1>2 DEF Choice
  <1>4. ChoiceOf(NewRule(c)) = c /\ NewRule(c).id = nextId /\ NewRule(c).tpl = tpl
    BY <1>3 DEF ChoiceOf, NewRule
  <1>5. \A r \in rules : r.id # nextId
    BY DEF TypeOK
  <1>6. NewRule(c) \notin rules
    BY <1>4, <1>5
  <1>7. NewRule(c) \in [id : 1..nextId, tpl : Templates, plan : Plans,
                        timeout : Timeouts]
    BY <1>3 DEF NewRule, TypeOK
  <1> HIDE DEF NewRule
  <1>8. ASSUME NEW t \in Templates
        PROVE  RulesOf(t)' = IF t = tpl THEN RulesOf(t) \cup {NewRule(c)}
                                        ELSE RulesOf(t)
    BY <1>1, <1>4 DEF RulesOf
  <1>9. NewRule(c) \notin RulesOf(tpl)
    BY <1>6 DEF RulesOf
  <1> QED  BY <1>1, <1>2, <1>4, <1>5, <1>6, <1>7, <1>8, <1>9

\* A deletion touches the template being applied only.
LEMMA DeletedRule ==
    ASSUME IdInv, NEW id \in existing, rules' = {r \in rules : r.id # id}
    PROVE  /\ \A t \in Templates : t # tpl => RulesOf(t)' = RulesOf(t)
           /\ rules' \subseteq rules
  BY DEF IdInv, RulesOf

-----------------------------------------------------------------------------
\* The steps preserve the types.
LEMMA TypeStep ==
    ASSUME TypeOK, PlaceInv, IdInv, OpInv, [Next]_vars
    PROVE  TypeOK'
  <1> USE OutlineAssumption DEF Busy
  <1>1. CASE BeginTask
    BY <1>1 DEF TypeOK, BeginTask
  <1>2. ASSUME NEW t \in Templates, ReadState(t) \/ ReadStateFails(t)
        PROVE  TypeOK'
    <2>1. CASE ReadState(t)
      BY <2>1 DEF TypeOK, ReadState
    <2>2. CASE ReadStateFails(t)
      BY <2>2 DEF TypeOK, ReadStateFails, Fault
    <2> QED  BY <1>2, <2>1, <2>2
  <1>3. CASE ShowRules
    <2>1. tpl \in Templates /\ state \in StateOver(Plans)
      BY <1>3 DEF ShowRules, PlaceInv, TypeOK
    <2>2. op' \in Operation
      BY <1>3, <2>1, OperationFits DEF ShowRules
    <2>3. existing' \in SUBSET Nat
      BY <1>3 DEF ShowRules, ExistingRuleIds, RulesOf, TypeOK
    <2> QED  BY <1>3, <2>2, <2>3 DEF ShowRules, TypeOK
  <1>4. ASSUME NEW id \in existing, DeleteRule(id)
        PROVE  TypeOK'
    BY <1>4 DEF TypeOK, DeleteRule, Fault
  <1>5. CASE EndDelete \/ EndTask
    BY <1>5 DEF TypeOK, EndDelete, EndTask
  <1>6. ASSUME pc = "add", StoreRule
        PROVE  /\ rules' \subseteq [id : 1..(nextId' - 1), tpl : Templates,
                                    plan : Plans, timeout : Timeouts]
               /\ nextId' \in Nat \ {0}
    <2>1. tpl \in Templates
      BY <1>6 DEF PlaceInv, TypeOK
    <2>2. nextId \in Nat \ {0} /\ nextId' = nextId + 1
      BY <1>6 DEF StoreRule, TypeOK
    <2>3. \A r \in rules : r \in [id : 1..nextId, tpl : Templates,
                                  plan : Plans, timeout : Timeouts]
      BY <2>2 DEF TypeOK
    <2>4. \E c \in Choice :
            /\ rules' = rules \cup {NewRule(c)}
            /\ NewRule(c) \in [id : 1..nextId, tpl : Templates, plan : Plans,
                               timeout : Timeouts]
      BY <1>6, <2>1, StoredRule
    <2>5. 1..(nextId' - 1) = 1..nextId
      BY <2>2
    <2> QED  BY <2>2, <2>3, <2>4, <2>5
  <1>7. ASSUME NEW o \in {"success", "skip", "fail"}, Leave(o), pc \in Busy
        PROVE  /\ outcome' \in [Templates -> {"none", "success", "skip", "fail"}]
               /\ todo' \in SUBSET Templates /\ pc' = "next"
               /\ tpl' = NoTemplate /\ state' = NoState /\ op' = "noop"
               /\ existing' = {}
    BY <1>7 DEF TypeOK, Leave, ClearTemplate
  <1>8. NoState \in StateOver(Plans) /\ "noop" \in Operation
    BY DEF StateOver, Operation
  <1>9. ASSUME pc = "record"
        PROVE  RecordOperation(latest, tpl, op, {c.plan : c \in decision[tpl]})
                   \in [Templates -> StateOver(Plans)]
    BY <1>9, DecisionParts, RecordOperationType DEF PlaceInv, TypeOK
  <1>10. CASE AddRule
    BY <1>6, <1>10 DEF TypeOK, AddRule
  <1>11. CASE Record
    BY <1>7, <1>8, <1>9, <1>11 DEF TypeOK, Record
  <1>12. CASE CallFails
    BY <1>7, <1>8, <1>12 DEF TypeOK, CallFails, Fault
  <1>13. CASE ReplyLost
    BY <1>6, <1>7, <1>8, <1>9, <1>13 DEF TypeOK, ReplyLost, Fault
  <1>14. CASE Crash
    BY <1>8, <1>14 DEF TypeOK, Crash, ClearTemplate, Fault
  <1>15. CASE UNCHANGED vars
    BY <1>15 DEF TypeOK, vars
  <1> QED  BY <1>1, <1>2, <1>3, <1>4, <1>5, <1>10, <1>11, <1>12, <1>13, <1>14,
              <1>15 DEF Next, Applier, Failure

\* Who waits for what, at every step.
LEMMA PlaceStep ==
    ASSUME TypeOK, PlaceInv, [Next]_vars
    PROVE  PlaceInv'
  <1> USE DEF PlaceInv, TypeOK, Busy
  <1>1. CASE BeginTask
    BY <1>1 DEF BeginTask
  <1>2. ASSUME NEW t \in Templates, ReadState(t) \/ ReadStateFails(t)
        PROVE  PlaceInv'
    BY <1>2 DEF ReadState, ReadStateFails
  <1>3. CASE ShowRules
    BY <1>3 DEF ShowRules
  <1>4. ASSUME NEW id \in existing, DeleteRule(id)
        PROVE  PlaceInv'
    BY <1>4 DEF DeleteRule
  <1>5. CASE EndDelete \/ EndTask \/ AddRule \/ Crash
    BY <1>5 DEF EndDelete, EndTask, AddRule, Crash, ClearTemplate
  <1>6. CASE Record \/ CallFails \/ ReplyLost
    BY <1>6 DEF Record, CallFails, ReplyLost, Leave, ClearTemplate
  <1>7. CASE UNCHANGED vars
    BY <1>7 DEF vars
  <1> QED  BY <1>1, <1>2, <1>3, <1>4, <1>5, <1>6, <1>7 DEF Next, Applier, Failure

\* Ids stay the names of single rules.
LEMMA IdStep ==
    ASSUME TypeOK, PlaceInv, IdInv, [Next]_vars
    PROVE  IdInv'
  <1> USE DEF IdInv, Busy
  <1>1. CASE BeginTask
    BY <1>1 DEF BeginTask, PlaceInv
  <1>2. ASSUME NEW t \in Templates, ReadState(t) \/ ReadStateFails(t)
        PROVE  IdInv'
    BY <1>2 DEF ReadState, ReadStateFails, PlaceInv
  <1>3. CASE ShowRules
    BY <1>3 DEF ShowRules, ExistingRuleIds, RulesOf
  <1>4. ASSUME NEW id \in existing, DeleteRule(id)
        PROVE  IdInv'
    <2>1. rules' \in SUBSET rules /\ existing' \in SUBSET existing
          /\ pc' = "delete" /\ tpl' = tpl
      BY <1>4 DEF DeleteRule
    <2> QED  BY <2>1, FS_Subset
  <1>5. ASSUME StoreRule, pc = "add"
        PROVE  /\ IsFiniteSet(rules')
               /\ \A r, s \in rules' : r.id = s.id => r = s
    <2>1. tpl \in Templates
      BY <1>5 DEF PlaceInv, TypeOK
    <2>2. PICK c \in Choice : /\ rules' = rules \cup {NewRule(c)}
                              /\ \A r \in rules : r.id # nextId
                              /\ NewRule(c).id = nextId
      BY <1>5, <2>1, StoredRule
    <2>3. IsFiniteSet(rules')
      BY <2>2, FS_AddElement
    <2> QED  BY <2>2, <2>3
  <1>6. CASE EndDelete \/ EndTask \/ Crash
    BY <1>6 DEF EndDelete, EndTask, Crash, ClearTemplate
  <1>7. CASE AddRule
    BY <1>5, <1>7 DEF AddRule
  <1>8. CASE Record \/ CallFails \/ ReplyLost
    BY <1>5, <1>8 DEF Record, CallFails, ReplyLost, Leave, ClearTemplate
  <1>9. CASE UNCHANGED vars
    BY <1>9 DEF vars
  <1> QED  BY <1>1, <1>2, <1>3, <1>4, <1>6, <1>7, <1>8, <1>9
           DEF Next, Applier, Failure

\* An operation has had its effect when it comes to recording it.
LEMMA OpStep ==
    ASSUME TypeOK, PlaceInv, IdInv, OpInv, [Next]_vars
    PROVE  OpInv'
  <1> USE DEF OpInv, Busy
  <1>1. CASE BeginTask
    BY <1>1 DEF BeginTask, PlaceInv
  <1>2. ASSUME NEW t \in Templates, ReadState(t) \/ ReadStateFails(t)
        PROVE  OpInv'
    BY <1>2 DEF ReadState, ReadStateFails
  <1>3. CASE ShowRules
    <2>1. tpl \in Templates /\ state \in StateOver(Plans)
      BY <1>3 DEF ShowRules, PlaceInv, TypeOK
    <2>2. /\ op' \in Operation
          /\ op' = "reset" => decision[tpl] = {}
          /\ op' \in BindingOperation => decision[tpl] # {}
      BY <1>3, <2>1, OperationFits DEF ShowRules
    <2> QED  BY <1>3, <2>2 DEF ShowRules
  <1>4. ASSUME NEW id \in existing, DeleteRule(id)
        PROVE  OpInv'
    BY <1>4 DEF DeleteRule
  <1>5. CASE EndDelete
    BY <1>5 DEF EndDelete, BindingOperation
  <1>6. CASE AddRule
    <2>1. tpl \in Templates
      BY <1>6 DEF AddRule, PlaceInv, TypeOK
    <2>2. PICK c \in Choice :
            /\ decision[tpl] = {c} /\ ChoiceOf(NewRule(c)) = c
            /\ \A t \in Templates :
                  t = tpl => RulesOf(t)' = RulesOf(t) \cup {NewRule(c)}
      BY <1>6, <2>1, StoredRule DEF AddRule
    <2>3. tpl' = tpl /\ decision' = decision /\ pc' = "record" /\ op' = op
      BY <1>6 DEF AddRule
    <2>4. RulesOf(tpl)' = RulesOf(tpl) \cup {NewRule(c)}
      BY <2>1, <2>2, <2>3 DEF RulesOf
    <2>5. decision[tpl] \subseteq {ChoiceOf(r) : r \in RulesOf(tpl)'}
      BY <2>2, <2>4
    <2> QED  BY <1>6, <2>3, <2>5 DEF AddRule, ChoiceOf
  <1>7. CASE EndTask \/ Crash
    BY <1>7 DEF EndTask, Crash, ClearTemplate
  <1>8. CASE Record \/ CallFails \/ ReplyLost
    BY <1>8 DEF Record, CallFails, ReplyLost, Leave, ClearTemplate
  <1>9. CASE UNCHANGED vars
    BY <1>9 DEF vars, ChoiceOf, RulesOf
  <1> QED  BY <1>1, <1>2, <1>3, <1>4, <1>5, <1>6, <1>7, <1>8, <1>9
           DEF Next, Applier, Failure

-----------------------------------------------------------------------------
\* Finite parts of the rules, and their sizes.
LEMMA RulesAreFinite ==
    ASSUME IdInv, NEW S \in SUBSET rules
    PROVE  /\ IsFiniteSet(S) /\ Cardinality(S) \in Nat
           /\ \A T \in SUBSET S : Cardinality(T) <= Cardinality(S)
           /\ \A x : x \notin S => Cardinality(S \cup {x}) = Cardinality(S) + 1
  <1>1. IsFiniteSet(S)
    BY FS_Subset DEF IdInv
  <1> QED  BY <1>1, FS_Subset, FS_CardinalityType, FS_AddElement

\* No step adds rules to a template but storing one for it.
LEMMA RulesOnlyStored ==
    ASSUME TypeOK, PlaceInv, IdInv, [Next]_vars, NEW t \in Templates
    PROVE  \/ RulesOf(t)' \subseteq RulesOf(t)
           \/ pc = "add" /\ t = tpl /\ StoreRule /\ (AddRule \/ ReplyLost)
  <1>1. CASE pc = "add" /\ StoreRule /\ (AddRule \/ ReplyLost)
    <2>1. tpl \in Templates
      BY <1>1 DEF PlaceInv, TypeOK, Busy
    <2> QED  BY <1>1, <2>1, StoredRule
  <1>2. CASE rules' \subseteq rules
    BY <1>2 DEF RulesOf
  <1>3. rules' \subseteq rules \/ (pc = "add" /\ StoreRule /\ (AddRule \/ ReplyLost))
    BY DEF Next, BeginTask, Applier, ReadState, ShowRules, DeleteRule, EndDelete,
           AddRule, Record, EndTask, Failure, ReadStateFails, CallFails,
           ReplyLost, Crash, vars
  <1> QED  BY <1>1, <1>2, <1>3

\* Whatever is left behind while a template is applied has its fault.
LEMMA BoundStep ==
    ASSUME TypeOK, PlaceInv, IdInv, BoundInv, [Next]_vars
    PROVE  BoundInv'
  <1>1. faults \in Nat /\ faults' \in Nat /\ faults' >= faults
    BY DEF TypeOK, Next, BeginTask, Applier, ReadState, ShowRules, DeleteRule,
           EndDelete, AddRule, Record, EndTask, Failure, ReadStateFails,
           CallFails, ReplyLost, Crash, Fault, vars
  <1>2. \A t \in Templates : RulesOf(t) \in SUBSET rules /\ Kept(t) \in SUBSET rules
    BY DEF RulesOf, Kept
  <1>3. ASSUME pc = "add", StoreRule, NEW t \in Templates, t = tpl
        PROVE  Cardinality(RulesOf(t)') <= 1 + faults'
    <2>1. PICK c \in Choice : /\ RulesOf(t)' = RulesOf(t) \cup {NewRule(c)}
                              /\ NewRule(c) \notin RulesOf(t)
      BY <1>3, StoredRule
    <2>2. Kept(t) = RulesOf(t)
      BY <1>3 DEF IdInv, Kept
    <2>3. Cardinality(RulesOf(t)) <= faults
      BY <1>3, <2>2 DEF BoundInv
    <2>4. Cardinality(RulesOf(t)') = Cardinality(RulesOf(t)) + 1
      BY <1>2, <2>1, RulesAreFinite
    <2>5. Cardinality(RulesOf(t)) \in Nat
      BY <1>2, RulesAreFinite
    <2> QED  BY <1>1, <2>3, <2>4, <2>5
  <1>4. RulesBoundedByFaults'
    <2>1. ASSUME NEW t \in Templates
          PROVE  Cardinality(RulesOf(t)') <= 1 + faults'
      <3>1. CASE RulesOf(t)' \subseteq RulesOf(t)
        <4>1. /\ Cardinality(RulesOf(t)') <= Cardinality(RulesOf(t))
              /\ Cardinality(RulesOf(t)') \in Nat
              /\ Cardinality(RulesOf(t)) \in Nat
          BY <1>2, <3>1, RulesAreFinite
        <4>2. Cardinality(RulesOf(t)) <= 1 + faults
          BY DEF BoundInv, RulesBoundedByFaults
        <4> QED  BY <1>1, <4>1, <4>2
      <3>2. CASE pc = "add" /\ t = tpl /\ StoreRule
        BY <1>3, <3>2
      <3> QED  BY <3>1, <3>2, RulesOnlyStored
    <2> QED  BY <2>1 DEF RulesBoundedByFaults
  <1>5. pc' \in {"delete", "add"} => Cardinality(Kept(tpl)') <= faults'
    <2> USE DEF BoundInv
    <2>1. CASE ShowRules
      <3>1. Kept(tpl)' = {}
        BY <2>1 DEF ShowRules, Kept, ExistingRuleIds, RulesOf
      <3> QED  BY <1>1, <3>1, FS_EmptySet
    <2>2. ASSUME NEW id \in existing, DeleteRule(id)
          PROVE  Cardinality(Kept(tpl)') <= faults'
      <3>1. tpl \in Templates /\ tpl' = tpl /\ pc = "delete"
        BY <2>2 DEF DeleteRule, PlaceInv, TypeOK, Busy
      <3>2. CASE rules' = {r \in rules : r.id # id}
        <4>1. Kept(tpl)' = Kept(tpl)
          BY <2>2, <3>1, <3>2 DEF DeleteRule, Kept, RulesOf
        <4>2. Cardinality(Kept(tpl)) \in Nat
          BY <1>2, <3>1, RulesAreFinite
        <4> QED  BY <1>1, <3>1, <4>1, <4>2
      <3>3. CASE Fault /\ rules' = rules
        <4>1. existing' = existing \ {id} /\ faults' = faults + 1
          BY <2>2, <3>3 DEF DeleteRule, Fault
        <4>2. Cardinality(Kept(tpl)) \in Nat /\ Cardinality(Kept(tpl)) <= faults
          BY <1>2, <3>1, RulesAreFinite
        <4>3. CASE \E r \in RulesOf(tpl) : r.id = id
          <5>1. PICK r \in RulesOf(tpl) : r.id = id
            BY <4>3
          <5>2. Kept(tpl)' = Kept(tpl) \cup {r} /\ r \notin Kept(tpl)
            BY <2>2, <3>1, <3>3, <4>1, <5>1 DEF IdInv, Kept, RulesOf
          <5>3. Cardinality(Kept(tpl)') = Cardinality(Kept(tpl)) + 1
            BY <1>2, <3>1, <5>2, RulesAreFinite
          <5> QED  BY <1>1, <4>1, <4>2, <5>3
        <4>4. CASE ~\E r \in RulesOf(tpl) : r.id = id
          <5>1. Kept(tpl)' = Kept(tpl)
            BY <3>1, <3>3, <4>1, <4>4 DEF Kept, RulesOf
          <5> QED  BY <1>1, <4>2, <5>1
        <4> QED  BY <4>3, <4>4
      <3> QED  BY <2>2, <3>2, <3>3 DEF DeleteRule
    <2>3. CASE EndDelete
      <3>1. Kept(tpl)' = Kept(tpl) /\ pc = "delete"
        BY <2>3 DEF EndDelete, Kept, RulesOf
      <3>2. faults' = faults
        BY <2>3 DEF EndDelete
      <3> QED  BY <3>1, <3>2
    <2>4. CASE UNCHANGED vars
      <3>1. Kept(tpl)' = Kept(tpl) /\ pc' = pc /\ faults' = faults
        BY <2>4 DEF vars, Kept, RulesOf
      <3> QED  BY <3>1
    <2>5. CASE ~ShowRules /\ ~EndDelete /\ ~(\E id \in existing : DeleteRule(id))
                 /\ ~UNCHANGED vars
      <3>1. pc' \notin {"delete", "add"}
        BY <2>5 DEF Next, BeginTask, Applier, ReadState, AddRule, Record, EndTask,
           Failure, ReadStateFails, CallFails, ReplyLost, Crash, Leave, TypeOK
      <3> QED  BY <3>1
    <2> QED  BY <2>1, <2>2, <2>3, <2>4, <2>5
  <1> QED  BY <1>4, <1>5 DEF BoundInv

\* Only the template being applied loses rules, and it has no outcome yet.
LEMMA SuccessStep ==
    ASSUME TypeOK, PlaceInv, IdInv, OpInv, SuccessLasts, [Next]_vars
    PROVE  SuccessLasts'
  <1>1. CASE UNCHANGED <<rules, decision, outcome>>
    BY <1>1 DEF SuccessLasts, ChoiceOf, RulesOf
  <1>2. CASE BeginTask
    BY <1>2 DEF BeginTask, SuccessLasts, ChoiceOf, RulesOf
  <1>3. ASSUME NEW t \in Templates, ReadStateFails(t)
        PROVE  SuccessLasts'
    BY <1>3 DEF ReadStateFails, SuccessLasts, ChoiceOf, RulesOf, TypeOK
  <1>4. ASSUME NEW id \in existing, DeleteRule(id)
        PROVE  SuccessLasts'
    <2>1. outcome[tpl] = "none" /\ UNCHANGED <<outcome, decision>>
      BY <1>4 DEF DeleteRule, PlaceInv, Busy
    <2>2. \A t \in Templates : t # tpl => RulesOf(t)' = RulesOf(t)
      BY <1>4, DeletedRule DEF DeleteRule, RulesOf
    <2> QED  BY <2>1, <2>2 DEF SuccessLasts, ChoiceOf
  <1>5. ASSUME StoreRule, pc = "add", UNCHANGED decision,
               \A t \in Templates : outcome'[t] = "success" => outcome[t] = "success"
        PROVE  SuccessLasts'
    <2>1. tpl \in Templates /\ outcome[tpl] = "none"
      BY <1>5 DEF PlaceInv, TypeOK, Busy
    <2>2. \A t \in Templates : t # tpl => RulesOf(t)' = RulesOf(t)
      BY <1>5, <2>1, StoredRule
    <2> QED  BY <1>5, <2>1, <2>2 DEF SuccessLasts, ChoiceOf
  <1>6. CASE AddRule
    BY <1>5, <1>6 DEF AddRule
  <1>7. CASE Record
    <2>1. tpl \in Templates /\ UNCHANGED <<rules, decision>> /\ pc = "record"
      BY <1>7 DEF Record, PlaceInv, TypeOK, Busy
    <2>2. outcome' = [outcome EXCEPT ![tpl] = IF op = "noop" THEN "skip" ELSE "success"]
      BY <1>7 DEF Record, Leave
    <2>3. \A t \in Templates : t # tpl => outcome'[t] = outcome[t]
      BY <2>1, <2>2 DEF TypeOK
    <2>4. outcome'[tpl] = "success" => op # "noop"
      BY <2>1, <2>2 DEF TypeOK
    <2> QED  BY <2>1, <2>3, <2>4 DEF SuccessLasts, OpInv, ChoiceOf, RulesOf
  <1>8. CASE CallFails
    BY <1>8 DEF CallFails, Leave, SuccessLasts, ChoiceOf, RulesOf, TypeOK
  <1>9. CASE ReplyLost
    <2>1. /\ UNCHANGED decision
          /\ \A t \in Templates : outcome'[t] = "success" => outcome[t] = "success"
      BY <1>9 DEF ReplyLost, Leave, TypeOK
    <2>2. CASE UNCHANGED rules
      BY <2>1, <2>2 DEF SuccessLasts, ChoiceOf, RulesOf
    <2> QED  BY <1>5, <1>9, <2>1, <2>2 DEF ReplyLost
  <1> QED  BY <1>1, <1>2, <1>3, <1>4, <1>6, <1>7, <1>8, <1>9
           DEF Next, Applier, Failure, ReadState, ShowRules, EndDelete, EndTask,
               Crash, vars

-----------------------------------------------------------------------------
\* Rules that are the decided choices have the decided plans, and the other
\* way round when there is one rule and its timeout is the decided one.
LEMMA PlansInForce ==
    ASSUME NEW t \in Templates, InForce(t)
    PROVE  {r.plan : r \in RulesOf(t)} = {c.plan : c \in decision[t]}
  <1>1. \A r : ChoiceOf(r).plan = r.plan
    BY DEF ChoiceOf
  <1>2. \A r \in RulesOf(t) : ChoiceOf(r) \in decision[t]
    BY DEF InForce
  <1>3. \A c \in decision[t] : \E r \in RulesOf(t) : c = ChoiceOf(r)
    BY DEF InForce
  <1> QED  BY <1>1, <1>2, <1>3

\* Without faults a template that is skipped has the decided rule already.
LEMMA SkippedIsInForce ==
    ASSUME TypeOK, PlaceInv, IdInv, BoundInv, faults = 0, pc = "show",
           PlansOnline(tpl),
           NEW timeout \in CurrentTimeouts(tpl),
           OperationFor(tpl, timeout) = "noop"
    PROVE  InForce(tpl)
  <1>1. tpl \in Templates /\ state = latest[tpl]
    BY DEF PlaceInv, TypeOK, Busy
  <1>2. CASE decision[tpl] = {} /\ ~HasCurrentRule(state)
    <2>1. \A r \in RulesOf(tpl) : r.plan \in {}
      BY <1>1, <1>2 DEF PlansOnline
    <2> QED  BY <1>2, <2>1 DEF InForce
  <1>3. CASE /\ decision[tpl] # {} /\ HasCurrentRule(state)
             /\ state.plans = {c.plan : c \in decision[tpl]}
             /\ \/ timeout = {} \/ {c.timeout : c \in decision[tpl]} = {}
                \/ timeout = {c.timeout : c \in decision[tpl]}
    <2>1. PICK c \in Choice : decision[tpl] = {c}
      BY <1>1, <1>3, DecisionParts
    <2>2. {r.plan : r \in RulesOf(tpl)} = {c.plan}
      BY <1>1, <1>3, <2>1 DEF PlansOnline
    <2>3. PICK r \in RulesOf(tpl) : r.timeout \in timeout /\ timeout = {r.timeout}
      BY <2>2 DEF CurrentTimeouts
    <2>4. r.plan = c.plan /\ r.timeout = c.timeout
      BY <1>3, <2>1, <2>2, <2>3
    <2>5. RulesOf(tpl) = {r}
      <3>1. RulesOf(tpl) \in SUBSET rules /\ Cardinality(RulesOf(tpl)) <= 1
        BY <1>1 DEF RulesOf, BoundInv, RulesBoundedByFaults
      <3>2. IsFiniteSet(RulesOf(tpl)) /\ Cardinality(RulesOf(tpl)) \in Nat
        BY <3>1, RulesAreFinite
      <3>3. Cardinality(RulesOf(tpl)) = 1
        BY <3>1, <3>2, <2>3, FS_EmptySet
      <3> QED  BY <2>3, <3>2, <3>3, FS_Singleton
    <2>6. ChoiceOf(r) = c
      BY <2>1, <2>4 DEF ChoiceOf, Choice
    <2> QED  BY <2>1, <2>5, <2>6 DEF InForce
  <1> QED  BY <1>1, <1>2, <1>3, NoopMeansNoChange

\* Without faults table and instance agree, but on the template being applied.
LEMMA FaultlessStep ==
    ASSUME TypeOK, PlaceInv, IdInv, OpInv, BoundInv, FaultlessInv, [Next]_vars
    PROVE  FaultlessInv'
  <1> SUFFICES ASSUME faults' = 0
               PROVE  FaultlessInv'
    BY DEF FaultlessInv
  <1>1. faults = 0 /\ ~Fault
    BY DEF TypeOK, Next, BeginTask, Applier, ReadState, ShowRules, DeleteRule,
           EndDelete, AddRule, Record, EndTask, Failure, ReadStateFails,
           CallFails, ReplyLost, Crash, Fault, vars
  <1>2. \A t \in Templates : outcome[t] \in {"success", "skip"} => InForce(t)
    BY <1>1 DEF FaultlessInv
  <1>3. pc \in {"next", "idle", "show"} =>
            \A t \in Templates : PlansOnline(t)
    BY <1>1 DEF FaultlessInv
  <1>4. CASE BeginTask
    <2>1. /\ pc' = "next" /\ UNCHANGED <<rules, latest>> /\ pc = "idle"
          /\ \A t \in Templates : outcome'[t] \in {"success", "skip"} =>
                outcome'[t] = outcome[t] /\ decision'[t] = decision[t]
      BY <1>4 DEF BeginTask
    <2> QED  BY <1>2, <1>3, <2>1
             DEF FaultlessInv, PlansOnline, InForce, RulesOf, ChoiceOf
  <1>5. CASE EndTask \/ \E t \in Templates : ReadState(t)
    <2>1. /\ pc' \in {"idle", "show"} /\ UNCHANGED <<rules, latest, decision, outcome>>
          /\ pc = "next"
      BY <1>5 DEF EndTask, ReadState
    <2> QED  BY <1>2, <1>3, <2>1
             DEF FaultlessInv, PlansOnline, InForce, RulesOf, ChoiceOf
  <1>6. CASE ShowRules
    <2>1. /\ pc = "show" /\ UNCHANGED <<rules, latest, decision, outcome, tpl>>
          /\ pc' = IF op' = "noop" THEN "record" ELSE "delete"
      BY <1>6 DEF ShowRules
    <2>2. tpl \in Templates
      BY <2>1 DEF PlaceInv, TypeOK, Busy
    <2>3. op' = "noop" => InForce(tpl)
      BY <1>1, <1>3, <1>6, <2>1, <2>2, SkippedIsInForce DEF ShowRules
    <2>4. Kept(tpl)' = {}
      BY <1>6 DEF ShowRules, Kept, ExistingRuleIds, RulesOf
    <2>5. /\ \A t \in Templates : PlansOnline(t)'
          /\ \A t \in Templates : InForce(t)' <=> InForce(t)
          /\ InForce(tpl)' <=> InForce(tpl)
      BY <1>3, <2>1 DEF PlansOnline, InForce, RulesOf, ChoiceOf
    <2> QED  BY <1>2, <2>1, <2>3, <2>4, <2>5 DEF FaultlessInv
  <1>7. ASSUME NEW id \in existing, DeleteRule(id)
        PROVE  FaultlessInv'
    <2>1. /\ pc = "delete" /\ pc' = "delete" /\ op # "noop"
          /\ UNCHANGED <<latest, decision, outcome, tpl, op>>
          /\ rules' = {r \in rules : r.id # id} /\ existing' = existing \ {id}
      BY <1>1, <1>7 DEF DeleteRule, OpInv
    <2>2. tpl \in Templates /\ outcome[tpl] = "none"
      BY <2>1 DEF PlaceInv, TypeOK, Busy
    <2>3. \A t \in Templates : t # tpl => RulesOf(t)' = RulesOf(t)
      BY <2>1, DeletedRule
    <2>4. Kept(tpl)' = {}
      <3>1. Kept(tpl) = {}
        BY <1>1, <2>1 DEF FaultlessInv
      <3> QED  BY <2>1, <3>1 DEF Kept, RulesOf
    <2>5. \A t \in Templates : t # tpl => PlansOnline(t)
      BY <1>1, <2>1 DEF FaultlessInv
    <2>6. \A t \in Templates : t # tpl =>
             (PlansOnline(t)' <=> PlansOnline(t)) /\ (InForce(t)' <=> InForce(t))
      BY <2>1, <2>3 DEF PlansOnline, InForce, ChoiceOf
    <2> QED  BY <1>2, <2>1, <2>2, <2>4, <2>5, <2>6 DEF FaultlessInv
  <1>8. CASE EndDelete
    <2>1. /\ pc = "delete" /\ op # "noop" /\ existing = {}
          /\ pc' = IF op = "reset" THEN "record" ELSE "add"
          /\ UNCHANGED <<rules, latest, decision, outcome, tpl, op, existing>>
      BY <1>8 DEF EndDelete, OpInv
    <2>2. Kept(tpl) = {} /\ \A t \in Templates : t # tpl => PlansOnline(t)
      BY <1>1, <2>1 DEF FaultlessInv
    <2>3. RulesOf(tpl) = {}
      BY <2>1, <2>2 DEF Kept
    <2>4. op = "reset" => InForce(tpl)
      BY <2>1, <2>3 DEF InForce, OpInv
    <2>5. /\ Kept(tpl)' = {}
          /\ \A t \in Templates : t # tpl => PlansOnline(t)'
          /\ \A t \in Templates : InForce(t)' <=> InForce(t)
          /\ InForce(tpl)' <=> InForce(tpl)
      BY <2>1, <2>2 DEF Kept, PlansOnline, InForce, RulesOf, ChoiceOf
    <2> QED  BY <1>2, <2>1, <2>4, <2>5 DEF FaultlessInv
  <1>9. CASE AddRule
    <2>1. /\ pc = "add" /\ pc' = "record" /\ op # "noop" /\ StoreRule
          /\ UNCHANGED <<latest, decision, outcome, tpl, op>>
      BY <1>9 DEF AddRule, OpInv
    <2>2. tpl \in Templates /\ outcome[tpl] = "none" /\ existing = {}
      BY <2>1 DEF PlaceInv, TypeOK, Busy, IdInv
    <2>3. Kept(tpl) = {} /\ \A t \in Templates : t # tpl => PlansOnline(t)
      BY <1>1, <2>1 DEF FaultlessInv
    <2>4. RulesOf(tpl) = {}
      BY <2>2, <2>3 DEF Kept
    <2>5. PICK c \in Choice :
            /\ decision[tpl] = {c} /\ ChoiceOf(NewRule(c)) = c
            /\ \A t \in Templates :
                 /\ t = tpl => RulesOf(t)' = RulesOf(t) \cup {NewRule(c)}
                 /\ t # tpl => RulesOf(t)' = RulesOf(t)
      BY <2>1, <2>2, StoredRule
    <2>6. \A t \in Templates : t = tpl => InForce(t)'
      BY <2>1, <2>4, <2>5 DEF InForce, ChoiceOf
    <2>7. InForce(tpl)'
      BY <2>1, <2>2, <2>6 DEF InForce, RulesOf
    <2>8. \A t \in Templates : t # tpl =>
             (PlansOnline(t)' <=> PlansOnline(t)) /\ (InForce(t)' <=> InForce(t))
      BY <2>1, <2>5 DEF PlansOnline, InForce, ChoiceOf
    <2> QED  BY <1>2, <2>1, <2>2, <2>3, <2>6, <2>7, <2>8 DEF FaultlessInv
  <1>10. CASE Record
    <2>1. /\ pc = "record" /\ pc' = "next" /\ UNCHANGED <<rules, decision>>
          /\ latest' = RecordOperation(latest, tpl, op, {c.plan : c \in decision[tpl]})
          /\ \A t \in Templates : t # tpl => outcome'[t] = outcome[t]
      BY <1>10 DEF Record, Leave, TypeOK
    <2>2. tpl \in Templates /\ InForce(tpl)
      BY <1>1, <2>1 DEF PlaceInv, TypeOK, Busy, FaultlessInv
    <2>3. \A t \in Templates : InForce(t)' <=> InForce(t)
      BY <2>1 DEF InForce, RulesOf, ChoiceOf
    <2>4. ASSUME NEW t \in Templates, t # tpl
          PROVE  PlansOnline(t)'
      <3>1. PlansOnline(t)
        BY <1>1, <2>4 DEF FaultlessInv
      <3>2. latest'[t] = latest[t] /\ RulesOf(t)' = RulesOf(t)
        BY <2>1, <2>4 DEF RecordOperation, TypeOK, RulesOf
      <3> QED  BY <3>1, <3>2 DEF PlansOnline
    <2>5. CASE op = "noop"
      <3>1. \A t \in Templates : PlansOnline(t)
        BY <1>1, <2>5 DEF FaultlessInv
      <3>2. latest' = latest
        BY <2>1, <2>5 DEF RecordOperation
      <3> QED  BY <1>2, <2>1, <2>2, <2>3, <3>1, <3>2
               DEF FaultlessInv, PlansOnline, RulesOf
    <2>6. CASE op # "noop"
      <3>1. latest'[tpl] = [op |-> op, plans |-> {c.plan : c \in decision[tpl]}]
        BY <2>1, <2>2, <2>6 DEF RecordOperation, TypeOK
      <3>2. {r.plan : r \in RulesOf(tpl)} = {c.plan : c \in decision[tpl]}
        BY <2>2, PlansInForce
      <3>3. IF HasCurrentRule(latest'[tpl]) THEN decision[tpl] # {}
                                            ELSE decision[tpl] = {}
        BY <2>1, <2>6, <3>1
           DEF OpInv, HasCurrentRule, TypeOK, Operation, BindingOperation
      <3>4. ASSUME NEW t \in Templates, t = tpl
            PROVE  PlansOnline(t)'
        <4>1. RulesOf(t)' = RulesOf(t)
          BY <2>1 DEF RulesOf
        <4> QED  BY <3>1, <3>2, <3>3, <3>4, <4>1 DEF PlansOnline
      <3> QED  BY <1>2, <2>1, <2>2, <2>3, <2>4, <3>4 DEF FaultlessInv
    <2> QED  BY <2>5, <2>6
  <1>11. CASE UNCHANGED vars
    BY <1>11 DEF FaultlessInv, PlansOnline, InForce, Kept, RulesOf, ChoiceOf, vars
  <1> QED  BY <1>1, <1>4, <1>5, <1>6, <1>7, <1>8, <1>9, <1>10, <1>11
           DEF Next, Applier, Failure, ReadStateFails, CallFails, ReplyLost, Crash

-----------------------------------------------------------------------------
\* The initial state: nothing online, nothing recorded, nothing applied.
LEMMA InitInv == Init => IInv
  <1> SUFFICES ASSUME Init PROVE IInv
    OBVIOUS
  <1>1. NoState \in StateOver(Plans) /\ "noop" \in Operation /\ {} \in Decision
    BY DEF StateOver, Operation, Decision
  <1>2. TypeOK
    BY <1>1, OutlineAssumption DEF Init, TypeOK
  <1>3. \A t \in Templates : RulesOf(t) = {}
    BY DEF Init, RulesOf
  <1>4. PlaceInv /\ OpInv /\ SuccessLasts
    BY DEF Init, PlaceInv, OpInv, SuccessLasts, Busy
  <1>5. IdInv
    BY FS_EmptySet DEF Init, IdInv
  <1>6. BoundInv
    BY <1>3, FS_EmptySet DEF Init, BoundInv, RulesBoundedByFaults
  <1>7. FaultlessInv
    BY <1>3 DEF Init, FaultlessInv, PlansOnline, HasCurrentRule, NoState,
                BindingOperation
  <1> QED  BY <1>2, <1>4, <1>5, <1>6, <1>7 DEF IInv

\* The inductive invariant of the applier, failures between and inside its
\* calls included.
THEOREM InductiveInvariant == Spec => []IInv
  <1>1. IInv /\ [Next]_vars => IInv'
    BY TypeStep, PlaceStep, IdStep, OpStep, BoundStep, FaultlessStep, SuccessStep
       DEF IInv
  <1> QED  BY InitInv, <1>1, PTL DEF Spec

\* Types: rules carry ids the instance has handed out, states are rows the
\* table can hold.
THEOREM TypeCorrect == Spec => []TypeOK
  <1>1. IInv => TypeOK
    BY DEF IInv
  <1> QED  BY InductiveInvariant, <1>1, PTL

\* What an application that reported success has put online stays there until
\* the template is decided again, whatever failed in between.
THEOREM SuccessIsLasting == Spec => []SuccessLasts
  <1>1. IInv => SuccessLasts
    BY DEF IInv
  <1> QED  BY InductiveInvariant, <1>1, PTL

\* A template never has more rules than one and one for each fault: deletions
\* that failed and replies that were lost are the only leaks.
THEOREM LeaksAreFaults == Spec => []RulesBoundedByFaults
  <1>1. IInv => RulesBoundedByFaults
    BY DEF IInv, BoundInv
  <1> QED  BY InductiveInvariant, <1>1, PTL

\* Without faults every template applied or skipped has the one rule decided
\* for it, with its timeout, or none after a DEFAULT decision.
THEOREM DecisionsAreInForce == Spec => []DecisionInForce
  <1>1. IInv => DecisionInForce
    <2> SUFFICES ASSUME IInv, faults = 0, NEW t \in Templates,
                        outcome[t] \in {"success", "skip"}
                 PROVE  /\ {ChoiceOf(r) : r \in RulesOf(t)} = decision[t]
                        /\ Cardinality(RulesOf(t)) <= 1
      BY DEF DecisionInForce
    <2>1. InForce(t)
      BY DEF IInv, FaultlessInv
    <2>2. Cardinality(RulesOf(t)) <= 1 + faults
      BY DEF IInv, BoundInv, RulesBoundedByFaults
    <2> QED  BY <2>1, <2>2 DEF InForce
  <1> QED  BY InductiveInvariant, <1>1, PTL

=============================================================================
