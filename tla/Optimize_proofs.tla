-------------------------- MODULE Optimize_proofs ---------------------------
(***************************************************************************)
(* Theorems about what a task optimizes, searches and decides, for any     *)
(* log, hints, completions, actions, samples, plans, times and bounds.     *)
(* Workload: what is stored is what was asked for.  MctsSearch: a search   *)
(* reports one time per plan, and its cache implements PlanTable (IInv);   *)
(* the hints along a branch are those that were executed (TrailInv); every *)
(* plan is in the result (ResultInv); visits and values are conserved      *)
(* (VisitsInv); and tree, cache and schedule keep their shape (ShapeInv).  *)
(* Decision: a rule never slows a sample down.                             *)
(***************************************************************************)
EXTENDS Workload, MctsSearch, Decision, TLAPS, FiniteSetTheorems, SequenceTheorems

-----------------------------------------------------------------------------
(* Workload *)
Offered == IF source = "slow_log" THEN SlowlogRows ELSE AwrRows

IsRow(r) ==
    r = [statement |-> r.statement, slowest |-> r.slowest, digest |-> r.digest,
         safe |-> r.safe, truth |-> r.truth, plan |-> r.plan]

Digested(r) == [r EXCEPT !.digest = r.truth]

Key(r) == <<r.truth, r.plan>>

IsWanted(r) == wanted = {} \/ r.truth \in wanted

\* The keys a task that goes through has stored.
AskedFor ==
    {Key(r) : r \in {x \in Offered : x.safe /\ IsWanted(x) /\ x \notin undigested}}

\* Before the first row is saved nothing is stored or skipped.
Before == Queries \cup {"table", "filter", "digest"}

RowInv ==
    /\ \A r \in rows : IsRow(r)
    /\ stage0 \in {"digest", "save"} => \A r \in rows : r.safe
    /\ stage0 = "save" => \A r \in rows : r.digest = r.truth
    /\ stage0 \in Before => DOMAIN workload = {} /\ undigested = {}
    /\ \A k \in DOMAIN workload : workload[k].safe /\ k[1] = workload[k].truth

\* The rows in memory are, at each step, the part of the log it should be.
PathInv ==
    /\ stage0 = "table" => source \notin ClickHouse
    /\ source \in ClickHouse =>
          /\ stage0 = "filter" => rows = Offered
          /\ stage0 = "digest" => rows = {r \in Offered : r.safe}
          /\ stage0 = "save" => DOMAIN workload \cup {Key(r) : r \in rows} = AskedFor
          /\ stage0 = "done" => DOMAIN workload = AskedFor

WorkloadInv == RowInv /\ PathInv

-----------------------------------------------------------------------------
LEMMA DigestedRow ==
    ASSUME NEW r, IsRow(r)
    PROVE  /\ IsRow(Digested(r)) /\ Digested(r).digest = r.truth
           /\ Digested(r).safe = r.safe /\ Digested(r).truth = r.truth
           /\ Digested(r).plan = r.plan /\ Key(Digested(r)) = Key(r)
  BY DEF IsRow, Digested, Key

LEMMA GroupIsRow ==
    ASSUME NEW group, NEW digest0
    PROVE  IsRow(RowOf(group, digest0))
  BY DEF RowOf, IsRow

LEMMA OfferedAreRows == \A r \in Offered : IsRow(r)
  BY GroupIsRow DEF Offered, SlowlogRows, AwrRows

LEMMA OfferedStays == ASSUME UNCHANGED source PROVE Offered' = Offered
  <1>1. ASSUME NEW g, NEW d PROVE RowOf(g, d)' = RowOf(g, d)
    BY DEF RowOf
  <1> QED  BY <1>1 DEF Offered, SlowlogRows, AwrRows, RowOf

LEMMA AskedForStays ==
    ASSUME UNCHANGED <<source, wanted, undigested>> PROVE AskedFor' = AskedFor
  BY OfferedStays DEF AskedFor, IsWanted

-----------------------------------------------------------------------------
LEMMA InitWorkloadInv == WorkloadInit => WorkloadInv
  BY DEF WorkloadInit, WorkloadInv, RowInv, PathInv, Before, Queries, ClickHouse

\* Steps of the queries.
LEMMA QueryKeeps ==
    ASSUME WorkloadInv, QuerySucceeds \/ QueryRefused \/ \E oom \in BOOLEAN : QueryFails(oom)
    PROVE  WorkloadInv'
  <1>1. /\ stage0 \in Queries /\ UNCHANGED <<source, wanted, undigested, workload>>
        /\ stage0' \in Queries \cup {"filter", "failed"}
    <2>1. CASE QuerySucceeds
      BY <2>1 DEF QuerySucceeds, Goto0, Queries
    <2>2. CASE QueryRefused
      BY <2>2 DEF QueryRefused, Queries
    <2>3. ASSUME NEW oom \in BOOLEAN, QueryFails(oom)
          PROVE  /\ stage0 \in Queries /\ UNCHANGED <<source, wanted, undigested, workload>>
                 /\ stage0' \in {"load", "fallback", "failed"}
      BY <2>3 DEF QueryFails, Goto0, Queries
    <2> QED  BY <2>1, <2>2, <2>3 DEF Queries
  <1>2. rows' = rows \/ rows' = Offered
    BY DEF QuerySucceeds, QueryRefused, QueryFails, Offered
  <1>3. stage0' = "filter" => rows' = Offered
    BY <1>1 DEF QuerySucceeds, QueryRefused, QueryFails, Offered, Goto0, Queries
  <1>4. RowInv'
    BY <1>1, <1>2, OfferedAreRows DEF WorkloadInv, RowInv, Before, Queries
  <1>5. PathInv'
    BY <1>1, <1>3, OfferedStays DEF PathInv, Queries
  <1> QED  BY <1>4, <1>5 DEF WorkloadInv

LEMMA ReadTableKeeps == ASSUME WorkloadInv, ReadTable PROVE WorkloadInv'
  <1>1. /\ stage0 = "table" /\ source \notin ClickHouse
        /\ UNCHANGED <<source, wanted, undigested, workload>>
        /\ stage0' \in {"filter", "failed", "done"}
    BY DEF ReadTable, Goto0, WorkloadInv, PathInv
  <1>2. \A r \in rows' : IsRow(r)
    <2>1. \/ rows' = rows
          \/ rows' = {RowOf({e}, e.digest) : e \in {x \in Log : x.time >= TimeLimit}}
      BY DEF ReadTable
    <2>2. CASE rows' = rows
      BY <2>2 DEF WorkloadInv, RowInv
    <2>3. CASE rows' = {RowOf({e}, e.digest) : e \in {x \in Log : x.time >= TimeLimit}}
      <3> SUFFICES ASSUME NEW r \in rows' PROVE IsRow(r)
        OBVIOUS
      <3>1. PICK e \in Log : r = RowOf({e}, e.digest)
        BY <2>3
      <3> QED  BY <3>1, GroupIsRow
    <2> QED  BY <2>1, <2>2, <2>3
  <1>3. RowInv'
    BY <1>1, <1>2 DEF WorkloadInv, RowInv, Before
  <1>4. PathInv'
    BY <1>1 DEF PathInv
  <1> QED  BY <1>3, <1>4 DEF WorkloadInv

LEMMA FilterSafeKeeps == ASSUME WorkloadInv, FilterSafe PROVE WorkloadInv'
  <1>1. /\ stage0 = "filter" /\ rows' = {r \in rows : r.safe}
        /\ stage0' = IF rows' = {} THEN "done" ELSE "digest"
        /\ UNCHANGED <<source, wanted, undigested, workload>>
    BY DEF FilterSafe, Goto0
  <1>2. DOMAIN workload = {} /\ undigested = {}
    BY <1>1 DEF WorkloadInv, RowInv, Before
  <1>3. RowInv'
    BY <1>1, <1>2 DEF WorkloadInv, RowInv, Before
  <1>4. PathInv'
    <2>1. source \in ClickHouse => rows' = {r \in Offered : r.safe}
      BY <1>1 DEF WorkloadInv, PathInv
    <2>2. source \in ClickHouse /\ rows' = {} => AskedFor = {}
      BY <2>1 DEF AskedFor
    <2> QED  BY <1>1, <1>2, <2>1, <2>2, OfferedStays, AskedForStays DEF PathInv
  <1> QED  BY <1>3, <1>4 DEF WorkloadInv

LEMMA ComputeDigestsKeeps ==
    ASSUME WorkloadInv, NEW failing \in SUBSET rows, ComputeDigests(failing)
    PROVE  WorkloadInv'
  <1> DEFINE known == {y \in rows : y.digest # "" \/ y \notin failing}
  <1>1. /\ stage0 = "digest" /\ stage0' = "save" /\ rows' = Keep(failing)
        /\ undigested' = {x \in failing : x.digest = ""}
        /\ UNCHANGED <<source, wanted, workload>>
    BY DEF ComputeDigests, Goto0
  <1>2. DOMAIN workload = {} /\ \A r \in rows : IsRow(r) /\ r.safe
    BY <1>1 DEF WorkloadInv, RowInv, Before
  <1>3. rows' = {r \in {Digested(x) : x \in known} : Wanted(r)}
    BY <1>1 DEF Keep, Digested
  <1>4. \A x \in known :
           /\ IsRow(Digested(x)) /\ Digested(x).safe /\ Digested(x).truth = x.truth
           /\ Digested(x).digest = x.truth /\ Key(Digested(x)) = Key(x)
           /\ Wanted(Digested(x)) <=> IsWanted(x)
    <2> SUFFICES ASSUME NEW x \in known
                 PROVE  /\ IsRow(Digested(x)) /\ Digested(x).safe
                        /\ Digested(x).truth = x.truth /\ Digested(x).digest = x.truth
                        /\ Key(Digested(x)) = Key(x)
                        /\ Wanted(Digested(x)) <=> IsWanted(x)
      OBVIOUS
    <2>1. IsRow(x) /\ x.safe
      BY <1>2
    <2> QED  BY <2>1, DigestedRow DEF Wanted, IsWanted
  <1> HIDE DEF known
  <1>5. RowInv'
    <2>1. \A r \in rows' : IsRow(r) /\ r.safe /\ r.digest = r.truth
      <3> SUFFICES ASSUME NEW r \in rows' PROVE IsRow(r) /\ r.safe /\ r.digest = r.truth
        OBVIOUS
      <3>1. PICK x \in known : r = Digested(x)
        BY <1>3
      <3> QED  BY <1>4, <3>1
    <2> QED  BY <1>1, <1>2, <2>1 DEF RowInv, Before, Queries
  <1>6. PathInv'
    <2>1. ASSUME source \in ClickHouse PROVE {Key(r) : r \in rows'} = AskedFor'
      <3>1. rows = {r \in Offered : r.safe}
        BY <1>1, <2>1 DEF WorkloadInv, PathInv
      <3>2. AskedFor' = {Key(r) : r \in {x \in known : IsWanted(x)}}
        <4>1. Offered' = Offered
          BY <1>1, OfferedStays
        <4>2. AskedFor' =
                {Key(r) : r \in {x \in Offered : x.safe /\ IsWanted(x) /\ x \notin undigested'}}
          BY <1>1, <4>1 DEF AskedFor, IsWanted
        <4>3. {x \in Offered : x.safe /\ IsWanted(x) /\ x \notin undigested'}
                = {x \in known : IsWanted(x)}
          BY <1>1, <3>1 DEF known
        <4> QED  BY <4>2, <4>3
      <3>3. {Key(r) : r \in rows'} = {Key(r) : r \in {x \in known : IsWanted(x)}}
        <4>1. ASSUME NEW r \in rows' PROVE \E x \in known : IsWanted(x) /\ Key(r) = Key(x)
          <5>1. PICK x \in known : r = Digested(x) /\ Wanted(r)
            BY <1>3
          <5> QED  BY <1>4, <5>1
        <4>2. ASSUME NEW x \in known, IsWanted(x) PROVE \E r \in rows' : Key(r) = Key(x)
          <5>1. Digested(x) \in rows' /\ Key(Digested(x)) = Key(x)
            BY <1>3, <1>4, <4>2
          <5> QED  BY <5>1
        <4> QED  BY <4>1, <4>2
      <3> QED  BY <3>2, <3>3
    <2> QED  BY <1>1, <1>2, <2>1 DEF PathInv
  <1> QED  BY <1>5, <1>6 DEF WorkloadInv

LEMMA SaveRowKeeps ==
    ASSUME WorkloadInv, NEW r \in rows, SaveRow(r)
    PROVE  WorkloadInv'
  <1>1. /\ stage0 = "save" /\ UNCHANGED <<source, wanted, stage0, undigested>>
        /\ rows' = rows \ {r} /\ r.safe /\ r.digest = r.truth
        /\ <<r.digest, r.plan>> = Key(r)
    BY DEF SaveRow, WorkloadInv, RowInv, Key
  <1>2. /\ DOMAIN workload' = DOMAIN workload \cup {Key(r)}
        /\ workload'[Key(r)] = r
        /\ \A k \in DOMAIN workload \ {Key(r)} : workload'[k] = workload[k]
    BY <1>1 DEF SaveRow
  <1>3. \A k \in DOMAIN workload' : workload'[k].safe /\ k[1] = workload'[k].truth
    BY <1>1, <1>2 DEF WorkloadInv, RowInv, Key
  <1>4. RowInv'
    BY <1>1, <1>3 DEF WorkloadInv, RowInv, Before, Queries
  <1>5. PathInv'
    <2>1. DOMAIN workload' \cup {Key(x) : x \in rows'} = DOMAIN workload \cup {Key(x) : x \in rows}
      BY <1>1, <1>2
    <2> QED  BY <1>1, <2>1, AskedForStays DEF WorkloadInv, PathInv
  <1> QED  BY <1>4, <1>5 DEF WorkloadInv

\* The end of the work, good or bad.
LEMMA EndWorkloadKeeps ==
    ASSUME WorkloadInv, SaveFails \/ Saved \/ RoutinesUnknown \/ UNCHANGED workloadVars
    PROVE  WorkloadInv'
  <1>1. UNCHANGED <<source, wanted, rows, undigested, workload>>
    BY DEF SaveFails, Saved, RoutinesUnknown, workloadVars
  <1>2. \/ stage0' = "failed"
        \/ stage0 = "save" /\ rows = {} /\ stage0' = "done"
        \/ UNCHANGED stage0
    BY DEF SaveFails, Saved, RoutinesUnknown, Goto0, workloadVars
  <1>3. RowInv'
    BY <1>1, <1>2 DEF WorkloadInv, RowInv, Before, Queries
  <1>4. Offered' = Offered /\ AskedFor' = AskedFor
    BY <1>1, OfferedStays, AskedForStays
  <1>5. PathInv'
    BY <1>1, <1>2, <1>4 DEF WorkloadInv, PathInv
  <1> QED  BY <1>3, <1>5 DEF WorkloadInv

-----------------------------------------------------------------------------
\* WorkloadInv: rows are safe once filtered and under their own digest once it is
\* computed (RowInv), and at each step those of the log that belong there
\* (PathInv).
THEOREM WorkloadInvariant == WorkloadSpec => []WorkloadInv
  <1>1. WorkloadInit => WorkloadInv
    BY InitWorkloadInv
  <1>2. WorkloadInv /\ [WorkloadNext]_workloadVars => WorkloadInv'
    <2> SUFFICES ASSUME WorkloadInv, [WorkloadNext]_workloadVars PROVE WorkloadInv'
      OBVIOUS
    <2>1. ASSUME NEW failing \in SUBSET rows, ComputeDigests(failing) PROVE WorkloadInv'
      BY <2>1, ComputeDigestsKeeps
    <2>2. ASSUME NEW r \in rows, SaveRow(r) PROVE WorkloadInv'
      BY <2>2, SaveRowKeeps
    <2> QED  BY <2>1, <2>2, QueryKeeps, ReadTableKeeps, FilterSafeKeeps, EndWorkloadKeeps
             DEF WorkloadNext
  <1> QED  BY <1>1, <1>2, PTL DEF WorkloadSpec

\* Whatever is refused, retried or skipped, what a task stored is safe and under
\* the right template, and a task that went through has stored every wanted one.
THEOREM WorkloadIsStored == WorkloadSpec => []StoredAsAsked
  <1>1. WorkloadInv => StoredAsAsked
    <2> SUFFICES ASSUME WorkloadInv PROVE StoredAsAsked
      OBVIOUS
    <2>1. \A k \in DOMAIN workload : workload[k].safe /\ k[1] = workload[k].truth
      BY DEF WorkloadInv, RowInv
    <2>2. stage0 = "done" /\ source \in ClickHouse => DOMAIN workload = AskedFor
      BY DEF WorkloadInv, PathInv
    <2> QED  BY <2>1, <2>2 DEF StoredAsAsked, AskedFor, Offered, Key, IsWanted
  <1> QED  BY <1>1, WorkloadInvariant, PTL

\* Where the preparation is, and which counts the diagnosis has by then.
PreparationInv ==
    /\ WorkloadTypeOK
    /\ stage0 = "total" => diagnosis = {}
    /\ stage0 = "window" => diagnosis = {"total"}

\* A query is attempted at most MaxAttempts times, and the diagnosis has both counts,
\* the first one, or none, whatever is refused and fails (execute_with_retry).
THEOREM WorkloadTypeCorrect == WorkloadSpec => []WorkloadTypeOK
  <1>1. WorkloadInit => PreparationInv
    BY WorkloadAssumption DEF WorkloadInit, PreparationInv, WorkloadTypeOK, Queries
  <1>2. PreparationInv /\ [WorkloadNext]_workloadVars => PreparationInv'
    <2> SUFFICES ASSUME PreparationInv, [WorkloadNext]_workloadVars PROVE PreparationInv'
      OBVIOUS
    <2>1. CASE QuerySucceeds
      BY <2>1, WorkloadAssumption
         DEF QuerySucceeds, Goto0, PreparationInv, WorkloadTypeOK, Queries
    <2>2. CASE QueryRefused
      BY <2>2, WorkloadAssumption DEF QueryRefused, PreparationInv, WorkloadTypeOK, Queries
    <2>3. ASSUME NEW oom \in BOOLEAN, QueryFails(oom) PROVE PreparationInv'
      BY <2>3, WorkloadAssumption
         DEF QueryFails, Goto0, PreparationInv, WorkloadTypeOK, Queries
    <2>4. ASSUME ReadTable \/ FilterSafe \/ RoutinesUnknown \/ SaveFails \/ Saved
                   \/ \E failing \in SUBSET rows : ComputeDigests(failing)
          PROVE  PreparationInv'
      <3>1. /\ UNCHANGED diagnosis /\ attempt' = 0
            /\ stage0' \in {"filter", "failed", "done", "digest", "save"}
        BY <2>4 DEF ReadTable, FilterSafe, RoutinesUnknown, SaveFails, Saved,
                    ComputeDigests, Goto0
      <3> QED  BY <3>1, WorkloadAssumption DEF PreparationInv, WorkloadTypeOK, Queries
    <2>5. ASSUME UNCHANGED workloadVars \/ \E r \in rows : SaveRow(r)
          PROVE  PreparationInv'
      BY <2>5 DEF SaveRow, workloadVars, PreparationInv, WorkloadTypeOK, Queries
    <2> QED  BY <2>1, <2>2, <2>3, <2>4, <2>5 DEF WorkloadNext
  <1>3. PreparationInv => WorkloadTypeOK
    BY DEF PreparationInv
  <1> QED  BY <1>1, <1>2, <1>3, PTL DEF WorkloadSpec

-----------------------------------------------------------------------------
(* MctsSearch *)

\* A tag is a sequence of numbers and its parent's tag is in the tree.
TagsInv ==
    /\ Root \in DOMAIN tree
    /\ \A n \in DOMAIN tree : n \in Seq(Int) /\ (n # Root => Parent(n) \in DOMAIN tree)

NodesInv ==
    /\ tree \in [DOMAIN tree -> Node]
    /\ rollout \in Nat

MemoryInv ==
    /\ time \in [DOMAIN time -> Nat]
    /\ DefaultPlan \in DOMAIN time

BatchInv ==
    /\ queue \subseteq batch
    /\ batch \subseteq DOMAIN tree
    /\ phase # "execute" => queue = {}
    /\ phase = "warm" => DOMAIN tree = {Root}

\* A node has neither plan nor time before it is its turn.
Fresh(n) == tree[n].plan = None /\ tree[n].elapsed = None

FreshInv ==
    /\ phase \in {"generate", "filter"} => \A n \in batch : Fresh(n)
    /\ phase = "execute" => \A n \in queue : Fresh(n)

\* A node with a plan and a time has the time the cache has.
TimesInv ==
    \A n \in DOMAIN tree :
        tree[n].plan # None /\ tree[n].elapsed # None =>
            /\ tree[n].plan \in DOMAIN time
            /\ tree[n].elapsed = time[tree[n].plan]

TreeInv == TagsInv /\ NodesInv /\ BatchInv /\ FreshInv

IInv == TreeInv /\ MemoryInv /\ TimesInv

-----------------------------------------------------------------------------
(* The tree grows by new nodes only.                                       *)

\* The tag of a child: its parent, its number, and what it is not.
LEMMA ChildTag ==
    ASSUME NEW n \in Seq(Int), NEW i \in Int
    PROVE  /\ Append(n, i) \in Seq(Int)
           /\ Append(n, i) # Root
           /\ Len(Append(n, i)) = Len(n) + 1
           /\ Last(Append(n, i)) = i
           /\ Parent(Append(n, i)) = n
           /\ IsPrefix(n, Append(n, i))
  <1>1. /\ Append(n, i) \in Seq(Int)
        /\ Append(n, i) # Root
        /\ Len(Append(n, i)) = Len(n) + 1
        /\ Last(Append(n, i)) = i
    BY AppendProperties DEF Root, Last
  <1>2. SubSeq(Append(n, i), 1, Len(n)) = n /\ SubSeq(n, 1, Len(n)) = n
    <2>1. SubSeq(Append(n, i), 1, Len(n)) \in Seq(Int)
      BY <1>1, SubSeqProperties
    <2>2. Len(SubSeq(Append(n, i), 1, Len(n))) = Len(n)
      BY <1>1, SubSeqProperties
    <2>3. \A k \in 1 .. Len(n) : SubSeq(Append(n, i), 1, Len(n))[k] = n[k]
      BY <1>1, SubSeqProperties, AppendProperties
    <2>4. SubSeq(n, 1, Len(n)) = n
      BY SubSeqFull
    <2> QED  BY <2>1, <2>2, <2>3, <2>4, SeqEqual
  <1> QED  BY <1>1, <1>2 DEF Parent, Front, IsPrefix

ChildTags(n, actions) == {Append(n, i) : i \in DOMAIN actions}

\* Actions for children n does not have yet.
NewActions(n, actions) ==
    \A i \in DOMAIN actions :
        /\ i \in Int
        /\ actions[i] \in {"A1", "A2", "A3", "A4", "A5", "A6"}
        /\ Append(n, i) \notin DOMAIN tree

\* What a node says of its hints, and of its plan and what came of it.
HintsKept(node, old) ==
    /\ node.own = old.own
    /\ node.deleted = old.deleted
    /\ node.executed = old.executed

AnswerKept(node, old) ==
    /\ node.plan = old.plan
    /\ node.elapsed = old.elapsed
    /\ node.finder = old.finder
    /\ node.reason = old.reason
    /\ node.reward = old.reward

\* A new node has no answer, and its hints are its own.
Blank(node) ==
    /\ node.plan = None /\ node.elapsed = None
    /\ ~node.finder /\ node.reason = None
    /\ node.executed = node.own /\ node.deleted = {}

\* A tree with blank nodes and all that was said of the others.
GrownBy(new, grown) ==
    /\ DOMAIN grown = DOMAIN tree \cup new
    /\ grown \in [DOMAIN grown -> Node]
    /\ \A m \in DOMAIN tree : HintsKept(grown[m], tree[m]) /\ AnswerKept(grown[m], tree[m])
    /\ \A m \in new :
          /\ m \notin DOMAIN tree /\ m \in Seq(Int) /\ m # Root
          /\ Parent(m) \in DOMAIN tree
          /\ Blank(grown[m])

\* WithChildren grows the tree below n.
LEMMA Growth ==
    ASSUME TagsInv, NodesInv, SearchAssumption,
           NEW n \in DOMAIN tree, NEW actions, NewActions(n, actions)
    PROVE  GrownBy(ChildTags(n, actions), WithChildren(n, actions))
  <1> DEFINE grown == WithChildren(n, actions)
             new == ChildTags(n, actions)
  <1>1. DOMAIN grown = DOMAIN tree \cup new
    BY DEF WithChildren, ChildTags
  <1>2. \A m \in DOMAIN tree :
           grown[m] = IF m = n THEN [tree[n] EXCEPT !.status = "expanded"] ELSE tree[m]
    BY DEF WithChildren
  <1>3. \A m \in DOMAIN tree : /\ HintsKept(grown[m], tree[m])
                               /\ AnswerKept(grown[m], tree[m])
                               /\ grown[m] \in Node
    <2>1. tree[n] \in Node
      BY DEF NodesInv
    <2>2. LET expanded == [tree[n] EXCEPT !.status = "expanded"]
          IN  expanded \in Node /\ HintsKept(expanded, tree[n])
                /\ AnswerKept(expanded, tree[n])
      BY <2>1 DEF Node, HintsKept, AnswerKept
    <2>3. \A m \in DOMAIN tree : tree[m] \in Node
      BY DEF NodesInv
    <2> HIDE DEF grown
    <2> QED  BY <1>2, <2>2, <2>3 DEF HintsKept, AnswerKept
  <1>4. ASSUME NEW m \in new
        PROVE  /\ m \notin DOMAIN tree /\ m \in Seq(Int) /\ m # Root /\ Parent(m) = n
               /\ grown[m] \in Node /\ Blank(grown[m])
    <2>1. PICK i \in DOMAIN actions : m = Append(n, i)
      BY DEF ChildTags
    <2>2. m \in Seq(Int) /\ m # Root /\ Last(m) = i /\ Parent(m) = n
      BY <2>1, ChildTag DEF TagsInv, NewActions
    <2>3. m \notin DOMAIN tree
      BY <2>1 DEF NewActions
    <2>4. grown[m] = NewNode(actions[i])
      BY <2>1, <2>2, <2>3 DEF WithChildren, ChildTags
    <2>5. NewNode(actions[i]) \in Node /\ Blank(NewNode(actions[i]))
      BY DEF NewNode, Node, NodesInv, NewActions, Blank
    <2> QED  BY <2>2, <2>3, <2>4, <2>5
  <1>5. grown \in [DOMAIN grown -> Node]
    BY <1>1, <1>3, <1>4 DEF WithChildren
  <1> HIDE DEF grown, new
  <1> QED  BY <1>1, <1>3, <1>4, <1>5 DEF GrownBy, grown, new

\* A leaf has no child to be overwritten by its expansion.
LEMMA LeafHasNoChild ==
    ASSUME TagsInv, NEW n \in DOMAIN tree, IsLeaf(n), NEW i \in Int
    PROVE  Append(n, i) \notin DOMAIN tree
  BY ChildTag DEF TagsInv, IsLeaf, Children

-----------------------------------------------------------------------------
(* Every action preserves the invariant.                                   *)

LEMMA InitInvariant == ASSUME SearchAssumption PROVE SearchInit => IInv
  <1> SUFFICES ASSUME SearchInit PROVE IInv
    OBVIOUS
  <1> USE DEF SearchInit
  <1>1. TagsInv
    <2>1. DOMAIN tree = {Root} /\ Root \in Seq(Int)
      BY EmptySeq DEF Root
    <2> QED  BY <2>1 DEF TagsInv
  <1>2. NodesInv
    BY DEF NodesInv, Node, SearchAssumption
  <1>3. BatchInv /\ FreshInv
    BY DEF BatchInv, FreshInv
  <1>4. MemoryInv
    BY DEF MemoryInv, InitBaseline, SearchAssumption
  <1>5. TimesInv
    BY DEF TimesInv, InitBaseline
  <1> QED  BY <1>1, <1>2, <1>3, <1>4, <1>5 DEF IInv, TreeInv

\* A step that grows the tree keeps the invariant.
LEMMA GrowthKeeps ==
    ASSUME IInv, GrownBy(batch', tree'),
           queue' \subseteq batch',
           phase' \in {"generate", "execute"},
           phase' = "generate" => queue' = {},
           time' = time, rollout' = rollout
    PROVE  IInv'
  <1>1. TagsInv /\ NodesInv /\ BatchInv /\ MemoryInv /\ TimesInv
    BY DEF IInv, TreeInv
  <1>2. TagsInv'
    <2>1. Root \in DOMAIN tree'
      BY <1>1 DEF TagsInv, GrownBy
    <2>2. \A m \in DOMAIN tree' : m \in Seq(Int) /\ (m # Root => Parent(m) \in DOMAIN tree)
      BY <1>1 DEF TagsInv, GrownBy
    <2> QED  BY <2>1, <2>2 DEF TagsInv, GrownBy, Parent, Root
  <1>3. NodesInv'
    BY <1>1 DEF NodesInv, GrownBy
  <1>4. BatchInv'
    BY DEF BatchInv, GrownBy
  <1>5. FreshInv'
    BY DEF FreshInv, Fresh, GrownBy, Blank
  <1>6. MemoryInv'
    BY <1>1 DEF MemoryInv
  <1>7. TimesInv'
    BY <1>1 DEF TimesInv, GrownBy, AnswerKept, Blank
  <1> QED  BY <1>2, <1>3, <1>4, <1>5, <1>6, <1>7 DEF IInv, TreeInv

\* Found bundles become children of the root.
LEMMA WarmStartGrows ==
    ASSUME IInv, SearchAssumption, NEW found \in SUBSET (Bundles \ {{}}),
           NEW bundles \in SetToSeqs(found), WarmStart(bundles), bundles # <<>>
    PROVE  /\ GrownBy(batch', tree')
           /\ queue' = batch' /\ phase' = "execute"
  <1> DEFINE actions == [i \in DOMAIN bundles |-> "A5"]
             grown == WithChildren(Root, actions)
  <1>1. /\ DOMAIN bundles \subseteq Int
        /\ \A i \in DOMAIN bundles : bundles[i] \in SUBSET Hint
    BY DEF SetToSeqs, SearchAssumption
  <1>2. /\ TagsInv /\ NodesInv
        /\ DOMAIN tree = {Root}
    BY DEF IInv, TreeInv, WarmStart, BatchInv
  <1>3. /\ tree' = [n \in DOMAIN grown |->
                      IF n = Root THEN grown[n]
                      ELSE [grown[n] EXCEPT !.own = bundles[Last(n)],
                                            !.executed = bundles[Last(n)]]]
        /\ batch' = {<<i>> : i \in DOMAIN bundles}
        /\ queue' = batch'
        /\ phase' = "execute"
    BY DEF WarmStart
  <1>4. batch' = ChildTags(Root, actions)
    <2>1. \A i \in DOMAIN bundles : Append(Root, i) = <<i>>
      BY DEF Root
    <2> QED  BY <1>3, <2>1 DEF ChildTags
  <1>5. NewActions(Root, actions)
    BY <1>1, <1>2, ChildTag, EmptySeq DEF NewActions, Root
  <1>6. GrownBy(batch', grown)
    BY <1>2, <1>4, <1>5, Growth
  <1>7. tree'[Root] = grown[Root] /\ Root \in DOMAIN tree
    BY <1>2, <1>3, <1>6 DEF GrownBy
  <1>8. ASSUME NEW n \in batch'
        PROVE  tree'[n] \in Node /\ Blank(tree'[n])
    <2>1. grown[n] \in Node /\ Blank(grown[n]) /\ n # Root /\ n \in DOMAIN grown
      BY <1>6 DEF GrownBy
    <2>2. PICK i \in DOMAIN bundles : n = Append(Root, i)
      BY <1>4 DEF ChildTags
    <2>3. bundles[Last(n)] \in SUBSET Hint
      BY <2>2, <1>1, ChildTag, EmptySeq DEF Root
    <2>4. tree'[n] = [grown[n] EXCEPT !.own = bundles[Last(n)],
                                      !.executed = bundles[Last(n)]]
      BY <2>1, <1>3
    <2> HIDE DEF grown
    <2> QED  BY <2>1, <2>3, <2>4 DEF Node, Blank
  <1>9. DOMAIN tree' = DOMAIN grown
    BY <1>3
  <1> HIDE DEF grown
  <1>10. tree' \in [DOMAIN tree' -> Node]
    BY <1>2, <1>3, <1>6, <1>7, <1>8, <1>9 DEF GrownBy
  <1> QED  BY <1>2, <1>3, <1>6, <1>7, <1>8, <1>9, <1>10 DEF GrownBy

LEMMA WarmStartKeeps ==
    ASSUME IInv, SearchAssumption, NEW found \in SUBSET (Bundles \ {{}}),
           NEW bundles \in SetToSeqs(found), WarmStart(bundles)
    PROVE  IInv' /\ time' = time
  <1>1. time' = time /\ rollout' = rollout
    BY DEF WarmStart, planCache
  <1>2. CASE bundles = <<>>
    <2>1. /\ TagsInv /\ NodesInv /\ MemoryInv /\ TimesInv /\ BatchInv /\ FreshInv
          /\ phase = "warm" /\ queue = {}
          /\ phase' = "rollout" /\ UNCHANGED <<tree, batch, queue>>
      BY <1>2 DEF IInv, TreeInv, WarmStart, BatchInv
    <2>2. TagsInv' /\ NodesInv' /\ MemoryInv'
      BY <1>1, <2>1 DEF TagsInv, NodesInv, MemoryInv, Parent, Root
    <2>3. BatchInv' /\ FreshInv'
      BY <2>1 DEF BatchInv, FreshInv, Root
    <2>4. TimesInv'
      BY <1>1, <2>1 DEF TimesInv
    <2> QED  BY <1>1, <2>2, <2>3, <2>4 DEF IInv, TreeInv
  <1>3. CASE bundles # <<>>
    BY <1>1, <1>3, WarmStartGrows, GrowthKeeps
  <1> QED  BY <1>1, <1>2, <1>3

\* A leaf gets a child for each action it may take.
LEMMA ExpandGrows ==
    ASSUME IInv, SearchAssumption, NEW leaf \in DOMAIN tree, Expand(leaf)
    PROVE  /\ GrownBy(batch', tree')
           /\ phase' = "generate"
           /\ queue' = {} /\ time' = time /\ rollout' = rollout
  <1> DEFINE actions == AllowedActions(leaf)
  <1>1. \A i \in DOMAIN actions :
           i \in Int /\ actions[i] \in {"A1", "A2", "A3", "A4", "A5", "A6"}
    BY ElementOfSeq DEF AllowedActions, Restrict, SearchAssumption
  <1>2. /\ tree' = WithChildren(leaf, actions)
        /\ batch' = ChildTags(leaf, actions)
        /\ phase' = "generate"
        /\ queue' = queue /\ time' = time /\ rollout' = rollout
        /\ IsLeaf(leaf) /\ queue = {}
    BY DEF Expand, planCache, ChildTags, IInv, TreeInv, BatchInv
  <1> HIDE DEF actions
  <1>3. NewActions(leaf, actions)
    BY <1>1, <1>2, LeafHasNoChild DEF NewActions, IInv, TreeInv
  <1>4. GrownBy(batch', tree')
    BY <1>2, <1>3, Growth DEF IInv, TreeInv
  <1> QED  BY <1>2, <1>4

LEMMA ExpandKeeps ==
    ASSUME IInv, SearchAssumption, NEW leaf \in DOMAIN tree, Expand(leaf)
    PROVE  IInv' /\ time' = time
  BY ExpandGrows, GrowthKeeps

\* A step that changes no tag keeps what is said of tags and types.
LEMMA ShapeKeeps ==
    ASSUME TagsInv, NodesInv, DOMAIN tree' = DOMAIN tree,
           tree' \in [DOMAIN tree -> Node], rollout' \in Nat
    PROVE  TagsInv' /\ NodesInv'
  BY DEF TagsInv, NodesInv, Parent, Root

\* A completion fills in hints, never a plan or a time.
LEMMA FilledNode ==
    ASSUME SearchAssumption, NEW n, tree[n] \in Node, NEW output \in Outputs \cup {None}
    PROVE  /\ Filled(n, output) \in Node
           /\ Filled(n, output).plan = tree[n].plan
           /\ Filled(n, output).elapsed = tree[n].elapsed
           /\ Filled(n, output).finder = tree[n].finder
           /\ Filled(n, output).reason \in {tree[n].reason, "llm_error"}
  <1> DEFINE node == tree[n]
             parsed == IF output = None THEN {} ELSE output
             before == AncestorHints(n)
             all == IF node.action \in {"A5", "A6"} THEN parsed ELSE Override(before, parsed)
             filled == [node EXCEPT !.own = all \ before, !.deleted = before \ all,
                                    !.executed = all]
  <1>1. parsed \subseteq Hint /\ before \subseteq Hint
    BY DEF SearchAssumption, AncestorHints
  <1>2. all \subseteq Hint
    BY <1>1 DEF Override
  <1>3. Filled(n, output) = IF output = None
                              THEN [filled EXCEPT !.status = "terminal", !.reason = "llm_error"]
                              ELSE filled
    BY DEF Filled
  <1> HIDE DEF parsed, before, all
  <1>4. filled \in Node /\ AnswerKept(filled, tree[n])
    BY <1>1, <1>2 DEF Node, AnswerKept
  <1> HIDE DEF filled
  <1>5. LET failed == [filled EXCEPT !.status = "terminal", !.reason = "llm_error"]
        IN  /\ failed \in Node /\ failed.plan = filled.plan
            /\ failed.elapsed = filled.elapsed /\ failed.finder = filled.finder
            /\ failed.reason = "llm_error"
    BY <1>4 DEF Node, Reason
  <1> QED  BY <1>3, <1>4, <1>5 DEF AnswerKept

LEMMA GenerateKeeps ==
    ASSUME IInv, SearchAssumption, Generate
    PROVE  IInv' /\ time' = time
  <1>1. /\ TagsInv /\ NodesInv /\ MemoryInv /\ TimesInv /\ BatchInv /\ FreshInv
        /\ phase = "generate" /\ phase' = "filter"
        /\ UNCHANGED <<batch, queue, time, rollout>>
    BY DEF IInv, TreeInv, Generate, planCache
  <1>2. PICK output \in [batch -> Outputs \cup {None}] :
           tree' = [n \in DOMAIN tree |->
                      IF n \in batch THEN Filled(n, output[n]) ELSE tree[n]]
    BY DEF Generate
  <1>3. ASSUME NEW n \in DOMAIN tree
        PROVE  /\ tree'[n] \in Node
               /\ tree'[n].plan = tree[n].plan /\ tree'[n].elapsed = tree[n].elapsed
    <2>1. tree[n] \in Node
      BY <1>1 DEF NodesInv
    <2>2. CASE n \in batch
      <3>1. output[n] \in Outputs \cup {None}
        BY <2>2
      <3>2. tree'[n] = Filled(n, output[n])
        BY <2>2, <1>2
      <3> QED  BY <2>1, <3>1, <3>2, FilledNode
    <2>3. CASE n \notin batch
      BY <2>1, <2>3, <1>2
    <2> QED  BY <2>2, <2>3
  <1>4. DOMAIN tree' = DOMAIN tree /\ tree' \in [DOMAIN tree -> Node]
    BY <1>2, <1>3
  <1>5. TagsInv' /\ NodesInv'
    BY <1>1, <1>4, ShapeKeeps DEF NodesInv
  <1>6. BatchInv'
    BY <1>1, <1>4 DEF BatchInv
  <1>7. FreshInv'
    BY <1>1, <1>3 DEF FreshInv, Fresh, BatchInv
  <1>8. MemoryInv' /\ TimesInv'
    BY <1>1, <1>3, <1>4 DEF MemoryInv, TimesInv
  <1> QED  BY <1>1, <1>5, <1>6, <1>7, <1>8 DEF IInv, TreeInv

\* A node that is not executed has no plan afterwards.
LEMMA SettledNode ==
    ASSUME SearchAssumption, NEW n, tree[n] \in Node
    PROVE  Settled(n) \in Node /\ Settled(n).plan = tree[n].plan
  BY DEF Settled, Node, Reason, NegativeReward, SearchAssumption

LEMMA FilterKeeps ==
    ASSUME IInv, SearchAssumption, Filter
    PROVE  IInv' /\ time' = time
  <1>1. /\ TagsInv /\ NodesInv /\ MemoryInv /\ TimesInv /\ BatchInv /\ FreshInv
        /\ phase = "filter" /\ phase' = "execute"
        /\ queue' = {n \in batch : ~IsTerminal(n) /\ ~Unchanged(n)}
        /\ UNCHANGED <<batch, time, rollout>>
    BY DEF IInv, TreeInv, Filter, planCache
  <1>2. tree' = [n \in DOMAIN tree |->
                   IF n \in batch /\ ~IsTerminal(n) /\ Unchanged(n)
                     THEN Settled(n) ELSE tree[n]]
    BY DEF Filter
  <1>3. ASSUME NEW n \in DOMAIN tree
        PROVE  /\ tree'[n] \in Node
               /\ tree'[n].plan = tree[n].plan
               /\ n \in batch => tree[n].plan = None
               /\ n \notin batch \/ n \in queue' => tree'[n] = tree[n]
    <2>1. tree[n] \in Node
      BY <1>1 DEF NodesInv
    <2>2. tree'[n] \in {tree[n], Settled(n)}
      BY <1>2
    <2> QED  BY <1>1, <1>2, <2>1, <2>2, SettledNode DEF FreshInv, Fresh
  <1>4. DOMAIN tree' = DOMAIN tree /\ tree' \in [DOMAIN tree -> Node]
    BY <1>2, <1>3
  <1>5. TagsInv' /\ NodesInv'
    BY <1>1, <1>4, ShapeKeeps DEF NodesInv
  <1>6. BatchInv'
    BY <1>1, <1>4 DEF BatchInv
  <1>7. FreshInv'
    BY <1>1, <1>3 DEF FreshInv, Fresh, BatchInv
  <1>8. MemoryInv'
    BY <1>1 DEF MemoryInv
  <1>9. TimesInv'
    BY <1>1, <1>3, <1>4 DEF TimesInv
  <1> QED  BY <1>1, <1>5, <1>6, <1>7, <1>8, <1>9 DEF IInv, TreeInv

-----------------------------------------------------------------------------
(* Executing a node.                                                       *)

\* The plan a node is executed under is a plan.
LEMMA PlanOfNode ==
    ASSUME IInv, SearchAssumption, NEW n \in Foremost
    PROVE  /\ n \in DOMAIN tree /\ tree[n] \in Node /\ n \in queue
           /\ PlanOf[tree[n].executed] \in Plan
  BY DEF IInv, TreeInv, BatchInv, NodesInv, Node, Foremost, SearchAssumption

\* A node may become what it likes, as long as its time is the cache's.
LEMMA ExecutedKeeps ==
    ASSUME IInv, SearchAssumption, NEW n \in Foremost, NEW node \in Node, Executed(n, node),
           MemoryInv',
           \A p \in DOMAIN time : p \in DOMAIN time' /\ time'[p] = time[p],
           node.plan # None /\ node.elapsed # None =>
               node.plan \in DOMAIN time' /\ node.elapsed = time'[node.plan]
    PROVE  IInv'
  <1>1. /\ TagsInv /\ NodesInv /\ TimesInv /\ BatchInv /\ FreshInv
        /\ n \in DOMAIN tree
        /\ phase = "execute"
        /\ tree' = [tree EXCEPT ![n] = node]
        /\ queue' = queue \ {n}
        /\ UNCHANGED <<batch, phase, rollout>>
    BY PlanOfNode DEF IInv, TreeInv, Executed
  <1>2. \A m \in DOMAIN tree : tree'[m] = IF m = n THEN node ELSE tree[m]
    BY <1>1
  <1>3. DOMAIN tree' = DOMAIN tree /\ tree' \in [DOMAIN tree -> Node]
    BY <1>1 DEF NodesInv
  <1>4. TagsInv' /\ NodesInv'
    BY <1>1, <1>3, ShapeKeeps DEF NodesInv
  <1>5. BatchInv'
    BY <1>1, <1>3 DEF BatchInv
  <1>6. FreshInv'
    BY <1>1, <1>2 DEF FreshInv, Fresh, BatchInv
  <1>7. TimesInv'
    BY <1>1, <1>2, <1>3 DEF TimesInv
  <1> QED  BY <1>4, <1>5, <1>6, <1>7 DEF IInv, TreeInv

LEMMA RewardedNode ==
    ASSUME SearchAssumption, NEW n, tree[n] \in Node, NEW p \in Plan, NEW t \in Nat
    PROVE  LET node == Rewarded(n, p, t)
           IN  /\ node \in Node
               /\ node.plan = p /\ node.elapsed = t
               /\ node.reward \in {-1, 0, 1} /\ node.finder = tree[n].finder
               /\ HintsKept(node, tree[n])
  <1> DEFINE node == [tree[n] EXCEPT !.plan = p, !.elapsed = t, !.reward = Reward(t)]
  <1>1. /\ node \in Node /\ node.plan = p /\ node.elapsed = t
        /\ node.reward \in {-1, 0, 1} /\ node.finder = tree[n].finder
        /\ HintsKept(node, tree[n])
    BY DEF Node, Reward, HintsKept, SearchAssumption
  <1>2. \/ Rewarded(n, p, t) = node
        \/ \E r \in {"final_answer", "depth_exceeded"} :
              Rewarded(n, p, t) = [node EXCEPT !.status = "terminal", !.reason = r]
    BY DEF Rewarded
  <1> HIDE DEF node
  <1>3. ASSUME NEW r \in {"final_answer", "depth_exceeded"}
        PROVE  LET end == [node EXCEPT !.status = "terminal", !.reason = r]
               IN  /\ end \in Node /\ end.plan = p /\ end.elapsed = t
                   /\ end.reward = node.reward /\ end.finder = node.finder
                   /\ HintsKept(end, node)
    BY <1>1 DEF Node, Reason, HintsKept
  <1> QED  BY <1>1, <1>2, <1>3 DEF HintsKept

LEMMA ExplainFailsKeeps ==
    ASSUME IInv, SearchAssumption, NEW n \in Foremost, ExplainFails(n)
    PROVE  IInv' /\ time' = time
  <1> DEFINE node == [tree[n] EXCEPT !.status = "terminal", !.reason = "db_execution_error"]
  <1>1. Executed(n, node) /\ time' = time
    BY DEF ExplainFails, planCache
  <1>2. tree[n] \in Node /\ tree[n].plan = None
    BY <1>1, PlanOfNode DEF IInv, TreeInv, FreshInv, Fresh, Executed
  <1>3. node \in Node /\ node.plan = None
    BY <1>2 DEF Node, Reason
  <1>4. MemoryInv'
    BY <1>1 DEF IInv, MemoryInv
  <1> HIDE DEF node
  <1> QED  BY <1>1, <1>3, <1>4, ExecutedKeeps

LEMMA IneffectiveKeeps ==
    ASSUME IInv, SearchAssumption, NEW n \in Foremost, Ineffective(n)
    PROVE  IInv' /\ time' = time
  <1> DEFINE p == PlanOf[tree[n].executed]
             node == [tree[n] EXCEPT !.status = "terminal", !.reason = "ineffective_hints",
                                     !.reward = 0, !.plan = p,
                                     !.elapsed = tree[Parent(n)].elapsed]
  <1>1. Executed(n, node) /\ time' = time /\ Len(n) > 1 /\ tree[Parent(n)].plan = p
    BY DEF Ineffective, SamePlanAsParent, planCache
  <1>2. tree[n] \in Node /\ p \in Plan
    BY PlanOfNode
  <1>3. n # Root
    BY <1>1 DEF Root
  <1>4. Parent(n) \in DOMAIN tree
    BY <1>3, PlanOfNode DEF IInv, TreeInv, TagsInv
  <1>5. tree[Parent(n)].elapsed \in Nat \cup {None}
    BY <1>4 DEF IInv, TreeInv, NodesInv, Node
  <1> HIDE DEF p
  <1>6. node \in Node /\ node.plan = p /\ node.elapsed = tree[Parent(n)].elapsed
    BY <1>2, <1>5 DEF Node, Reason
  <1>7. p # None
    BY <1>2 DEF SearchAssumption
  <1>8. node.elapsed # None => p \in DOMAIN time /\ node.elapsed = time[p]
    BY <1>1, <1>4, <1>6, <1>7 DEF IInv, TimesInv
  <1>9. MemoryInv'
    BY <1>1 DEF IInv, MemoryInv
  <1> HIDE DEF node
  <1> QED  BY <1>1, <1>6, <1>8, <1>9, ExecutedKeeps

LEMMA CacheHitKeeps ==
    ASSUME IInv, SearchAssumption, NEW n \in Foremost, CacheHit(n)
    PROVE  IInv' /\ time' = time
  <1> DEFINE p == PlanOf[tree[n].executed]
  <1>1. Executed(n, Rewarded(n, p, time[p])) /\ time' = time /\ p \in DOMAIN time
    BY DEF CacheHit, Lookup
  <1>2. tree[n] \in Node /\ p \in Plan
    BY PlanOfNode
  <1>3. time[p] \in Nat
    BY <1>1 DEF IInv, MemoryInv
  <1>4. MemoryInv'
    BY <1>1 DEF IInv, MemoryInv
  <1> HIDE DEF p
  <1>5. /\ Rewarded(n, p, time[p]) \in Node
        /\ Rewarded(n, p, time[p]).plan = p /\ Rewarded(n, p, time[p]).elapsed = time[p]
    BY <1>2, <1>3, RewardedNode
  <1> QED  BY <1>1, <1>4, <1>5, ExecutedKeeps

LEMMA MeasureKeeps ==
    ASSUME IInv, SearchAssumption, NEW n \in Foremost, NEW t \in Times \cup {TimeoutTime},
           Measure(n, t)
    PROVE  IInv' /\ \E p \in Plan : Table!Learn(p, t)
  <1> DEFINE p == PlanOf[tree[n].executed]
             node == [Rewarded(n, p, t) EXCEPT !.finder = TRUE]
  <1>1. /\ Executed(n, node)
        /\ p \notin DOMAIN time
        /\ time' = [q \in DOMAIN time \cup {p} |-> IF q = p THEN t ELSE time[q]]
    BY DEF Measure, Lookup
  <1>2. tree[n] \in Node /\ p \in Plan /\ t \in Nat
    BY PlanOfNode DEF SearchAssumption
  <1> HIDE DEF p
  <1>3. /\ Rewarded(n, p, t) \in Node
        /\ Rewarded(n, p, t).plan = p /\ Rewarded(n, p, t).elapsed = t
    BY <1>2, RewardedNode
  <1>4. node \in Node /\ node.plan = p /\ node.elapsed = t
    BY <1>3 DEF Node
  <1>5. p \in DOMAIN time' /\ time'[p] = t
    BY <1>1
  <1>6. \A q \in DOMAIN time : q \in DOMAIN time' /\ time'[q] = time[q]
    BY <1>1
  <1>7. MemoryInv'
    BY <1>1, <1>2 DEF IInv, MemoryInv
  <1>8. Table!Learn(p, t)
    BY <1>1, <1>2 DEF Table!Learn
  <1> HIDE DEF node
  <1> QED  BY <1>1, <1>2, <1>4, <1>5, <1>6, <1>7, <1>8, ExecutedKeeps

LEMMA ExecutionFailsKeeps ==
    ASSUME IInv, SearchAssumption, NEW n \in Foremost, ExecutionFails(n)
    PROVE  IInv' /\ time' = time
  <1> DEFINE p == PlanOf[tree[n].executed]
             node == [tree[n] EXCEPT !.status = "terminal", !.plan = p,
                                     !.reason = "db_execution_error"]
  <1>1. Executed(n, node) /\ time' = time
    BY DEF ExecutionFails, planCache
  <1>2. tree[n] \in Node /\ tree[n].elapsed = None /\ p \in Plan
    BY <1>1, PlanOfNode DEF IInv, TreeInv, FreshInv, Fresh, Executed
  <1> HIDE DEF p
  <1>3. node \in Node /\ node.elapsed = None
    BY <1>2 DEF Node, Reason
  <1>4. MemoryInv'
    BY <1>1 DEF IInv, MemoryInv
  <1> HIDE DEF node
  <1> QED  BY <1>1, <1>3, <1>4, ExecutedKeeps

-----------------------------------------------------------------------------
(* The hints along a branch.                                               *)

\* All prefixes of a tag are tags, and while a step waits for its completions
\* nothing is below its children.
PrefixInv ==
    /\ \A n \in DOMAIN tree : \A i \in 0 .. Len(n) : SubSeq(n, 1, i) \in DOMAIN tree
    /\ phase = "generate" =>
          \A n \in DOMAIN tree : \A i \in 0 .. Len(n) - 1 : SubSeq(n, 1, i) \notin batch
    /\ phase = "generate" => Root \notin batch

\* The changes along a branch of a tree, replayed down to n, and those a child
\* of n's parent inherits.
Replay(nodes, n) ==
    {h \in Hint :
        \E i \in 1 .. Len(n) :
            /\ h \in nodes[SubSeq(n, 1, i)].own
            /\ \A j \in i+1 .. Len(n) : h \notin nodes[SubSeq(n, 1, j)].deleted}

Inherited(nodes, n) ==
    {h \in Hint :
        \E i \in 1 .. Len(n) - 1 :
            /\ h \in nodes[SubSeq(n, 1, i)].own
            /\ \A j \in i+1 .. Len(n) - 1 : h \notin nodes[SubSeq(n, 1, j)].deleted}

ReplayInv ==
    \A n \in DOMAIN tree :
        (phase = "generate" => n \notin batch) => Replay(tree, n) = tree[n].executed

TrailInv == PrefixInv /\ ReplayInv

\* A prefix of a prefix is a prefix.
LEMMA PrefixOfPrefix ==
    ASSUME NEW s \in Seq(Int), NEW k \in 0 .. Len(s), NEW i \in 0 .. k
    PROVE  /\ SubSeq(s, 1, k) \in Seq(Int)
           /\ Len(SubSeq(s, 1, k)) = k
           /\ SubSeq(SubSeq(s, 1, k), 1, i) = SubSeq(s, 1, i)
  <1> DEFINE p == SubSeq(s, 1, k)
  <1>1. p \in Seq(Int) /\ Len(p) = k /\ \A j \in 1 .. k : p[j] = s[j]
    BY SubSeqProperties
  <1> HIDE DEF p
  <1>2. SubSeq(p, 1, i) \in Seq(Int) /\ SubSeq(s, 1, i) \in Seq(Int)
    BY <1>1, SubSeqProperties
  <1>3. Len(SubSeq(p, 1, i)) = i /\ Len(SubSeq(s, 1, i)) = i
    BY <1>1, SubSeqProperties
  <1>4. \A j \in 1 .. i : SubSeq(p, 1, i)[j] = p[j] /\ SubSeq(s, 1, i)[j] = s[j]
    BY <1>1, SubSeqProperties
  <1>5. SubSeq(p, 1, i) = SubSeq(s, 1, i)
    BY <1>1, <1>2, <1>3, <1>4, SeqEqual
  <1> QED  BY <1>1, <1>5 DEF p

\* What the children of n inherit is the replay down to n.
LEMMA InheritedIsReplay ==
    ASSUME NEW nodes, NEW n \in Seq(Int)
    PROVE  Inherited(nodes, Append(n, 1)) = Replay(nodes, n)
  <1> DEFINE c == Append(n, 1)
             Above(i) == nodes[SubSeq(c, 1, i)]
             Here(i) == nodes[SubSeq(n, 1, i)]
  <1>1. /\ c \in Seq(Int) /\ Len(c) = Len(n) + 1 /\ Parent(c) = n
        /\ Len(n) \in Nat
    BY ChildTag, LenProperties
  <1>2. SubSeq(c, 1, Len(n)) = n
    BY <1>1 DEF Parent, Front
  <1>3. \A i \in 1 .. Len(n) : Above(i) = Here(i)
    <2> HIDE DEF c
    <2>1. \A i \in 1 .. Len(n) : SubSeq(c, 1, i) = SubSeq(n, 1, i)
      BY <1>1, <1>2, PrefixOfPrefix
    <2> QED  BY <2>1
  <1>4. ASSUME NEW h \in Hint
        PROVE  h \in Inherited(nodes, c) <=> h \in Replay(nodes, n)
    <2>1. h \in Inherited(nodes, c) <=>
             \E i \in 1 .. Len(n) :
                 h \in Above(i).own /\ \A j \in i+1 .. Len(n) : h \notin Above(j).deleted
      <3>1. Len(c) - 1 = Len(n)
        BY <1>1
      <3> HIDE DEF c
      <3> QED  BY <3>1 DEF Inherited
    <2>2. h \in Replay(nodes, n) <=>
             \E i \in 1 .. Len(n) :
                 h \in Here(i).own /\ \A j \in i+1 .. Len(n) : h \notin Here(j).deleted
      BY DEF Replay
    <2> HIDE DEF Above, Here
    <2> QED  BY <1>1, <1>3, <2>1, <2>2
  <1> HIDE DEF c
  <1>5. Inherited(nodes, c) = Replay(nodes, n)
    BY <1>4 DEF Inherited, Replay
  <1> QED  BY <1>5 DEF c

\* A node replays its own change after those of its ancestors.
LEMMA ReplayStep ==
    ASSUME NEW nodes, NEW n \in Seq(Int), n # Root, nodes[n].own \subseteq Hint
    PROVE  Replay(nodes, n) = nodes[n].own \cup (Inherited(nodes, n) \ nodes[n].deleted)
  <1>1. Len(n) \in Nat \ {0} /\ SubSeq(n, 1, Len(n)) = n
    BY SubSeqFull, EmptySeq DEF Root
  <1>2. ASSUME NEW h \in Hint
        PROVE  h \in Replay(nodes, n) <=>
                  h \in nodes[n].own \/ (h \in Inherited(nodes, n) /\ h \notin nodes[n].deleted)
    <2> DEFINE Own(i) == h \in nodes[SubSeq(n, 1, i)].own
               Del(i) == h \in nodes[SubSeq(n, 1, i)].deleted
    <2>1. h \in Replay(nodes, n) <=>
             \E i \in 1 .. Len(n) : Own(i) /\ \A j \in i+1 .. Len(n) : ~Del(j)
      BY DEF Replay
    <2>2. h \in Inherited(nodes, n) <=>
             \E i \in 1 .. Len(n) - 1 : Own(i) /\ \A j \in i+1 .. Len(n) - 1 : ~Del(j)
      BY DEF Inherited
    <2>3. /\ Own(Len(n)) <=> h \in nodes[n].own
          /\ Del(Len(n)) <=> h \in nodes[n].deleted
      BY <1>1
    <2> HIDE DEF Own, Del
    <2>4. Len(n) \in Nat \ {0}
      BY <1>1
    <2>5. ASSUME NEW i \in 1 .. Len(n), Own(i), \A j \in i+1 .. Len(n) : ~Del(j)
          PROVE  Own(Len(n)) \/ (h \in Inherited(nodes, n) /\ ~Del(Len(n)))
      <3>1. CASE i = Len(n)
        BY <2>5, <3>1 DEF Own
      <3>2. CASE i # Len(n)
        <4>1. i \in 1 .. Len(n) - 1 /\ Len(n) \in i+1 .. Len(n)
          BY <2>4, <3>2
        <4>2. \A j \in i+1 .. Len(n) - 1 : j \in i+1 .. Len(n)
          BY <2>4
        <4> QED  BY <2>2, <2>5, <4>1, <4>2
      <3> QED  BY <3>1, <3>2
    <2>6. Own(Len(n)) => h \in Replay(nodes, n)
      <3>1. Len(n) \in 1 .. Len(n) /\ Len(n)+1 .. Len(n) = {}
        BY <2>4
      <3> QED  BY <2>1, <3>1
    <2>7. ASSUME NEW i \in 1 .. Len(n) - 1, Own(i), \A j \in i+1 .. Len(n) - 1 : ~Del(j),
                 ~Del(Len(n))
          PROVE  h \in Replay(nodes, n)
      <3>1. i \in 1 .. Len(n)
        BY <2>4
      <3>2. \A j \in i+1 .. Len(n) : j \in i+1 .. Len(n) - 1 \/ j = Len(n)
        BY <2>4
      <3> QED  BY <2>1, <2>7, <3>1, <3>2
    <2> QED  BY <2>1, <2>2, <2>3, <2>5, <2>6, <2>7
  <1>3. Replay(nodes, n) \subseteq Hint /\ Inherited(nodes, n) \subseteq Hint
    BY DEF Replay, Inherited
  <1> DEFINE below == Replay(nodes, n)
             above == Inherited(nodes, n)
             own == nodes[n].own
             gone == nodes[n].deleted
  <1>4. /\ below \subseteq Hint /\ above \subseteq Hint /\ own \subseteq Hint
        /\ \A h \in Hint : h \in below <=> h \in own \/ (h \in above /\ h \notin gone)
    BY <1>2, <1>3
  <1> HIDE DEF below, above, own, gone
  <1>5. below = own \cup (above \ gone)
    BY <1>4
  <1> QED  BY <1>5 DEF below, above, own, gone

\* Both depend on the hints along the branch only.
LEMMA ReplayFrame ==
    ASSUME NEW n, NEW nodes, NEW old,
           \A i \in 1 .. Len(n) : HintsKept(nodes[SubSeq(n, 1, i)], old[SubSeq(n, 1, i)])
    PROVE  Replay(nodes, n) = Replay(old, n)
  BY DEF Replay, HintsKept

LEMMA InheritedFrame ==
    ASSUME NEW n, NEW nodes, NEW old,
           \A i \in 1 .. Len(n) - 1 :
               HintsKept(nodes[SubSeq(n, 1, i)], old[SubSeq(n, 1, i)])
    PROVE  Inherited(nodes, n) = Inherited(old, n)
  BY DEF Inherited, HintsKept

\* A tree that grew is still closed under prefixes, and its new nodes have
\* nothing below them.
LEMMA PrefixesOfGrown ==
    ASSUME IInv, PrefixInv, NEW new, GrownBy(new, tree'),
           NEW n \in DOMAIN tree', NEW i \in 0 .. Len(n)
    PROVE  /\ SubSeq(n, 1, i) \in DOMAIN tree'
           /\ i < Len(n) => SubSeq(n, 1, i) \in DOMAIN tree
           /\ n \in DOMAIN tree => SubSeq(n, 1, i) \in DOMAIN tree
  <1>1. CASE n \in DOMAIN tree
    BY <1>1 DEF PrefixInv, GrownBy
  <1>2. CASE n \notin DOMAIN tree
    <2>1. n \in Seq(Int) /\ n # Root /\ Parent(n) \in DOMAIN tree
      BY <1>2 DEF GrownBy
    <2>2. Len(n) \in Nat \ {0} /\ SubSeq(n, 1, Len(n)) = n
      BY <2>1, SubSeqFull, EmptySeq DEF Root
    <2>3. ASSUME i < Len(n)
          PROVE  SubSeq(n, 1, i) \in DOMAIN tree
      <3>1. Parent(n) = SubSeq(n, 1, Len(n) - 1)
        BY DEF Parent, Front
      <3>2. Len(Parent(n)) = Len(n) - 1 /\ SubSeq(Parent(n), 1, i) = SubSeq(n, 1, i)
        BY <2>1, <2>2, <2>3, <3>1, PrefixOfPrefix
      <3>3. i \in 0 .. Len(Parent(n))
        BY <2>2, <2>3, <3>2
      <3>4. SubSeq(Parent(n), 1, i) \in DOMAIN tree
        BY <2>1, <3>3 DEF PrefixInv
      <3> QED  BY <3>2, <3>4
    <2>4. i < Len(n) \/ i = Len(n)
      <3>1. Len(n) \in Nat
        BY <2>2
      <3> QED  BY <3>1
    <2>5. i = Len(n) => SubSeq(n, 1, i) \in DOMAIN tree'
      BY <2>2
    <2>6. DOMAIN tree \subseteq DOMAIN tree'
      BY DEF GrownBy
    <2> QED  BY <1>2, <2>3, <2>4, <2>5, <2>6
  <1> QED  BY <1>1, <1>2

\* The length of a tag is a number.
LEMMA TagLength ==
    ASSUME IInv, NEW n \in DOMAIN tree
    PROVE  n \in Seq(Int) /\ Len(n) \in Nat /\ tree[n] \in Node
  BY LenProperties DEF IInv, TreeInv, TagsInv, NodesInv

LEMMA GrowthKeepsTrail ==
    ASSUME IInv, IInv', TrailInv, phase # "generate", GrownBy(batch', tree'),
           phase' # "generate" => \A n \in batch' : Parent(n) = Root
    PROVE  TrailInv'
  <1>1. PrefixInv'
    <2>1. \A n \in DOMAIN tree' : \A i \in 0 .. Len(n) : SubSeq(n, 1, i) \in DOMAIN tree'
      BY PrefixesOfGrown DEF TrailInv
    <2>2. ASSUME NEW n \in DOMAIN tree', NEW i \in 0 .. Len(n) - 1
          PROVE  SubSeq(n, 1, i) \notin batch'
      <3>1. Len(n) \in Nat
        BY TagLength, LenProperties DEF IInv, TreeInv, TagsInv
      <3>2. SubSeq(n, 1, i) \in DOMAIN tree
        BY <3>1, PrefixesOfGrown DEF TrailInv
      <3> QED  BY <3>2 DEF GrownBy
    <2>3. Root \notin batch'
      BY DEF GrownBy
    <2> QED  BY <2>1, <2>2, <2>3 DEF PrefixInv
  <1>2. ASSUME NEW n \in DOMAIN tree', phase' = "generate" => n \notin batch'
        PROVE  Replay(tree', n) = tree'[n].executed
    <2>1. CASE n \in DOMAIN tree
      <3>1. Len(n) \in Nat
        BY <2>1, TagLength
      <3>2. \A i \in 1 .. Len(n) : SubSeq(n, 1, i) \in DOMAIN tree
        BY <2>1, <3>1 DEF TrailInv, PrefixInv
      <3>3. Replay(tree', n) = Replay(tree, n)
        BY <3>2, ReplayFrame DEF GrownBy
      <3>4. Replay(tree, n) = tree[n].executed
        BY <2>1 DEF TrailInv, ReplayInv
      <3> QED  BY <2>1, <3>3, <3>4 DEF GrownBy, HintsKept
    <2>2. CASE n \notin DOMAIN tree
      <3>1. /\ n \in batch' /\ n \in Seq(Int) /\ n # Root /\ Parent(n) = Root
            /\ Blank(tree'[n]) /\ tree'[n] \in Node
        BY <1>2, <2>2 DEF GrownBy
      <3>2. Len(n) = 1 /\ SubSeq(n, 1, 1) = n
        <4>1. Len(n) \in Nat \ {0} /\ SubSeq(n, 1, Len(n)) = n
          BY <3>1, SubSeqFull, EmptySeq DEF Root
        <4>2. Len(SubSeq(n, 1, Len(n) - 1)) = Len(n) - 1
          BY <3>1, <4>1, PrefixOfPrefix
        <4>3. Len(n) - 1 = 0
          BY <3>1, <4>2 DEF Parent, Front, Root
        <4>4. Len(n) = 1
          <5>1. Len(n) \in Nat
            BY <4>1
          <5> QED  BY <4>3, <5>1
        <4> QED  BY <4>1, <4>4
      <3>3. Replay(tree', n) = tree'[n].own \cap Hint
        <4>1. 1 .. 1 = {1} /\ \A i \in 1 .. 1 : i+1 .. 1 = {}
          OBVIOUS
        <4> QED  BY <3>2, <4>1 DEF Replay
      <3> QED  BY <3>1, <3>3 DEF Blank, Node
    <2> QED  BY <2>1, <2>2
  <1> QED  BY <1>1, <1>2 DEF TrailInv, ReplayInv

\* A completion's hints are what the replay gives with the node's changes.
LEMMA FilledReplays ==
    ASSUME SearchAssumption, NEW n, tree[n] \in Node, NEW output \in Outputs \cup {None}
    PROVE  LET node == Filled(n, output)
           IN  /\ node.own \subseteq Hint
               /\ node.executed = node.own \cup (Inherited(tree, n) \ node.deleted)
  <1> DEFINE node == tree[n]
             parsed == IF output = None THEN {} ELSE output
             before == AncestorHints(n)
             all == IF node.action \in {"A5", "A6"} THEN parsed ELSE Override(before, parsed)
             filled == [node EXCEPT !.own = all \ before, !.deleted = before \ all,
                                    !.executed = all]
  <1>1. parsed \subseteq Hint /\ before \subseteq Hint
    BY DEF SearchAssumption, AncestorHints
  <1>2. all \subseteq Hint
    BY <1>1 DEF Override
  <1>3. Filled(n, output) = IF output = None
                              THEN [filled EXCEPT !.status = "terminal", !.reason = "llm_error"]
                              ELSE filled
    BY DEF Filled
  <1> HIDE DEF parsed, before, all
  <1>4. filled.own = all \ before /\ filled.deleted = before \ all /\ filled.executed = all
    BY DEF Node
  <1>5. HintsKept(Filled(n, output), filled)
    BY <1>3 DEF Node, HintsKept
  <1> HIDE DEF filled
  <1>6. Inherited(tree, n) = before
    BY DEF before, Inherited, AncestorHints
  <1> QED  BY <1>2, <1>4, <1>5, <1>6 DEF HintsKept

LEMMA GenerateKeepsTrail ==
    ASSUME IInv, IInv', SearchAssumption, TrailInv, Generate
    PROVE  TrailInv'
  <1>1. PICK output \in [batch -> Outputs \cup {None}] :
           tree' = [n \in DOMAIN tree |->
                      IF n \in batch THEN Filled(n, output[n]) ELSE tree[n]]
    BY DEF Generate
  <1>2. /\ phase = "generate" /\ phase' = "filter" /\ DOMAIN tree' = DOMAIN tree
        /\ \A n \in DOMAIN tree \ batch : tree'[n] = tree[n]
        /\ batch \subseteq DOMAIN tree
    BY <1>1 DEF Generate, IInv, TreeInv, BatchInv
  <1>3. PrefixInv'
    BY <1>2 DEF TrailInv, PrefixInv
  <1>4. ASSUME NEW n \in DOMAIN tree
        PROVE  Replay(tree', n) = tree'[n].executed
    <2>1. n \in Seq(Int) /\ Len(n) \in Nat /\ tree[n] \in Node /\ tree'[n] \in Node
      BY <1>2, TagLength DEF IInv, TreeInv, NodesInv
    <2>2. \A i \in 1 .. Len(n) - 1 :
             HintsKept(tree'[SubSeq(n, 1, i)], tree[SubSeq(n, 1, i)])
      <3>1. ASSUME NEW i \in 1 .. Len(n) - 1
            PROVE  HintsKept(tree'[SubSeq(n, 1, i)], tree[SubSeq(n, 1, i)])
        <4>1. i \in 0 .. Len(n) /\ i \in 0 .. Len(n) - 1
          BY <2>1
        <4>2. SubSeq(n, 1, i) \in DOMAIN tree \ batch
          BY <1>2, <4>1 DEF TrailInv, PrefixInv
        <4> QED  BY <1>2, <4>2 DEF HintsKept
      <3> QED  BY <3>1
    <2>3. CASE n \notin batch
      <3>1. Replay(tree, n) = tree[n].executed
        BY <2>3 DEF TrailInv, ReplayInv
      <3>2. HintsKept(tree'[n], tree[n])
        BY <1>2, <2>3 DEF HintsKept
      <3>3. SubSeq(n, 1, Len(n)) = n
        BY <2>1, SubSeqFull
      <3>4. \A i \in 1 .. Len(n) :
               HintsKept(tree'[SubSeq(n, 1, i)], tree[SubSeq(n, 1, i)])
        <4>1. \A i \in 1 .. Len(n) : i \in 1 .. Len(n) - 1 \/ i = Len(n)
          BY <2>1
        <4> QED  BY <2>2, <3>2, <3>3, <4>1
      <3>5. Replay(tree', n) = Replay(tree, n)
        BY <3>4, ReplayFrame
      <3> QED  BY <3>1, <3>2, <3>5 DEF HintsKept
    <2>4. CASE n \in batch
      <3>1. output[n] \in Outputs \cup {None} /\ tree'[n] = Filled(n, output[n])
        BY <1>1, <2>4
      <3>2. /\ tree'[n].own \subseteq Hint
            /\ tree'[n].executed = tree'[n].own \cup (Inherited(tree, n) \ tree'[n].deleted)
        BY <2>1, <3>1, FilledReplays
      <3>3. Inherited(tree', n) = Inherited(tree, n)
        BY <2>2, InheritedFrame
      <3>4. n # Root
        BY <1>2, <2>4 DEF TrailInv, PrefixInv
      <3>5. Replay(tree', n) = tree'[n].own \cup (Inherited(tree', n) \ tree'[n].deleted)
        BY <2>1, <3>2, <3>4, ReplayStep
      <3> QED  BY <3>2, <3>3, <3>5
    <2> QED  BY <2>3, <2>4
  <1> QED  BY <1>2, <1>3, <1>4 DEF TrailInv, ReplayInv

\* No other step changes hints.
LEMMA HintsKeepTrail ==
    ASSUME IInv, TrailInv, phase # "generate", phase' # "generate",
           DOMAIN tree' = DOMAIN tree,
           \A n \in DOMAIN tree : HintsKept(tree'[n], tree[n])
    PROVE  TrailInv'
  <1>1. PrefixInv'
    BY DEF TrailInv, PrefixInv
  <1>2. ASSUME NEW n \in DOMAIN tree
        PROVE  Replay(tree', n) = tree'[n].executed
    <2>1. \A i \in 1 .. Len(n) : SubSeq(n, 1, i) \in DOMAIN tree
      BY TagLength DEF TrailInv, PrefixInv
    <2>2. Replay(tree', n) = Replay(tree, n)
      BY <2>1, ReplayFrame
    <2> QED  BY <2>2 DEF TrailInv, ReplayInv, HintsKept
  <1> QED  BY <1>1, <1>2 DEF TrailInv, ReplayInv

-----------------------------------------------------------------------------
(* What a search reports.                                                  *)

\* A node whose turn is still to come found nothing and answered nothing.
OpenInv ==
    /\ phase \in {"generate", "filter"} =>
          \A n \in batch : ~tree[n].finder /\ tree[n].reason # "final_answer"
    /\ phase = "execute" =>
          \A n \in queue : ~tree[n].finder /\ tree[n].reason # "final_answer"

\* What a finder or an answer reports: a reward, and the time of its plan or,
\* without one, the baseline's.
Reports(node) ==
    node.finder \/ node.reason = "final_answer" =>
        /\ node.reward \in {-1, 0, 1}
        /\ IF node.plan = None THEN node.elapsed = Baseline ELSE node.elapsed # None

ReportInv == \A n \in DOMAIN tree : Reports(tree[n])

\* Every measured plan has the node that found it, under hints.
FinderInv ==
    \A p \in DOMAIN time \ {DefaultPlan} :
        /\ p \in Plan
        /\ \E n \in DOMAIN tree :
              tree[n].finder /\ tree[n].plan = p /\ tree[n].executed # {}

DoneInv == phase = "done" => result = Converted(Solutions)

ResultInv == OpenInv /\ ReportInv /\ FinderInv /\ DoneInv

LEMMA GrowthKeepsResult ==
    ASSUME IInv, SearchAssumption, ResultInv, GrownBy(batch', tree'), queue' \subseteq batch',
           phase' \in {"generate", "execute"}, time' = time
    PROVE  ResultInv'
  <1>1. \A n \in batch' : ~tree'[n].finder /\ tree'[n].reason # "final_answer"
    BY DEF GrownBy, Blank, SearchAssumption, Reason
  <1>2. OpenInv'
    BY <1>1 DEF OpenInv
  <1>3. ReportInv'
    <2>1. ASSUME NEW n \in DOMAIN tree
          PROVE  Reports(tree'[n])
      BY DEF ResultInv, ReportInv, Reports, GrownBy, AnswerKept
    <2>2. ASSUME NEW n \in batch'
          PROVE  Reports(tree'[n])
      BY <1>1 DEF Reports
    <2> QED  BY <2>1, <2>2 DEF ReportInv, GrownBy
  <1>4. FinderInv'
    BY DEF ResultInv, FinderInv, GrownBy, AnswerKept, HintsKept
  <1>5. DoneInv'
    BY DEF DoneInv
  <1> QED  BY <1>2, <1>3, <1>4, <1>5 DEF ResultInv

LEMMA GenerateKeepsResult ==
    ASSUME IInv, SearchAssumption, ResultInv, Generate
    PROVE  ResultInv'
  <1>1. PICK output \in [batch -> Outputs \cup {None}] :
           tree' = [n \in DOMAIN tree |->
                      IF n \in batch THEN Filled(n, output[n]) ELSE tree[n]]
    BY DEF Generate
  <1>2. /\ phase = "generate" /\ phase' = "filter" /\ DOMAIN tree' = DOMAIN tree
        /\ UNCHANGED <<batch, time>>
        /\ \A n \in DOMAIN tree \ batch : tree'[n] = tree[n]
        /\ batch \subseteq DOMAIN tree
    BY <1>1 DEF Generate, planCache, IInv, TreeInv, BatchInv
  <1>3. ASSUME NEW n \in batch
        PROVE  ~tree[n].finder /\ ~tree'[n].finder /\ tree'[n].reason # "final_answer"
    <2>1. tree[n] \in Node /\ ~tree[n].finder /\ tree[n].reason # "final_answer"
      BY <1>2, TagLength DEF ResultInv, OpenInv
    <2>2. output[n] \in Outputs \cup {None} /\ tree'[n] = Filled(n, output[n])
      BY <1>1, <1>2
    <2> QED  BY <2>1, <2>2, FilledNode
  <1>4. OpenInv'
    BY <1>2, <1>3 DEF OpenInv
  <1>5. ReportInv'
    BY <1>2, <1>3 DEF ResultInv, ReportInv, Reports
  <1>6. FinderInv'
    BY <1>2, <1>3 DEF ResultInv, FinderInv
  <1>7. DoneInv'
    BY <1>2 DEF DoneInv
  <1> QED  BY <1>4, <1>5, <1>6, <1>7 DEF ResultInv

\* A child that is not executed reports nothing, or that it changed nothing.
LEMMA SettledReports ==
    ASSUME SearchAssumption, NEW n, tree[n] \in Node,
           tree[n].plan = None, ~tree[n].finder, tree[n].reason # "final_answer"
    PROVE  /\ HintsKept(Settled(n), tree[n])
           /\ Reports(Settled(n)) /\ ~Settled(n).finder
  BY DEF Settled, Node, HintsKept, Reports, NegativeReward

LEMMA FilterKeepsTrailAndResult ==
    ASSUME IInv, SearchAssumption, TrailInv, ResultInv, Filter
    PROVE  TrailInv' /\ ResultInv'
  <1>1. /\ phase = "filter" /\ phase' = "execute" /\ DOMAIN tree' = DOMAIN tree
        /\ UNCHANGED <<batch, time>>
        /\ queue' = {n \in batch : ~IsTerminal(n) /\ ~Unchanged(n)}
        /\ tree' = [n \in DOMAIN tree |->
                      IF n \in batch /\ ~IsTerminal(n) /\ Unchanged(n)
                        THEN Settled(n) ELSE tree[n]]
        /\ batch \subseteq DOMAIN tree
    BY DEF Filter, planCache, IInv, TreeInv, BatchInv
  <1>2. ASSUME NEW n \in DOMAIN tree
        PROVE  /\ HintsKept(tree'[n], tree[n]) /\ Reports(tree'[n])
               /\ n \notin batch \/ n \in queue' => tree'[n] = tree[n]
               /\ n \in batch => ~tree[n].finder /\ tree[n].reason # "final_answer"
    <2>1. tree[n] \in Node /\ Reports(tree[n])
      BY TagLength DEF ResultInv, ReportInv
    <2>2. /\ n \in batch => ~tree[n].finder /\ tree[n].reason # "final_answer"
          /\ n \in batch => tree[n].plan = None
      BY <1>1 DEF ResultInv, OpenInv, IInv, TreeInv, FreshInv, Fresh
    <2>3. CASE n \in batch /\ ~IsTerminal(n) /\ Unchanged(n)
      <3>1. tree'[n] = Settled(n)
        BY <1>1, <2>3
      <3> QED  BY <1>1, <2>1, <2>2, <2>3, <3>1, SettledReports
    <2>4. CASE ~(n \in batch /\ ~IsTerminal(n) /\ Unchanged(n))
      <3>1. tree'[n] = tree[n]
        BY <1>1, <2>4
      <3> QED  BY <2>1, <2>2, <3>1 DEF HintsKept
    <2> QED  BY <2>3, <2>4
  <1>3. TrailInv'
    BY <1>1, <1>2, HintsKeepTrail
  <1>4. OpenInv'
    BY <1>1, <1>2 DEF OpenInv
  <1>5. ReportInv'
    BY <1>1, <1>2 DEF ReportInv
  <1>6. FinderInv'
    <2>1. ASSUME NEW n \in DOMAIN tree, tree[n].finder
          PROVE  tree'[n] = tree[n]
      BY <1>2, <2>1
    <2> QED  BY <1>1, <2>1 DEF ResultInv, FinderInv
  <1>7. DoneInv'
    BY <1>1 DEF DoneInv
  <1> QED  BY <1>3, <1>4, <1>5, <1>6, <1>7 DEF ResultInv

\* An executed node keeps its hints; a plan that was measured has found its
\* node.
LEMMA ExecutedReports ==
    ASSUME IInv, SearchAssumption, TrailInv, ResultInv,
           NEW n \in Foremost, NEW node \in Node, Executed(n, node),
           HintsKept(node, tree[n]), Reports(node),
           \/ time' = time
           \/ /\ node.finder /\ node.plan \in Plan /\ node.executed # {}
              /\ DOMAIN time' = DOMAIN time \cup {node.plan}
    PROVE  TrailInv' /\ ResultInv'
  <1>1. /\ n \in DOMAIN tree /\ n \in queue /\ tree[n] \in Node
        /\ phase = "execute" /\ phase' = "execute"
        /\ tree' = [tree EXCEPT ![n] = node]
        /\ queue' = queue \ {n} /\ queue \subseteq DOMAIN tree
    BY PlanOfNode DEF Executed, IInv, TreeInv, BatchInv
  <1>2. DOMAIN tree' = DOMAIN tree /\ \A m \in DOMAIN tree : tree'[m] = IF m = n THEN node ELSE tree[m]
    BY <1>1
  <1>3. ~tree[n].finder
    BY <1>1 DEF ResultInv, OpenInv
  <1>4. TrailInv'
    BY <1>1, <1>2, HintsKeepTrail DEF HintsKept
  <1>5. OpenInv'
    BY <1>1, <1>2 DEF ResultInv, OpenInv
  <1>6. ReportInv'
    BY <1>2 DEF ResultInv, ReportInv
  <1>7. FinderInv'
    <2>1. ASSUME NEW p \in DOMAIN time \ {DefaultPlan}
          PROVE  /\ p \in Plan
                 /\ \E m \in DOMAIN tree' :
                       tree'[m].finder /\ tree'[m].plan = p /\ tree'[m].executed # {}
      <3>1. PICK m \in DOMAIN tree :
                tree[m].finder /\ tree[m].plan = p /\ tree[m].executed # {}
        BY <2>1 DEF ResultInv, FinderInv
      <3>2. m # n
        BY <1>3, <3>1
      <3> QED  BY <1>2, <2>1, <3>1, <3>2 DEF ResultInv, FinderInv
    <2>2. CASE time' = time
      BY <2>1, <2>2 DEF FinderInv
    <2>3. CASE time' # time
      <3>1. /\ node.finder /\ node.plan \in Plan /\ node.executed # {}
            /\ DOMAIN time' = DOMAIN time \cup {node.plan}
        BY <2>3
      <3>2. tree'[n] = node /\ n \in DOMAIN tree'
        BY <1>1, <1>2
      <3> QED  BY <2>1, <3>1, <3>2 DEF FinderInv
    <2> QED  BY <2>2, <2>3
  <1>8. DoneInv'
    BY <1>1 DEF DoneInv
  <1> QED  BY <1>4, <1>5, <1>6, <1>7, <1>8 DEF ResultInv

LEMMA ExecutionKeepsTrailAndResult ==
    ASSUME IInv, SearchAssumption, TrailInv, ResultInv, NEW n \in Foremost,
           \/ ExplainFails(n) \/ Ineffective(n) \/ CacheHit(n) \/ ExecutionFails(n)
           \/ \E t \in Times \cup {TimeoutTime} : Measure(n, t)
    PROVE  TrailInv' /\ ResultInv'
  <1> DEFINE p == PlanOf[tree[n].executed]
  <1>1. tree[n] \in Node /\ p \in Plan /\ p # None /\ n \in queue /\ n \in DOMAIN tree
    BY PlanOfNode DEF SearchAssumption
  <1>2. phase = "execute" => ~tree[n].finder
    BY <1>1 DEF ResultInv, OpenInv
  <1>3. CASE ExplainFails(n)
    <2> DEFINE node == [tree[n] EXCEPT !.status = "terminal", !.reason = "db_execution_error"]
    <2>1. Executed(n, node) /\ time' = time /\ phase = "execute"
      BY <1>3 DEF ExplainFails, planCache, Executed
    <2>2. node \in Node /\ HintsKept(node, tree[n]) /\ Reports(node)
      BY <1>1, <1>2, <2>1 DEF Node, Reason, HintsKept, Reports
    <2> HIDE DEF node
    <2> QED  BY <2>1, <2>2, ExecutedReports
  <1>4. CASE Ineffective(n)
    <2> DEFINE node == [tree[n] EXCEPT !.status = "terminal", !.reason = "ineffective_hints",
                                       !.reward = 0, !.plan = p,
                                       !.elapsed = tree[Parent(n)].elapsed]
    <2>1. Executed(n, node) /\ time' = time /\ phase = "execute" /\ Len(n) > 1
      BY <1>4 DEF Ineffective, SamePlanAsParent, planCache, Executed
    <2>2. tree[Parent(n)].elapsed \in Nat \cup {None}
      <3>1. n # Root
        BY <2>1 DEF Root
      <3> QED  BY <1>1, <3>1 DEF IInv, TreeInv, TagsInv, NodesInv, Node
    <2> HIDE DEF p
    <2>3. node \in Node /\ HintsKept(node, tree[n]) /\ Reports(node)
      BY <1>1, <1>2, <2>1, <2>2 DEF Node, Reason, HintsKept, Reports
    <2> HIDE DEF node
    <2> QED  BY <2>1, <2>3, ExecutedReports
  <1>5. CASE CacheHit(n)
    <2>1. /\ Executed(n, Rewarded(n, p, time[p])) /\ time' = time
          /\ p \in DOMAIN time /\ phase = "execute"
      BY <1>5 DEF CacheHit, Lookup, Executed
    <2>2. time[p] \in Nat /\ time[p] # None
      BY <2>1 DEF IInv, MemoryInv, SearchAssumption
    <2> HIDE DEF p
    <2>3. /\ Rewarded(n, p, time[p]) \in Node /\ Reports(Rewarded(n, p, time[p]))
          /\ HintsKept(Rewarded(n, p, time[p]), tree[n])
      BY <1>1, <2>2, RewardedNode DEF Reports
    <2> QED  BY <2>1, <2>3, ExecutedReports
  <1>6. CASE ExecutionFails(n)
    <2> DEFINE node == [tree[n] EXCEPT !.status = "terminal", !.plan = p,
                                       !.reason = "db_execution_error"]
    <2>1. Executed(n, node) /\ time' = time /\ phase = "execute"
      BY <1>6 DEF ExecutionFails, planCache, Executed
    <2> HIDE DEF p
    <2>2. node \in Node /\ HintsKept(node, tree[n]) /\ Reports(node)
      BY <1>1, <1>2, <2>1 DEF Node, Reason, HintsKept, Reports
    <2> HIDE DEF node
    <2> QED  BY <2>1, <2>2, ExecutedReports
  <1>7. ASSUME NEW t \in Times \cup {TimeoutTime}, Measure(n, t)
        PROVE  TrailInv' /\ ResultInv'
    <2> DEFINE measured == Rewarded(n, p, t)
               node == [measured EXCEPT !.finder = TRUE]
    <2>1. /\ Executed(n, node) /\ p \notin DOMAIN time
          /\ time' = [q \in DOMAIN time \cup {p} |-> IF q = p THEN t ELSE time[q]]
      BY <1>7 DEF Measure, Lookup
    <2>2. tree[n].executed # {}
      BY <2>1 DEF IInv, MemoryInv, SearchAssumption
    <2>3. t \in Nat /\ t # None
      BY DEF SearchAssumption
    <2> HIDE DEF p
    <2>4. /\ measured \in Node /\ measured.plan = p /\ measured.elapsed = t
          /\ measured.reward \in {-1, 0, 1} /\ HintsKept(measured, tree[n])
      BY <1>1, <2>3, RewardedNode
    <2> HIDE DEF measured
    <2>5. /\ node \in Node /\ HintsKept(node, measured) /\ node.finder
          /\ node.plan = p /\ node.elapsed = t /\ node.reward = measured.reward
      BY <2>4 DEF Node, HintsKept
    <2>6. DOMAIN time' = DOMAIN time \cup {p}
      BY <2>1
    <2> HIDE DEF node
    <2>7. HintsKept(node, tree[n]) /\ Reports(node) /\ node.executed # {}
      BY <1>1, <2>2, <2>3, <2>4, <2>5 DEF HintsKept, Reports
    <2> QED  BY <1>1, <2>1, <2>5, <2>6, <2>7, ExecutedReports
  <1> QED  BY <1>3, <1>4, <1>5, <1>6, <1>7

\* Steps that leave tree and cache alone; the result is taken from the tree.
LEMMA OthersKeepTrailAndResult ==
    ASSUME IInv, TrailInv, ResultInv,
           StartRollout \/ NoLeaf \/ Backpropagate \/ EndRollout \/ Finish
    PROVE  TrailInv' /\ ResultInv'
  <1> DEFINE Other == {"rollout", "select", "check", "finish"}
  <1>1. /\ UNCHANGED <<tree, time>> /\ phase # "generate"
        /\ phase' \in Other \/ (phase' = "done" /\ result' = Converted(Solutions))
    <2>1. CASE StartRollout
      BY <2>1 DEF StartRollout, planCache
    <2>2. CASE NoLeaf
      BY <2>2 DEF NoLeaf, planCache
    <2>3. CASE Backpropagate
      <3>1. phase' \in Other
        BY <2>3 DEF Backpropagate
      <3> QED  BY <2>3, <3>1 DEF Backpropagate
    <2>4. CASE EndRollout
      BY <2>4 DEF EndRollout, planCache
    <2>5. CASE Finish
      BY <2>5 DEF Finish, planCache
    <2> QED  BY <2>1, <2>2, <2>3, <2>4, <2>5
  <1>2. TrailInv'
    <2>1. phase' # "generate"
      BY <1>1
    <2> QED  BY <1>1, <2>1, HintsKeepTrail DEF HintsKept
  <1>3. OpenInv'
    BY <1>1 DEF OpenInv
  <1>4. ReportInv' /\ FinderInv'
    BY <1>1 DEF ResultInv, ReportInv, FinderInv
  <1>5. DoneInv'
    <2>1. Solutions' = Solutions
      BY <1>1 DEF Solutions, Solution, SolutionOf, IsTerminal
    <2>2. CASE phase' \in Other
      BY <2>2 DEF DoneInv
    <2>3. CASE result' = Converted(Solutions)
      BY <2>1, <2>3 DEF DoneInv
    <2> QED  BY <1>1, <2>2, <2>3
  <1> QED  BY <1>2, <1>3, <1>4, <1>5 DEF ResultInv

LEMMA StutterKeepsTrailAndResult ==
    ASSUME TrailInv, ResultInv, UNCHANGED searchVars
    PROVE  TrailInv' /\ ResultInv'
  <1>1. UNCHANGED <<tree, time, phase, batch, queue, result>>
    BY DEF searchVars, planCache
  <1>2. TrailInv'
    BY <1>1 DEF TrailInv, PrefixInv, ReplayInv
  <1>3. Solutions' = Solutions
    BY <1>1 DEF Solutions, Solution, SolutionOf, IsTerminal
  <1>4. OpenInv' /\ ReportInv' /\ FinderInv'
    BY <1>1 DEF ResultInv, OpenInv, ReportInv, FinderInv
  <1>5. DoneInv'
    BY <1>1, <1>3 DEF ResultInv, DoneInv
  <1> QED  BY <1>2, <1>4, <1>5 DEF ResultInv

LEMMA StepKeepsTrailAndResult ==
    ASSUME IInv, IInv', SearchAssumption, TrailInv, ResultInv, [SearchNext]_searchVars
    PROVE  TrailInv' /\ ResultInv'
  <1>1. ASSUME NEW found \in SUBSET (Bundles \ {{}}), NEW bundles \in SetToSeqs(found),
               WarmStart(bundles)
        PROVE  TrailInv' /\ ResultInv'
    <2>1. time' = time /\ phase = "warm"
      BY <1>1 DEF WarmStart, planCache
    <2>2. CASE bundles = <<>>
      <3>1. phase' = "rollout" /\ UNCHANGED tree
        BY <1>1, <2>2 DEF WarmStart
      <3>2. TrailInv'
        BY <2>1, <3>1, HintsKeepTrail DEF HintsKept
      <3>3. ResultInv'
        BY <2>1, <3>1 DEF ResultInv, OpenInv, ReportInv, FinderInv, DoneInv
      <3> QED  BY <3>2, <3>3
    <2>3. CASE bundles # <<>>
      <3>1. GrownBy(batch', tree') /\ queue' = batch' /\ phase' = "execute"
        BY <1>1, <2>3, WarmStartGrows
      <3>2. \A n \in batch' : Parent(n) = Root
        BY <2>1, <3>1 DEF GrownBy, IInv, TreeInv, BatchInv
      <3>3. TrailInv'
        BY <2>1, <3>1, <3>2, GrowthKeepsTrail
      <3>4. ResultInv'
        BY <2>1, <3>1, GrowthKeepsResult
      <3> QED  BY <3>3, <3>4
    <2> QED  BY <2>2, <2>3
  <1>2. ASSUME NEW leaf \in DOMAIN tree, Expand(leaf)
        PROVE  TrailInv' /\ ResultInv'
    <2>1. /\ GrownBy(batch', tree') /\ phase' = "generate"
          /\ queue' = {} /\ time' = time /\ phase = "select"
      BY <1>2, ExpandGrows DEF Expand
    <2> QED  BY <2>1, GrowthKeepsTrail, GrowthKeepsResult
  <1>3. CASE Generate
    BY <1>3, GenerateKeepsTrail, GenerateKeepsResult
  <1>4. CASE Filter
    BY <1>4, FilterKeepsTrailAndResult
  <1>5. CASE \E n \in Foremost :
               \/ ExplainFails(n) \/ Ineffective(n) \/ CacheHit(n) \/ ExecutionFails(n)
               \/ \E t \in Times \cup {TimeoutTime} : Measure(n, t)
    BY <1>5, ExecutionKeepsTrailAndResult
  <1>6. CASE StartRollout \/ NoLeaf \/ Backpropagate \/ EndRollout \/ Finish
    BY <1>6, OthersKeepTrailAndResult
  <1>7. CASE UNCHANGED searchVars
    BY <1>7, StutterKeepsTrailAndResult
  <1> QED
    BY <1>1, <1>2, <1>3, <1>4, <1>5, <1>6, <1>7 DEF SearchNext

LEMMA InitTrailAndResult == ASSUME SearchAssumption PROVE SearchInit => TrailInv /\ ResultInv
  <1> SUFFICES ASSUME SearchInit PROVE TrailInv /\ ResultInv
    OBVIOUS
  <1>1. /\ DOMAIN tree = {Root} /\ tree[Root].executed = {} /\ Len(Root) = 0
        /\ ~tree[Root].finder /\ tree[Root].reason = None
        /\ phase = "warm" /\ DOMAIN time = {DefaultPlan}
    BY EmptySeq DEF SearchInit, InitBaseline, Root
  <1>2. PrefixInv
    <2>1. SubSeq(Root, 1, 0) = Root
      BY SubSeqEmpty DEF Root
    <2>2. 0 .. 0 = {0} /\ 0 .. 0 - 1 = {}
      OBVIOUS
    <2> QED  BY <1>1, <2>1, <2>2 DEF PrefixInv
  <1>3. ReplayInv
    <2>1. 1 .. 0 = {}
      OBVIOUS
    <2> QED  BY <1>1, <2>1 DEF ReplayInv, Replay
  <1>4. OpenInv /\ FinderInv /\ DoneInv
    BY <1>1 DEF OpenInv, FinderInv, DoneInv
  <1>5. ReportInv
    BY <1>1 DEF ReportInv, Reports, SearchAssumption, Reason
  <1> QED  BY <1>2, <1>3, <1>4, <1>5 DEF TrailInv, ResultInv

-----------------------------------------------------------------------------
(* Visits.                                                                 *)

\* Does m count as a visit of n?
Counted(m, n) ==
    /\ tree[m].reward # None
    /\ m = n \/ (Propagates(m) /\ IsPrefix(n, m))

\* The visitors of n whose step was backpropagated, and what they leave.
Visitors(n) == {m \in DOMAIN tree \ batch : Counted(m, n)}

Statistics(nodes) == [visits |-> Cardinality(nodes), value |-> Balance(nodes)]

\* Every visit is of a node whose step was backpropagated, and counted once.
CountInv ==
    /\ IsFiniteSet(DOMAIN tree)
    /\ tally = [n \in DOMAIN tree |-> Statistics(Visitors(n))]
    /\ phase \notin {"generate", "filter", "execute"} => batch = {}

\* A rollout goes on below an expanded node, never below an answer.
CurrentInv ==
    /\ Root \notin batch /\ tree[Root].status = "expanded"
    /\ current \in DOMAIN tree \ batch /\ tree[current].status = "expanded"

VisitsInv == CountInv /\ CurrentInv

\* The same visitors with the same rewards leave the same.
LEMMA SameStatistics ==
    ASSUME NEW n, Visitors(n)' = Visitors(n),
           \A m \in Visitors(n) : tree'[m].reward = tree[m].reward
    PROVE  Statistics(Visitors(n))' = Statistics(Visitors(n))
  <1> DEFINE V == Visitors(n)
  <1>1. V' = V
    OBVIOUS
  <1>2. /\ {c \in V : tree'[c].reward = 1} = {c \in V : tree[c].reward = 1}
        /\ {c \in V : tree'[c].reward = -1} = {c \in V : tree[c].reward = -1}
    OBVIOUS
  <1> HIDE DEF V
  <1>3. Statistics(V)' = Statistics(V)
    BY <1>1, <1>2 DEF Statistics, Balance
  <1> QED  BY <1>3 DEF V

LEMMA NoStatistics == Statistics({}) = NoVisit
  <1>1. /\ {c \in {} : tree[c].reward = 1} = {} /\ {c \in {} : tree[c].reward = -1} = {}
        /\ Cardinality({}) = 0
    BY FS_EmptySet
  <1> QED  BY <1>1 DEF Statistics, Balance, NoVisit

LEMMA NoStatisticsPrime == (Statistics({}) = NoVisit)'
  <1>1. /\ {c \in {} : tree'[c].reward = 1} = {} /\ {c \in {} : tree'[c].reward = -1} = {}
        /\ Cardinality({}) = 0
    BY FS_EmptySet
  <1> QED  BY <1>1 DEF Statistics, Balance, NoVisit

\* Visitors that come in addition leave theirs in addition.
LEMMA MoreStatistics ==
    ASSUME NEW S, NEW T, IsFiniteSet(S), IsFiniteSet(T), S \cap T = {}
    PROVE  Statistics(S \cup T) = [visits |-> Statistics(S).visits + Cardinality(T),
                                   value |-> Statistics(S).value + Balance(T)]
  <1> DEFINE Of(X, r) == {c \in X : tree[c].reward = r}
  <1>1. ASSUME NEW A, NEW B, IsFiniteSet(A), IsFiniteSet(B), A \cap B = {}
        PROVE  /\ Cardinality(A \cup B) = Cardinality(A) + Cardinality(B)
               /\ Cardinality(A) \in Nat /\ Cardinality(B) \in Nat
    <2>1. /\ Cardinality(A \cup B) = Cardinality(A) + Cardinality(B) - Cardinality(A \cap B)
          /\ Cardinality(A) \in Nat /\ Cardinality(B) \in Nat
      BY <1>1, FS_Union, FS_CardinalityType
    <2>2. Cardinality(A \cap B) = 0
      BY <1>1, FS_EmptySet
    <2> QED  BY <2>1, <2>2
  <1>2. ASSUME NEW r
        PROVE  /\ IsFiniteSet(Of(S, r)) /\ IsFiniteSet(Of(T, r)) /\ Of(S, r) \cap Of(T, r) = {}
               /\ Of(S \cup T, r) = Of(S, r) \cup Of(T, r)
    <2>1. Of(S, r) \in SUBSET S /\ Of(T, r) \in SUBSET T
      OBVIOUS
    <2> QED  BY <2>1, FS_Subset
  <1>3. /\ Balance(S) = Cardinality(Of(S, 1)) - Cardinality(Of(S, -1))
        /\ Balance(T) = Cardinality(Of(T, 1)) - Cardinality(Of(T, -1))
        /\ Balance(S \cup T) = Cardinality(Of(S \cup T, 1)) - Cardinality(Of(S \cup T, -1))
    BY DEF Balance
  <1> HIDE DEF Of
  <1>4. ASSUME NEW r
        PROVE  /\ Cardinality(Of(S \cup T, r)) = Cardinality(Of(S, r)) + Cardinality(Of(T, r))
               /\ Cardinality(Of(S, r)) \in Nat /\ Cardinality(Of(T, r)) \in Nat
    BY <1>1, <1>2
  <1>5. Balance(S \cup T) = Balance(S) + Balance(T)
    <2>1. /\ Cardinality(Of(S \cup T, 1)) = Cardinality(Of(S, 1)) + Cardinality(Of(T, 1))
          /\ Cardinality(Of(S, 1)) \in Nat /\ Cardinality(Of(T, 1)) \in Nat
      BY ONLY <1>4
    <2>2. /\ Cardinality(Of(S \cup T, -1)) = Cardinality(Of(S, -1)) + Cardinality(Of(T, -1))
          /\ Cardinality(Of(S, -1)) \in Nat /\ Cardinality(Of(T, -1)) \in Nat
      BY ONLY <1>4
    <2> QED  BY <1>3, <2>1, <2>2
  <1>6. Cardinality(S \cup T) = Cardinality(S) + Cardinality(T)
    BY <1>1
  <1> QED  BY <1>5, <1>6 DEF Statistics

\* New nodes have no visits, and the old ones keep theirs.
LEMMA GrowthKeepsCount ==
    ASSUME IInv, TrailInv, CountInv, GrownBy(batch', tree'), batch = {},
           IsFiniteSet(batch'), tally' = Unvisited(DOMAIN tree'),
           phase' \in {"generate", "execute"},
           \A m \in DOMAIN tree :
               tree[m].status = "terminal" <=> tree'[m].status = "terminal"
    PROVE  CountInv'
  <1>1. /\ DOMAIN tree' = DOMAIN tree \cup batch'
        /\ DOMAIN tree' \ batch' = DOMAIN tree
    BY DEF GrownBy
  <1>2. IsFiniteSet(DOMAIN tree')
    <2>1. IsFiniteSet(DOMAIN tree) /\ IsFiniteSet(batch')
      BY DEF CountInv
    <2>2. IsFiniteSet(DOMAIN tree \cup batch')
      BY ONLY <2>1, FS_Union
    <2> QED  BY <1>1, <2>2
  <1>3. tally' = [n \in DOMAIN tree' |-> IF n \in DOMAIN tree THEN Statistics(Visitors(n)) ELSE NoVisit]
    BY <1>1 DEF CountInv, Unvisited
  <1>4. ASSUME NEW n \in DOMAIN tree
        PROVE  Statistics(Visitors(n))' = Statistics(Visitors(n))
    <2>1. \A m \in DOMAIN tree : Counted(m, n)' <=> Counted(m, n)
      BY DEF Counted, Propagates, IsTerminal, GrownBy, AnswerKept
    <2>2. Visitors(n)' = Visitors(n)
      BY <1>1, <2>1 DEF Visitors
    <2>3. \A m \in Visitors(n) : tree'[m].reward = tree[m].reward
      BY DEF Visitors, GrownBy, AnswerKept
    <2> QED  BY <2>2, <2>3, SameStatistics
  <1>5. ASSUME NEW n \in batch'
        PROVE  Statistics(Visitors(n))' = NoVisit
    <2>1. ASSUME NEW m \in DOMAIN tree, IsPrefix(n, m)
          PROVE  FALSE
      <3>1. n \in Seq(Int) /\ n \notin DOMAIN tree
        BY DEF GrownBy
      <3>2. Len(m) \in Nat /\ Len(n) \in Nat
        BY <3>1, TagLength, LenProperties
      <3>3. Len(n) <= Len(m) /\ SubSeq(n, 1, Len(n)) = SubSeq(m, 1, Len(n))
        BY <2>1 DEF IsPrefix
      <3>4. SubSeq(n, 1, Len(n)) = n
        BY <3>1, SubSeqFull
      <3>5. Len(n) \in 0 .. Len(m)
        BY <3>2, <3>3
      <3>6. SubSeq(m, 1, Len(n)) \in DOMAIN tree
        BY <3>5 DEF TrailInv, PrefixInv
      <3> QED  BY <3>1, <3>3, <3>4, <3>6
    <2>2. Visitors(n)' = {}
      <3>1. ASSUME NEW m \in DOMAIN tree, Counted(m, n)'
            PROVE  FALSE
        BY <2>1, <3>1 DEF Counted, GrownBy
      <3> QED  BY <1>1, <3>1 DEF Visitors
    <2> QED  BY <2>2, NoStatisticsPrime
  <1>6. \A n \in DOMAIN tree' : tally'[n] = Statistics(Visitors(n))'
    BY <1>1, <1>3, <1>4, <1>5 DEF GrownBy
  <1> QED  BY <1>2, <1>3, <1>6 DEF CountInv

\* A set of children is finite when their numbers are.
LEMMA FiniteChildren ==
    ASSUME NEW actions, IsFiniteSet(DOMAIN actions), NEW n, NEW children,
           children = {Append(n, i) : i \in DOMAIN actions}
    PROVE  IsFiniteSet(children)
  <1> DEFINE f == [i \in DOMAIN actions |-> Append(n, i)]
  <1>1. f \in [DOMAIN actions -> children]
    OBVIOUS
  <1>2. \A c \in children : \E i \in DOMAIN actions : f[i] = c
    OBVIOUS
  <1> HIDE DEF f
  <1>3. f \in Surjection(DOMAIN actions, children)
    BY <1>1, <1>2 DEF Surjection
  <1> QED  BY <1>3, FS_Surjection

LEMMA WarmStartKeepsVisits ==
    ASSUME IInv, SearchAssumption, TrailInv, VisitsInv, NEW found \in SUBSET (Bundles \ {{}}),
           NEW bundles \in SetToSeqs(found), WarmStart(bundles)
    PROVE  VisitsInv'
  <1>1. /\ phase = "warm" /\ batch = {} /\ current' = current
        /\ tally' = Unvisited(DOMAIN tree')
        /\ DOMAIN tree = {Root} /\ current = Root
    <2>1. phase = "warm" /\ current' = current /\ tally' = Unvisited(DOMAIN tree')
      BY DEF WarmStart
    <2>2. batch = {} /\ DOMAIN tree = {Root}
      BY <2>1 DEF VisitsInv, CountInv, IInv, TreeInv, BatchInv
    <2>3. current = Root
      BY <2>2 DEF VisitsInv, CurrentInv
    <2> QED  BY <2>1, <2>2, <2>3
  <1>2. CASE bundles = <<>>
    <2>1. phase' = "rollout" /\ UNCHANGED <<tree, batch>>
      BY <1>2 DEF WarmStart
    <2>2. tally' = tally
      BY <1>1, <2>1 DEF Unvisited, VisitsInv, CountInv
    <2>3. \A m, n : Counted(m, n)' <=> Counted(m, n)
      BY <2>1 DEF Counted, Propagates, IsTerminal
    <2>4. CountInv'
      <3>1. ASSUME NEW n \in DOMAIN tree
            PROVE  Statistics(Visitors(n))' = Statistics(Visitors(n))
        <4>1. Visitors(n)' = Visitors(n)
          BY <2>1, <2>3 DEF Visitors
        <4>2. \A m \in Visitors(n) : tree'[m].reward = tree[m].reward
          BY <2>1
        <4> QED  BY <4>1, <4>2, SameStatistics
      <3> QED  BY <1>1, <2>1, <2>2, <3>1 DEF VisitsInv, CountInv
    <2>5. CurrentInv'
      BY <1>1, <2>1 DEF VisitsInv, CurrentInv
    <2> QED  BY <2>4, <2>5 DEF VisitsInv
  <1>3. CASE bundles # <<>>
    <2> DEFINE actions == [i \in DOMAIN bundles |-> "A5"]
               grown == WithChildren(Root, actions)
    <2>1. GrownBy(batch', tree') /\ phase' = "execute"
      BY <1>3, WarmStartGrows
    <2>2. /\ batch' = {<<i>> : i \in DOMAIN bundles}
          /\ tree' = [n \in DOMAIN grown |->
                        IF n = Root THEN grown[n]
                        ELSE [grown[n] EXCEPT !.own = bundles[Last(n)],
                                              !.executed = bundles[Last(n)]]]
      BY <1>3 DEF WarmStart
    <2>3. tree'[Root].status = "expanded"
      <3>1. grown[Root] = [tree[Root] EXCEPT !.status = "expanded"] /\ Root \in DOMAIN grown
        BY <1>1 DEF WithChildren
      <3>2. tree'[Root] = [tree[Root] EXCEPT !.status = "expanded"]
        BY <2>2, <3>1
      <3>3. tree[Root] \in Node
        BY <1>1, TagLength
      <3> QED  BY <3>2, <3>3 DEF Node
    <2>4. IsFiniteSet(batch')
      <3>1. IsFiniteSet(found)
        BY FS_Subset DEF SearchAssumption
      <3>2. DOMAIN bundles = 1 .. Cardinality(found) /\ Cardinality(found) \in Nat
        BY <3>1, FS_CardinalityType DEF SetToSeqs
      <3>3. IsFiniteSet(DOMAIN bundles)
        BY <3>2, FS_Interval
      <3>4. \A i \in DOMAIN bundles : <<i>> = Append(<<>>, i)
        OBVIOUS
      <3>5. batch' = {Append(<<>>, i) : i \in DOMAIN bundles}
        BY <2>2, <3>4
      <3> HIDE DEF actions, grown
      <3> QED  BY ONLY <3>3, <3>5, FiniteChildren
    <2>5. CountInv'
      BY <1>1, <2>1, <2>3, <2>4, GrowthKeepsCount DEF VisitsInv, CurrentInv
    <2>6. CurrentInv'
      BY <1>1, <2>1, <2>3 DEF CurrentInv, GrownBy
    <2> QED  BY <2>5, <2>6 DEF VisitsInv
  <1> QED  BY <1>2, <1>3

\* The leaf selected is no answer.
LEMMA SelectedIsOpen ==
    ASSUME IInv, VisitsInv, NEW leaf \in DOMAIN tree, leaf \in Descents(current)
    PROVE  tree[leaf].status # "terminal"
  <1>1. /\ leaf \in Seq(Int) /\ current \in Seq(Int) /\ Len(leaf) \in Nat /\ Len(current) \in Nat
        /\ IsPrefix(current, leaf)
        /\ \A i \in Len(current)+1 .. Len(leaf) : ~IsTerminal(SubSeq(leaf, 1, i))
    BY TagLength DEF Descents, VisitsInv, CurrentInv
  <1>2. SubSeq(leaf, 1, Len(leaf)) = leaf /\ SubSeq(current, 1, Len(current)) = current
    BY <1>1, SubSeqFull
  <1>3. Len(current) <= Len(leaf) /\ current = SubSeq(leaf, 1, Len(current))
    BY <1>1, <1>2 DEF IsPrefix
  <1>4. CASE Len(current) = Len(leaf)
    BY <1>2, <1>3, <1>4 DEF VisitsInv, CurrentInv
  <1>5. CASE Len(current) # Len(leaf)
    <2>1. Len(leaf) \in Len(current)+1 .. Len(leaf)
      BY <1>1, <1>3, <1>5
    <2> QED  BY <1>1, <1>2, <2>1 DEF IsTerminal
  <1> QED  BY <1>4, <1>5

\* Its expansion withdraws no visit.
LEMMA ExpandKeepsVisits ==
    ASSUME IInv, SearchAssumption, TrailInv, VisitsInv, NEW leaf \in DOMAIN tree, Expand(leaf)
    PROVE  VisitsInv'
  <1> DEFINE actions == AllowedActions(leaf)
  <1>1. /\ GrownBy(batch', tree') /\ phase' = "generate"
        /\ tree' = WithChildren(leaf, actions)
        /\ batch' = {Append(leaf, i) : i \in DOMAIN actions}
        /\ tally' = Unvisited(DOMAIN tree')
        /\ current' = leaf /\ leaf \in Descents(current) /\ phase = "select"
    BY ExpandGrows DEF Expand, Unvisited
  <1>2. batch = {}
    BY <1>1 DEF VisitsInv, CountInv
  <1>3. tree[leaf].status # "terminal"
    BY <1>1, SelectedIsOpen
  <1>4. IsFiniteSet(batch')
    <2>1. DOMAIN actions \subseteq DOMAIN ActionType
      BY DEF AllowedActions, Restrict
    <2>2. IsFiniteSet(DOMAIN ActionType)
      <3>1. ActionType \in Seq({"A1", "A2", "A3", "A4", "A5", "A6"})
        BY DEF SearchAssumption
      <3>2. DOMAIN ActionType = 1 .. Len(ActionType) /\ Len(ActionType) \in Nat
        BY <3>1, LenProperties
      <3>3. IsFiniteSet(1 .. Len(ActionType))
        BY ONLY <3>2, FS_Interval
      <3> QED  BY <3>2, <3>3
    <2>3. IsFiniteSet(DOMAIN actions)
      BY ONLY <2>1, <2>2, FS_Subset
    <2>4. batch' = {Append(leaf, i) : i \in DOMAIN actions}
      BY <1>1
    <2> HIDE DEF actions
    <2> QED  BY ONLY <2>3, <2>4, FiniteChildren
  <1> HIDE DEF actions
  <1>5. /\ tree'[leaf].status = "expanded"
        /\ \A m \in DOMAIN tree \ {leaf} : tree'[m] = tree[m]
    <2>1. /\ tree'[leaf] = [tree[leaf] EXCEPT !.status = "expanded"]
          /\ \A m \in DOMAIN tree \ {leaf} : tree'[m] = tree[m]
      BY <1>1 DEF WithChildren
    <2>2. tree[leaf] \in Node
      BY TagLength
    <2> QED  BY <2>1, <2>2 DEF Node
  <1>6. CountInv'
    BY <1>1, <1>2, <1>3, <1>4, <1>5, GrowthKeepsCount DEF VisitsInv
  <1>7. CurrentInv'
    <2>1. Root \in DOMAIN tree /\ Root \notin batch' /\ leaf \notin batch' /\ leaf \in DOMAIN tree'
      BY <1>1 DEF GrownBy, IInv, TreeInv, TagsInv
    <2> QED  BY <1>1, <1>5, <2>1 DEF VisitsInv, CurrentInv
  <1> QED  BY <1>6, <1>7 DEF VisitsInv

\* The nodes of a step are not counted before it is backpropagated.
LEMMA BatchKeepsVisits ==
    ASSUME IInv, VisitsInv, DOMAIN tree' = DOMAIN tree,
           \A m \in DOMAIN tree \ batch : tree'[m] = tree[m],
           UNCHANGED <<batch, tally, current>>, phase' \in {"generate", "filter", "execute"}
    PROVE  VisitsInv'
  <1>1. \A m \in DOMAIN tree \ batch : \A n : Counted(m, n)' <=> Counted(m, n)
    BY DEF Counted, Propagates, IsTerminal
  <1>2. \A n \in DOMAIN tree : Statistics(Visitors(n))' = Statistics(Visitors(n))
    BY <1>1, SameStatistics DEF Visitors
  <1>3. CountInv'
    BY <1>2 DEF VisitsInv, CountInv
  <1>4. CurrentInv'
    BY DEF VisitsInv, CurrentInv, IInv, TreeInv, TagsInv
  <1> QED  BY <1>3, <1>4 DEF VisitsInv

\* Backpropagation counts the nodes of the step, and none of them again.
LEMMA BackpropagateKeepsVisits ==
    ASSUME IInv, VisitsInv, Backpropagate
    PROVE  VisitsInv'
  <1>1. /\ UNCHANGED <<tree, current>> /\ batch' = {} /\ batch \subseteq DOMAIN tree
        /\ tally' = [n \in DOMAIN tree |->
                        [visits |-> tally[n].visits + Cardinality(Backers(n)),
                         value |-> tally[n].value + Balance(Backers(n))]]
    BY DEF Backpropagate, IInv, TreeInv, BatchInv, VisitsInv, CountInv
  <1>2. ASSUME NEW n \in DOMAIN tree
        PROVE  tally'[n] = Statistics(Visitors(n))'
    <2> DEFINE before == Visitors(n)
               now == Backers(n)
    <2>1. tally[n] = Statistics(before) /\ IsFiniteSet(DOMAIN tree)
      BY DEF VisitsInv, CountInv
    <2>2. now = {m \in batch : Counted(m, n)}
      BY DEF Backers, Counted
    <2>3. Visitors(n)' = before \cup now
      <3>1. \A m : Counted(m, n)' <=> Counted(m, n)
        BY <1>1 DEF Counted, Propagates, IsTerminal
      <3> QED  BY <1>1, <2>2, <3>1 DEF Visitors
    <2>4. /\ before \in SUBSET DOMAIN tree /\ now \in SUBSET DOMAIN tree
          /\ before \cap now = {}
      BY <1>1, <2>2 DEF Visitors
    <2>5. IsFiniteSet(before) /\ IsFiniteSet(now)
      BY <2>1, <2>4, FS_Subset
    <2> HIDE DEF before, now
    <2>7. Statistics(before \cup now) = [visits |-> Statistics(before).visits + Cardinality(now),
                                         value |-> Statistics(before).value + Balance(now)]
      BY <2>4, <2>5, MoreStatistics
    <2>8. Statistics(Visitors(n))' = Statistics(before \cup now)
      BY <1>1, <2>3 DEF Statistics, Balance
    <2> QED  BY <1>1, <2>1, <2>7, <2>8 DEF now
  <1>3. CountInv'
    BY <1>1, <1>2 DEF VisitsInv, CountInv
  <1>4. CurrentInv'
    BY <1>1 DEF VisitsInv, CurrentInv, IInv, TreeInv, TagsInv
  <1> QED  BY <1>3, <1>4 DEF VisitsInv

\* Other steps leave tree and visits alone; a rollout starts at the root.
LEMMA OthersKeepVisits ==
    ASSUME IInv, VisitsInv, UNCHANGED <<tree, tally, batch>>,
           phase' \notin {"generate", "filter", "execute"} => batch = {},
           current' \in {current, Root}
    PROVE  VisitsInv'
  <1>1. \A m, n : Counted(m, n)' <=> Counted(m, n)
    BY DEF Counted, Propagates, IsTerminal
  <1>2. \A n \in DOMAIN tree : Statistics(Visitors(n))' = Statistics(Visitors(n))
    BY <1>1, SameStatistics DEF Visitors
  <1>3. CountInv'
    BY <1>2 DEF VisitsInv, CountInv
  <1>4. CurrentInv'
    BY DEF VisitsInv, CurrentInv, IInv, TreeInv, TagsInv
  <1> QED  BY <1>3, <1>4 DEF VisitsInv

LEMMA StepKeepsVisits ==
    ASSUME IInv, SearchAssumption, TrailInv, VisitsInv, [SearchNext]_searchVars
    PROVE  VisitsInv'
  <1>1. CASE \E found \in SUBSET (Bundles \ {{}}) :
               \E bundles \in SetToSeqs(found) : WarmStart(bundles)
    BY <1>1, WarmStartKeepsVisits
  <1>2. CASE \E leaf \in DOMAIN tree : Expand(leaf)
    BY <1>2, ExpandKeepsVisits
  <1>3. CASE Generate
    BY <1>3, BatchKeepsVisits DEF Generate
  <1>4. CASE Filter
    BY <1>4, BatchKeepsVisits DEF Filter
  <1>5. ASSUME NEW n \in Foremost, NEW node, Executed(n, node)
        PROVE  VisitsInv'
    <2>1. n \in batch
      BY DEF Foremost, IInv, TreeInv, BatchInv
    <2>2. DOMAIN tree' = DOMAIN tree /\ \A m \in DOMAIN tree \ batch : tree'[m] = tree[m]
      BY <1>5, <2>1 DEF Executed
    <2> QED  BY <1>5, <2>2, BatchKeepsVisits DEF Executed
  <1>6. CASE \E n \in Foremost :
               \/ ExplainFails(n) \/ Ineffective(n) \/ CacheHit(n) \/ ExecutionFails(n)
               \/ \E t \in Times \cup {TimeoutTime} : Measure(n, t)
    BY <1>5, <1>6 DEF ExplainFails, Ineffective, CacheHit, ExecutionFails, Measure
  <1>7. CASE Backpropagate
    BY <1>7, BackpropagateKeepsVisits
  <1>8. CASE StartRollout \/ NoLeaf \/ EndRollout \/ Finish
    <2>1. phase \notin {"generate", "filter", "execute"} /\ UNCHANGED <<tree, tally, batch>>
          /\ current' \in {current, Root}
      BY <1>8 DEF StartRollout, NoLeaf, EndRollout, Finish
    <2>2. batch = {}
      BY <2>1 DEF VisitsInv, CountInv
    <2> QED  BY <2>1, <2>2, OthersKeepVisits
  <1>9. CASE UNCHANGED searchVars
    <2>1. UNCHANGED <<tree, tally, batch, phase, current>>
      BY <1>9 DEF searchVars
    <2> QED  BY <2>1, OthersKeepVisits DEF VisitsInv, CountInv
  <1> QED
    BY <1>1, <1>2, <1>3, <1>4, <1>6, <1>7, <1>8, <1>9 DEF SearchNext

LEMMA InitVisits == SearchInit => VisitsInv
  <1> SUFFICES ASSUME SearchInit PROVE VisitsInv
    OBVIOUS
  <1>1. /\ DOMAIN tree = {Root} /\ tally = [n \in {Root} |-> NoVisit]
        /\ tree[Root].reward = None /\ tree[Root].status = "expanded"
        /\ batch = {} /\ current = Root
    BY DEF SearchInit
  <1>2. Visitors(Root) = {}
    <2>1. ~Counted(Root, Root)
      BY <1>1 DEF Counted
    <2> QED  BY <1>1, <2>1 DEF Visitors
  <1>3. CountInv
    <2>1. IsFiniteSet(DOMAIN tree)
      BY <1>1, FS_Singleton
    <2>2. Statistics(Visitors(Root)) = NoVisit
      BY <1>2, NoStatistics
    <2> QED  BY <1>1, <2>1, <2>2 DEF CountInv
  <1>4. CurrentInv
    BY <1>1 DEF CurrentInv
  <1> QED  BY <1>3, <1>4 DEF VisitsInv

-----------------------------------------------------------------------------
(* The theorems.                                                           *)

\* Steps that leave tree and cache alone.
LEMMA OtherActionsKeep ==
    ASSUME IInv,
           StartRollout \/ NoLeaf \/ Backpropagate \/ EndRollout \/ Finish
             \/ UNCHANGED searchVars
    PROVE  IInv' /\ time' = time
  <1> DEFINE Other == {"rollout", "select", "check", "finish", "done"}
  <1>1. /\ UNCHANGED <<tree, time, queue>>
        /\ rollout' \in Nat
        /\ batch' \in {batch, {}}
        /\ batch' # batch => queue = {}
        /\ \/ phase' = phase
           \/ phase' \in Other /\ queue = {}
    <2>1. rollout \in Nat /\ (phase # "execute" => queue = {})
      BY DEF IInv, TreeInv, BatchInv, NodesInv
    <2>2. CASE StartRollout
      BY <2>1, <2>2 DEF StartRollout, planCache
    <2>3. CASE NoLeaf
      BY <2>1, <2>3 DEF NoLeaf, planCache
    <2>4. CASE Backpropagate
      <3>1. phase' \in Other
        BY <2>4 DEF Backpropagate
      <3> QED  BY <2>1, <2>4, <3>1 DEF Backpropagate
    <2>5. CASE EndRollout
      BY <2>1, <2>5 DEF EndRollout, planCache
    <2>6. CASE Finish
      BY <2>1, <2>6 DEF Finish, planCache
    <2>7. CASE UNCHANGED searchVars
      BY <2>1, <2>7 DEF searchVars, planCache
    <2> QED  BY <2>2, <2>3, <2>4, <2>5, <2>6, <2>7
  <1>2. TagsInv' /\ NodesInv' /\ MemoryInv' /\ TimesInv'
    BY <1>1 DEF IInv, TreeInv, TagsInv, NodesInv, MemoryInv, TimesInv, Parent, Root
  <1>3. BatchInv' /\ FreshInv'
    BY <1>1 DEF IInv, TreeInv, BatchInv, FreshInv, Fresh, Root
  <1> QED  BY <1>1, <1>2, <1>3 DEF IInv, TreeInv

\* Every step keeps the invariant and is one of the abstract cache, or none.
LEMMA StepKeeps ==
    ASSUME IInv, SearchAssumption, [SearchNext]_searchVars
    PROVE  IInv' /\ [Table!Next]_time
  <1>1. CASE \E found \in SUBSET (Bundles \ {{}}) :
               \E bundles \in SetToSeqs(found) : WarmStart(bundles)
    BY <1>1, WarmStartKeeps
  <1>2. CASE \E leaf \in DOMAIN tree : Expand(leaf)
    BY <1>2, ExpandKeeps
  <1>3. CASE Generate
    BY <1>3, GenerateKeeps
  <1>4. CASE Filter
    BY <1>4, FilterKeeps
  <1>5. CASE \E n \in Foremost : ExplainFails(n)
    BY <1>5, ExplainFailsKeeps
  <1>6. CASE \E n \in Foremost : Ineffective(n)
    BY <1>6, IneffectiveKeeps
  <1>7. CASE \E n \in Foremost : CacheHit(n)
    BY <1>7, CacheHitKeeps
  <1>8. CASE \E n \in Foremost : \E t \in Times \cup {TimeoutTime} : Measure(n, t)
    BY <1>8, MeasureKeeps DEF Table!Next
  <1>9. CASE \E n \in Foremost : ExecutionFails(n)
    BY <1>9, ExecutionFailsKeeps
  <1>10. CASE StartRollout \/ NoLeaf \/ Backpropagate \/ EndRollout \/ Finish
                \/ UNCHANGED searchVars
    BY <1>10, OtherActionsKeep
  <1> QED
    BY <1>1, <1>2, <1>3, <1>4, <1>5, <1>6, <1>7, <1>8, <1>9, <1>10 DEF SearchNext

\* The invariant of the search: types of the tree, fresh nodes, times.
THEOREM InductiveInvariant == SearchSpec => []IInv
  <1>1. SearchInit => IInv
    BY InitInvariant, SearchAssumption
  <1>2. IInv /\ [SearchNext]_searchVars => IInv'
    BY StepKeeps, SearchAssumption
  <1> QED  BY <1>1, <1>2, PTL DEF SearchSpec

\* Nodes with the same plan report the same time, measured, cached, timed out
\* or copied from the parent (MCTSSearch._execute_single_node).
THEOREM PlanHasOneTime == SearchSpec => []OneTimePerPlan
  <1>1. IInv => OneTimePerPlan
    BY DEF IInv, TimesInv, OneTimePerPlan
  <1> QED  BY <1>1, InductiveInvariant, PTL

\* Replay and result stay right with every step.
LEMMA SearchIsRight == SearchSpec => [](IInv /\ TrailInv /\ ResultInv)
  <1>1. SearchInit => TrailInv /\ ResultInv
    BY InitTrailAndResult, SearchAssumption
  <1>2. IInv /\ IInv' /\ TrailInv /\ ResultInv /\ [SearchNext]_searchVars
          => TrailInv' /\ ResultInv'
    BY StepKeepsTrailAndResult, SearchAssumption
  <1> QED  BY <1>1, <1>2, InductiveInvariant, PTL DEF SearchSpec

\* The changes kept along a branch, replayed, give the hints each node was
\* executed with (_generate_and_fill_children, collect_ancestor_hints).
THEOREM TrailIsExecuted == SearchSpec => []TrailGivesHints
  <1>1. ASSUME IInv, TrailInv
        PROVE  TrailGivesHints
    <2>1. ASSUME NEW n \in DOMAIN tree, phase = "generate" => n \notin batch
          PROVE  AncestorHints(Append(n, 1)) = tree[n].executed
      <3>1. AncestorHints(Append(n, 1)) = Inherited(tree, Append(n, 1))
        BY DEF AncestorHints, Inherited
      <3>2. n \in Seq(Int)
        BY <1>1, TagLength
      <3>3. Inherited(tree, Append(n, 1)) = Replay(tree, n)
        BY <3>2, InheritedIsReplay
      <3>4. Replay(tree, n) = tree[n].executed
        BY <1>1, <2>1 DEF TrailInv, ReplayInv
      <3> QED  BY <3>1, <3>3, <3>4
    <2> QED  BY <2>1 DEF TrailGivesHints
  <1>2. IInv /\ TrailInv /\ ResultInv => TrailGivesHints
    BY <1>1
  <1> QED  BY <1>2, SearchIsRight, PTL

\* The optimizer gets every plan the search found, once and with its time
\* (collect_solutions, convert_search_result_to_dict).
THEOREM EveryPlanIsReported == SearchSpec => []ResultComplete
  <1>1. ASSUME IInv, ResultInv, phase = "done"
        PROVE  ResultComplete
    <2>1. result = Converted(Solutions)
      BY <1>1 DEF ResultInv, DoneInv
    <2>2. ASSUME NEW s \in Solutions
          PROVE  /\ s.reward \in {-1, 0, 1}
                 /\ s.elapsed = IF s.plan = None THEN Baseline ELSE time[s.plan]
      <3>1. PICK n \in DOMAIN tree : Solution(n) /\ s = SolutionOf(n)
        BY DEF Solutions
      <3>2. Reports(tree[n]) /\ (tree[n].finder \/ tree[n].reason = "final_answer")
        BY <1>1, <3>1 DEF ResultInv, ReportInv, Solution
      <3>3. /\ s.reward = tree[n].reward /\ s.plan = tree[n].plan
            /\ s.elapsed = tree[n].elapsed
        BY <3>1 DEF SolutionOf
      <3> QED  BY <1>1, <3>2, <3>3 DEF Reports, IInv, TimesInv
    <2> DEFINE IsBest(p, s) ==
                  s.plan = p /\ \A o \in Solutions : o.plan = p => o.reward <= s.reward
               Best(p) == CHOOSE s \in Solutions : IsBest(p, s)
               Plans == {s.plan : s \in Solutions} \ {None}
    <2>3. ASSUME NEW p \in Plans
          PROVE  Best(p) \in Solutions /\ Best(p).plan = p
      <3>1. \E s \in Solutions : s.plan = p
        OBVIOUS
      <3>2. \E s \in Solutions : IsBest(p, s)
        <4>1. CASE \E s \in Solutions : s.plan = p /\ s.reward = 1
          BY <2>2, <4>1
        <4>2. CASE /\ ~\E s \in Solutions : s.plan = p /\ s.reward = 1
                   /\ \E s \in Solutions : s.plan = p /\ s.reward = 0
          BY <2>2, <4>2
        <4>3. CASE ~\E s \in Solutions : s.plan = p /\ s.reward \in {0, 1}
          BY <2>2, <3>1, <4>3
        <4> QED  BY <4>1, <4>2, <4>3
      <3> QED  BY <3>2
    <2>4. result = {s \in Solutions : s.plan = None} \cup {Best(p) : p \in Plans}
      BY <2>1 DEF Converted
    <2>5. ASSUME NEW p \in DOMAIN time \ {DefaultPlan}
          PROVE  Cardinality({s \in result : s.plan = p}) = 1
      <3>1. p \in Plans
        <4>1. PICK n \in DOMAIN tree :
                  tree[n].finder /\ tree[n].plan = p /\ tree[n].executed # {}
          BY <1>1, <2>5 DEF ResultInv, FinderInv
        <4>2. SolutionOf(n) \in Solutions /\ SolutionOf(n).plan = p
          BY <4>1 DEF Solutions, Solution, SolutionOf
        <4>3. p # None
          BY <1>1, <2>5, SearchAssumption DEF ResultInv, FinderInv, SearchAssumption
        <4> QED  BY <4>2, <4>3
      <3>2. p # None
        BY <3>1
      <3> HIDE DEF Best, Plans
      <3>3. {s \in result : s.plan = p} = {Best(p)}
        BY <2>3, <2>4, <3>1, <3>2
      <3> QED  BY <3>3, FS_Singleton
    <2>6. result \subseteq Solutions
      <3> HIDE DEF Best, Plans
      <3> QED  BY <2>3, <2>4
    <2> QED  BY <2>2, <2>5, <2>6 DEF ResultComplete
  <1>2. IInv /\ TrailInv /\ ResultInv => ResultComplete
    BY <1>1 DEF ResultComplete
  <1> QED  BY <1>2, SearchIsRight, PTL

\* The statistics of every node stay right with every step.
LEMMA VisitsAreRight == SearchSpec => []VisitsInv
  <1>1. IInv /\ TrailInv /\ ResultInv /\ VisitsInv /\ [SearchNext]_searchVars => VisitsInv'
    BY StepKeepsVisits, SearchAssumption
  <1> QED  BY <1>1, InitVisits, SearchIsRight, PTL DEF SearchSpec

\* Whatever the order of rollouts, a node's visits are itself, if it got a
\* reward, and the nodes below it that found a new plan or answered, and its
\* value is the sum of their rewards (_backpropagate_children).
THEOREM VisitsAreConserved == SearchSpec => []VisitsConserved
  <1>1. VisitsInv => VisitsConserved
    <2> DEFINE visitors(n) == {m \in DOMAIN tree :
                                  /\ tree[m].reward # None
                                  /\ \/ m = n
                                     \/ Propagates(m) /\ IsPrefix(n, m)}
    <2> SUFFICES ASSUME VisitsInv,
                        phase \in {"rollout", "select", "check", "finish", "done"},
                        NEW n \in DOMAIN tree
                 PROVE  tally[n] = Statistics(visitors(n))
      BY DEF VisitsConserved, Statistics
    <2>1. batch = {} /\ tally[n] = Statistics(Visitors(n))
      BY DEF VisitsInv, CountInv
    <2>2. Visitors(n) = visitors(n)
      BY <2>1 DEF Visitors, Counted
    <2> QED  BY <2>1, <2>2
  <1> QED  BY <1>1, VisitsAreRight, PTL

\* The cache of a search measures no plan twice and forgets none: it
\* implements PlanTable (MemoryPlanCache).
THEOREM CacheIsTable == SearchSpec => WriteOnce
  <1>1. SearchInit => Table!Init
    BY DEF SearchInit, InitBaseline, Table!Init
  <1>2. IInv /\ [SearchNext]_searchVars => [Table!Next]_time
    BY StepKeeps, SearchAssumption
  <1> QED  BY <1>1, <1>2, InductiveInvariant, PTL DEF SearchSpec, WriteOnce, Table!Spec

-----------------------------------------------------------------------------
(* The types of a search.                                                  *)

\* A rollout steps only while there is one to be made.
ScheduleInv ==
    /\ rollout \in 0 .. Iterations /\ step \in 0 .. MaxDepth
    /\ phase \in {"select", "generate", "filter", "check"} => rollout < Iterations
    /\ phase = "execute" /\ step # 0 => rollout < Iterations
    /\ phase = "select" => step < MaxDepth
    /\ phase \in {"generate", "filter"} => step # 0
    /\ phase = "warm" => step = 0

\* The cache has one entry per known time, made in the rollout of a node.
EntriesInv ==
    /\ DOMAIN info = DOMAIN time /\ DOMAIN info \subseteq Plan
    /\ \A p \in DOMAIN info :
          /\ info[p] = [first |-> info[p].first, repeats |-> info[p].repeats,
                        stats |-> info[p].stats]
          /\ info[p].first \in -1 .. Iterations
    /\ unsettled \subseteq DOMAIN info
    /\ \A n \in DOMAIN tree : tree[n].rollout \in 0 .. Iterations

\* A node is a leaf until it is expanded, has a reason when it is terminal,
\* and is executed while it is pending.
StatusInv ==
    /\ \A n \in DOMAIN tree \ {Root} :
          /\ IsLeaf(n) <=> tree[n].status # "expanded"
          /\ tree[n].reason # None <=> tree[n].status = "terminal"
    /\ \A n \in batch : tree[n].status # "expanded"
    /\ phase = "generate" => \A n \in batch : tree[n].status = "pending"
    /\ \A n \in queue : tree[n].status = "pending"

ShapeInv == ScheduleInv /\ EntriesInv /\ StatusInv

\* What becomes of a pending node.
Turned(node, old) ==
    /\ node.status \in {"pending", "terminal"}
    /\ node.reason # None <=> node.status = "terminal"
    /\ node.rollout = old.rollout

\* The tree after the expansion of a node.
Sprouted(n, actions, grown) ==
    /\ DOMAIN grown = DOMAIN tree \cup ChildTags(n, actions)
    /\ \A m \in DOMAIN tree :
          /\ grown[m].status = IF m = n THEN "expanded" ELSE tree[m].status
          /\ grown[m].reason = tree[m].reason /\ grown[m].rollout = tree[m].rollout
    /\ \A m \in ChildTags(n, actions) :
          /\ grown[m].status = "pending" /\ grown[m].reason = None
          /\ grown[m].rollout = rollout

LEMMA ExpansionSprouts ==
    ASSUME TagsInv, NodesInv, NEW n \in DOMAIN tree, NEW actions, NewActions(n, actions)
    PROVE  Sprouted(n, actions, WithChildren(n, actions))
  <1> DEFINE grown == WithChildren(n, actions)
  <1>1. DOMAIN grown = DOMAIN tree \cup ChildTags(n, actions)
    BY DEF WithChildren, ChildTags
  <1>2. ASSUME NEW m \in DOMAIN tree
        PROVE  /\ grown[m].status = IF m = n THEN "expanded" ELSE tree[m].status
               /\ grown[m].reason = tree[m].reason /\ grown[m].rollout = tree[m].rollout
    <2>1. grown[m] = IF m = n THEN [tree[n] EXCEPT !.status = "expanded"] ELSE tree[m]
      BY DEF WithChildren
    <2>2. tree[m] \in Node
      BY DEF NodesInv
    <2> HIDE DEF grown
    <2> QED  BY <2>1, <2>2 DEF Node
  <1>3. ASSUME NEW m \in ChildTags(n, actions)
        PROVE  /\ grown[m].status = "pending" /\ grown[m].reason = None
               /\ grown[m].rollout = rollout
    <2>1. PICK i \in DOMAIN actions : m = Append(n, i)
      BY DEF ChildTags
    <2>2. m \notin DOMAIN tree
      BY <2>1 DEF NewActions
    <2>3. grown[m] = NewNode(actions[Last(m)])
      BY <2>1, <2>2 DEF WithChildren, ChildTags
    <2> HIDE DEF grown
    <2> QED  BY <2>3 DEF NewNode
  <1> HIDE DEF grown
  <1> QED  BY <1>1, <1>2, <1>3 DEF Sprouted, grown

\* Only the expanded node gets children.
LEMMA LeavesOfGrown ==
    ASSUME IInv, TrailInv, NEW n \in DOMAIN tree, NEW actions, NewActions(n, actions),
           DOMAIN actions # {}, DOMAIN tree' = DOMAIN tree \cup ChildTags(n, actions)
    PROVE  /\ \A m \in DOMAIN tree \ {n} : IsLeaf(m)' <=> IsLeaf(m)
           /\ \A m \in ChildTags(n, actions) : IsLeaf(m)'
           /\ ~IsLeaf(n)'
  <1>1. \A m \in DOMAIN tree : m \in Seq(Int) /\ Len(m) \in Nat
    BY TagLength
  <1>2. ASSUME NEW c \in ChildTags(n, actions)
        PROVE  /\ c \in Seq(Int) /\ Len(c) = Len(n) + 1 /\ IsPrefix(n, c) /\ c \notin DOMAIN tree
               /\ SubSeq(c, 1, Len(n)) = n
    <2>1. PICK i \in DOMAIN actions : c = Append(n, i)
      BY DEF ChildTags
    <2>2. i \in Int /\ c \notin DOMAIN tree
      BY <2>1 DEF NewActions
    <2>3. c \in Seq(Int) /\ Len(c) = Len(n) + 1 /\ Parent(c) = n /\ IsPrefix(n, c)
      BY <1>1, <2>1, <2>2, ChildTag
    <2>4. SubSeq(c, 1, Len(n)) = n
      BY <1>1, <2>3 DEF Parent, Front
    <2> QED  BY <2>2, <2>3, <2>4
  <1>3. ASSUME NEW m \in Seq(Int), NEW c \in DOMAIN tree', c \in Children(m)'
        PROVE  Len(m) \in Nat /\ Len(c) = Len(m) + 1 /\ m = SubSeq(c, 1, Len(m))
    <2>1. Len(m) \in Nat /\ SubSeq(m, 1, Len(m)) = m
      BY SubSeqFull, LenProperties
    <2>2. Len(c) = Len(m) + 1 /\ IsPrefix(m, c)
      BY <1>3 DEF Children
    <2>3. SubSeq(m, 1, Len(m)) = SubSeq(c, 1, Len(m))
      BY <2>2 DEF IsPrefix
    <2> QED  BY <2>1, <2>2, <2>3
  <1>4. ASSUME NEW m \in DOMAIN tree \ {n}
        PROVE  IsLeaf(m)' <=> IsLeaf(m)
    <2>1. ASSUME NEW c \in ChildTags(n, actions), c \in Children(m)'
          PROVE  FALSE
      <3>1. c \in DOMAIN tree' /\ m \in Seq(Int)
        BY <1>1
      <3>2. Len(m) \in Nat /\ Len(c) = Len(m) + 1 /\ m = SubSeq(c, 1, Len(m))
        BY <1>3, <2>1, <3>1
      <3>3. Len(m) = Len(n)
        BY <1>1, <1>2, <3>2
      <3> QED  BY <1>2, <3>2, <3>3
    <2>2. Children(m)' = Children(m)
      BY <2>1 DEF Children
    <2> QED  BY <2>2 DEF IsLeaf
  <1>5. ASSUME NEW m \in ChildTags(n, actions), NEW c \in Children(m)'
        PROVE  FALSE
    <2>1. c \in DOMAIN tree' /\ m \in Seq(Int)
      BY <1>2 DEF Children
    <2>2. Len(m) \in Nat /\ Len(c) = Len(m) + 1 /\ m = SubSeq(c, 1, Len(m))
      BY <1>3, <2>1
    <2>3. c \in DOMAIN tree
      BY <1>1, <1>2, <2>1, <2>2
    <2>4. Len(m) \in 0 .. Len(c)
      BY <1>1, <2>2, <2>3
    <2>5. m \in DOMAIN tree
      BY <2>2, <2>3, <2>4 DEF TrailInv, PrefixInv
    <2> QED  BY <1>2, <2>5
  <1>6. PICK c : c \in ChildTags(n, actions)
    BY DEF ChildTags
  <1>7. c \in Children(n)'
    BY <1>2, <1>6 DEF Children
  <1> QED  BY <1>4, <1>5, <1>7 DEF IsLeaf

LEMMA GrowthKeepsStatus ==
    ASSUME IInv, TrailInv, VisitsInv, StatusInv, NEW n \in DOMAIN tree, NEW actions,
           NewActions(n, actions), DOMAIN actions # {}, n # Root => tree[n].status = "pending",
           Sprouted(n, actions, tree'), batch' = ChildTags(n, actions), queue' \subseteq batch'
    PROVE  StatusInv'
  <1>1. /\ \A m \in DOMAIN tree \ {n} : IsLeaf(m)' <=> IsLeaf(m)
        /\ \A m \in ChildTags(n, actions) : IsLeaf(m)'
        /\ ~IsLeaf(n)'
    BY LeavesOfGrown DEF Sprouted
  <1>2. ASSUME NEW m \in DOMAIN tree' \ {Root}
        PROVE  /\ IsLeaf(m)' <=> tree'[m].status # "expanded"
               /\ tree'[m].reason # None <=> tree'[m].status = "terminal"
    <2>1. CASE m \in ChildTags(n, actions)
      BY <1>1, <2>1 DEF Sprouted
    <2>2. CASE m \in DOMAIN tree \ {n}
      BY <1>1, <2>2 DEF Sprouted, StatusInv
    <2>3. CASE m = n
      BY <1>1, <2>3 DEF Sprouted, StatusInv
    <2> QED  BY <2>1, <2>2, <2>3 DEF Sprouted
  <1>3. \A m \in batch' : tree'[m].status = "pending"
    BY DEF Sprouted
  <1> QED  BY <1>2, <1>3 DEF StatusInv, Root

\* The nodes of a step turn, the others stay as they are.
LEMMA BatchKeepsStatus ==
    ASSUME IInv, VisitsInv, StatusInv, DOMAIN tree' = DOMAIN tree, batch' = batch,
           \A m \in DOMAIN tree \ batch : tree'[m] = tree[m],
           \A m \in batch : tree'[m] = tree[m] \/ Turned(tree'[m], tree[m]),
           \A m \in queue' : m \in batch /\ tree'[m].status = "pending",
           phase' # "generate"
    PROVE  StatusInv'
  <1>1. \A m \in DOMAIN tree : IsLeaf(m)' <=> IsLeaf(m)
    BY DEF IsLeaf, Children
  <1>2. ASSUME NEW m \in DOMAIN tree \ {Root}
        PROVE  /\ IsLeaf(m)' <=> tree'[m].status # "expanded"
               /\ tree'[m].reason # None <=> tree'[m].status = "terminal"
    <2>1. CASE tree'[m] = tree[m]
      BY <1>1, <2>1 DEF StatusInv
    <2>2. CASE m \in batch /\ Turned(tree'[m], tree[m])
      BY <1>1, <2>2 DEF StatusInv, Turned
    <2> QED  BY <2>1, <2>2
  <1>3. \A m \in batch : tree'[m].status # "expanded"
    BY DEF StatusInv, Turned
  <1> QED  BY <1>2, <1>3 DEF StatusInv, Root

\* How each way to settle a pending node turns it.
LEMMA FilledTurns ==
    ASSUME SearchAssumption, NEW n, tree[n] \in Node, NEW output \in Outputs \cup {None},
           tree[n].status = "pending", tree[n].reason = None
    PROVE  Turned(Filled(n, output), tree[n])
  <1> DEFINE all == IF tree[n].action \in {"A5", "A6"} THEN IF output = None THEN {} ELSE output
                    ELSE Override(AncestorHints(n), IF output = None THEN {} ELSE output)
             filled == [tree[n] EXCEPT !.own = all \ AncestorHints(n),
                                       !.deleted = AncestorHints(n) \ all, !.executed = all]
  <1>1. Filled(n, output) = IF output = None
                              THEN [filled EXCEPT !.status = "terminal", !.reason = "llm_error"]
                              ELSE filled
    BY DEF Filled
  <1> HIDE DEF all
  <1>2. /\ DOMAIN filled = DOMAIN tree[n] /\ filled.status = "pending"
        /\ filled.reason = None /\ filled.rollout = tree[n].rollout
        /\ {"status", "reason", "rollout"} \subseteq DOMAIN tree[n]
    BY DEF Node
  <1>3. "llm_error" # None
    BY DEF SearchAssumption, Reason
  <1> HIDE DEF filled
  <1> QED  BY <1>1, <1>2, <1>3 DEF Turned

LEMMA SettledTurns ==
    ASSUME SearchAssumption, NEW n, tree[n] \in Node,
           tree[n].status = "pending", tree[n].reason = None
    PROVE  Turned(Settled(n), tree[n])
  <1>1. "depth_exceeded" # None /\ "final_answer" # None
    BY DEF SearchAssumption, Reason
  <1> QED  BY <1>1 DEF Settled, Node, Turned

LEMMA RewardedTurns ==
    ASSUME SearchAssumption, NEW n, tree[n] \in Node, NEW p, NEW t,
           tree[n].status = "pending", tree[n].reason = None
    PROVE  /\ Turned(Rewarded(n, p, t), tree[n])
           /\ Turned([Rewarded(n, p, t) EXCEPT !.finder = TRUE], tree[n])
  <1> DEFINE node == [tree[n] EXCEPT !.plan = p, !.elapsed = t, !.reward = Reward(t)]
             fields == {"status", "reason", "rollout"}
  <1>1. /\ DOMAIN node = DOMAIN tree[n] /\ fields \subseteq DOMAIN node
        /\ node.status = "pending" /\ node.reason = None /\ node.rollout = tree[n].rollout
    BY DEF Node
  <1>2. \/ Rewarded(n, p, t) = node
        \/ \E r \in {"final_answer", "depth_exceeded"} :
              Rewarded(n, p, t) = [node EXCEPT !.status = "terminal", !.reason = r]
    BY DEF Rewarded
  <1>3. "depth_exceeded" # None /\ "final_answer" # None
    BY DEF SearchAssumption, Reason
  <1> HIDE DEF node
  <1>4. Turned(Rewarded(n, p, t), tree[n]) /\ fields \subseteq DOMAIN Rewarded(n, p, t)
    BY <1>1, <1>2, <1>3 DEF Turned
  <1> QED  BY <1>4 DEF Turned

LEMMA StepKeepsSchedule ==
    ASSUME SearchAssumption, ScheduleInv, [SearchNext]_searchVars
    PROVE  ScheduleInv'
  <1>1. Iterations \in Nat /\ MaxDepth \in Nat \ {0}
    BY DEF SearchAssumption
  <1> USE <1>1 DEF ScheduleInv
  <1>2. ASSUME NEW bundles, WarmStart(bundles)
        PROVE  ScheduleInv'
    BY <1>2 DEF WarmStart
  <1>3. ASSUME NEW leaf, Expand(leaf)
        PROVE  ScheduleInv'
    BY <1>3 DEF Expand
  <1>4. CASE StartRollout \/ NoLeaf \/ Generate \/ Filter \/ EndRollout \/ Finish
    BY <1>4 DEF StartRollout, NoLeaf, Generate, Filter, EndRollout, Finish
  <1>5. ASSUME NEW n, NEW node, Executed(n, node)
        PROVE  ScheduleInv'
    BY <1>5 DEF Executed
  <1>6. CASE Backpropagate
    <2>1. /\ phase = "execute" /\ UNCHANGED <<rollout, step>>
          /\ phase' = CASE step = 0 -> "rollout"
                        [] step \in 1 .. MaxDepth - 1 -> "select"
                        [] OTHER -> "check"
      BY <1>6 DEF Backpropagate
    <2>2. CASE step = 0
      BY <2>1, <2>2
    <2>3. CASE step \in 1 .. MaxDepth - 1
      BY <2>1, <2>3
    <2>4. CASE step # 0 /\ step \notin 1 .. MaxDepth - 1
      BY <2>1, <2>4
    <2> QED  BY <2>2, <2>3, <2>4
  <1>7. CASE UNCHANGED searchVars
    BY <1>7 DEF searchVars
  <1> QED
    BY <1>2, <1>3, <1>4, <1>5, <1>6, <1>7
       DEF SearchNext, ExplainFails, Ineffective, CacheHit, ExecutionFails, Measure

\* The nodes of a step are open, and their state is that of a pending node.
LEMMA PendingInBatch ==
    ASSUME IInv, VisitsInv, StatusInv, NEW n \in batch
    PROVE  /\ n \in DOMAIN tree \ {Root} /\ tree[n] \in Node
           /\ tree[n].status \in {"pending", "terminal"}
           /\ tree[n].status = "pending" => tree[n].reason = None
           /\ tree[n].reason # None <=> tree[n].status = "terminal"
  <1>1. n \in DOMAIN tree \ {Root} /\ tree[n] \in Node
    BY TagLength DEF IInv, TreeInv, BatchInv, VisitsInv, CurrentInv
  <1>2. tree[n].status \in {"pending", "expanded", "terminal"}
    BY <1>1 DEF Node
  <1> QED  BY <1>1, <1>2 DEF StatusInv

\* A step that makes nodes of this rollout keeps the entries' bounds.
LEMMA GrowthKeepsEntries ==
    ASSUME ScheduleInv, EntriesInv, UNCHANGED <<time, info, unsettled>>,
           NEW n, NEW actions, Sprouted(n, actions, tree')
    PROVE  EntriesInv'
  <1>1. \A m \in DOMAIN tree' : tree'[m].rollout \in 0 .. Iterations
    BY DEF Sprouted, EntriesInv, ScheduleInv
  <1> QED  BY <1>1 DEF EntriesInv

LEMMA WarmStartKeepsShape ==
    ASSUME IInv, SearchAssumption, TrailInv, VisitsInv, ShapeInv,
           NEW found \in SUBSET (Bundles \ {{}}), NEW bundles \in SetToSeqs(found),
           WarmStart(bundles)
    PROVE  EntriesInv' /\ StatusInv'
  <1>1. CASE bundles = <<>>
    <2>1. UNCHANGED <<tree, batch, queue, time, info, unsettled>> /\ phase' = "rollout"
      BY <1>1 DEF WarmStart, planCache
    <2> QED  BY <2>1 DEF ShapeInv, EntriesInv, StatusInv, IsLeaf, Children
  <1>2. CASE bundles # <<>>
    <2> DEFINE actions == [i \in DOMAIN bundles |-> "A5"]
               grown == WithChildren(Root, actions)
    <2>1. /\ DOMAIN bundles \subseteq Int /\ DOMAIN bundles # {}
          /\ \A i \in DOMAIN bundles : bundles[i] \in SUBSET Hint
      <3> DEFINE k == Cardinality(found)
      <3>1. IsFiniteSet(found)
        BY FS_Subset DEF SearchAssumption
      <3>2. k \in Nat
        BY ONLY <3>1, FS_CardinalityType
      <3>3. bundles \in [1 .. k -> found] /\ found \subseteq SUBSET Hint
        BY DEF SetToSeqs, SearchAssumption
      <3> HIDE DEF k
      <3>4. bundles \in Seq(found)
        <4>1. bundles \in UNION {[1 .. j -> found] : j \in Nat}
          BY ONLY <3>2, <3>3
        <4> QED  BY ONLY <4>1, SeqDef
      <3>5. DOMAIN bundles # {}
        <4>1. Len(bundles) \in Nat \ {0}
          BY ONLY <1>2, <3>4, EmptySeq
        <4>2. DOMAIN bundles = 1 .. Len(bundles)
          BY ONLY <3>4, LenProperties
        <4>3. 1 \in 1 .. Len(bundles)
          BY ONLY <4>1
        <4> QED  BY ONLY <4>2, <4>3
      <3> QED  BY <3>2, <3>3, <3>5
    <2>2. TagsInv /\ NodesInv /\ DOMAIN tree = {Root} /\ Root \in DOMAIN tree
      BY DEF IInv, TreeInv, WarmStart, BatchInv
    <2>3. /\ tree' = [n \in DOMAIN grown |->
                        IF n = Root THEN grown[n]
                        ELSE [grown[n] EXCEPT !.own = bundles[Last(n)],
                                              !.executed = bundles[Last(n)]]]
          /\ queue' = batch' /\ phase' = "execute"
          /\ UNCHANGED <<time, info, unsettled>>
      BY <1>2 DEF WarmStart, planCache
    <2>4. batch' = ChildTags(Root, actions)
      <3>1. \A i \in DOMAIN bundles : Append(Root, i) = <<i>>
        BY DEF Root
      <3> QED  BY <1>2, <3>1 DEF ChildTags, WarmStart
    <2>5. NewActions(Root, actions) /\ DOMAIN actions # {}
      BY <2>1, <2>2, ChildTag, EmptySeq DEF NewActions, Root
    <2>6. Sprouted(Root, actions, grown) /\ GrownBy(ChildTags(Root, actions), grown)
      BY <2>2, <2>5, ExpansionSprouts, Growth
    <2> HIDE DEF grown, actions
    <2>7. ASSUME NEW n \in DOMAIN grown
          PROVE  /\ tree'[n].status = grown[n].status /\ tree'[n].reason = grown[n].reason
                 /\ tree'[n].rollout = grown[n].rollout
      <3>1. grown[n] \in Node
        BY <2>6 DEF GrownBy
      <3> QED  BY <2>3, <3>1 DEF Node
    <2>8. DOMAIN tree' = DOMAIN grown
      BY <2>3
    <2>9. Sprouted(Root, actions, tree')
      BY <2>2, <2>6, <2>7, <2>8 DEF Sprouted
    <2>10. EntriesInv'
      BY <2>3, <2>9, GrowthKeepsEntries DEF ShapeInv
    <2>11. StatusInv'
      BY <2>2, <2>3, <2>4, <2>5, <2>9, GrowthKeepsStatus DEF ShapeInv
    <2> QED  BY <2>10, <2>11
  <1> QED  BY <1>1, <1>2

\* A leaf can always answer, so that its expansion gives it a child.
LEMMA ExpandKeepsShape ==
    ASSUME IInv, SearchAssumption, TrailInv, VisitsInv, ShapeInv,
           NEW leaf \in DOMAIN tree, Expand(leaf)
    PROVE  EntriesInv' /\ StatusInv'
  <1> DEFINE actions == AllowedActions(leaf)
  <1>1. \A i \in DOMAIN actions :
           i \in Int /\ actions[i] \in {"A1", "A2", "A3", "A4", "A5", "A6"}
    BY ElementOfSeq DEF AllowedActions, Restrict, SearchAssumption
  <1>2. DOMAIN actions # {}
    <2>1. PICK i \in DOMAIN ActionType : ActionType[i] = "A6"
      BY DEF SearchAssumption
    <2>2. i \in DOMAIN actions
      BY <2>1 DEF AllowedActions, Restrict
    <2> QED  BY <2>2
  <1>3. /\ tree' = WithChildren(leaf, actions)
        /\ batch' = ChildTags(leaf, actions)
        /\ queue' = queue /\ queue = {} /\ IsLeaf(leaf) /\ leaf \in Descents(current)
        /\ UNCHANGED <<time, info, unsettled>>
    BY DEF Expand, planCache, ChildTags, IInv, TreeInv, BatchInv
  <1> HIDE DEF actions
  <1>4. NewActions(leaf, actions)
    BY <1>1, <1>3, LeafHasNoChild DEF NewActions, IInv, TreeInv
  <1>5. Sprouted(leaf, actions, tree')
    BY <1>3, <1>4, ExpansionSprouts DEF IInv, TreeInv
  <1>6. leaf # Root => tree[leaf].status = "pending"
    <2>1. tree[leaf].status \in {"pending", "expanded", "terminal"}
      BY TagLength DEF Node
    <2>2. tree[leaf].status # "terminal"
      BY <1>3, SelectedIsOpen
    <2> QED  BY <1>3, <2>1, <2>2 DEF ShapeInv, StatusInv
  <1>7. EntriesInv'
    BY <1>3, <1>5, GrowthKeepsEntries DEF ShapeInv
  <1>8. StatusInv'
    BY <1>2, <1>3, <1>4, <1>5, <1>6, GrowthKeepsStatus DEF ShapeInv
  <1> QED  BY <1>7, <1>8

LEMMA GenerateKeepsShape ==
    ASSUME IInv, SearchAssumption, VisitsInv, ShapeInv, Generate
    PROVE  EntriesInv' /\ StatusInv'
  <1>1. PICK output \in [batch -> Outputs \cup {None}] :
           tree' = [n \in DOMAIN tree |->
                      IF n \in batch THEN Filled(n, output[n]) ELSE tree[n]]
    BY DEF Generate
  <1>2. /\ phase = "generate" /\ phase' = "filter" /\ DOMAIN tree' = DOMAIN tree
        /\ UNCHANGED <<batch, queue, time, info, unsettled>> /\ queue = {}
        /\ \A n \in DOMAIN tree \ batch : tree'[n] = tree[n]
        /\ batch \subseteq DOMAIN tree
    BY <1>1 DEF Generate, planCache, IInv, TreeInv, BatchInv
  <1>3. ASSUME NEW n \in batch
        PROVE  Turned(tree'[n], tree[n])
    <2>1. tree[n] \in Node /\ tree[n].status = "pending" /\ tree[n].reason = None
      BY <1>2, PendingInBatch DEF ShapeInv, StatusInv
    <2>2. output[n] \in Outputs \cup {None} /\ tree'[n] = Filled(n, output[n])
      BY <1>1, <1>2
    <2> QED  BY <2>1, <2>2, FilledTurns
  <1>4. \A n \in DOMAIN tree : tree'[n].rollout = tree[n].rollout
    BY <1>2, <1>3 DEF Turned
  <1>5. EntriesInv'
    BY <1>2, <1>4 DEF ShapeInv, EntriesInv
  <1>6. StatusInv'
    BY <1>2, <1>3, BatchKeepsStatus DEF ShapeInv
  <1> QED  BY <1>5, <1>6

LEMMA FilterKeepsShape ==
    ASSUME IInv, SearchAssumption, VisitsInv, ShapeInv, Filter
    PROVE  EntriesInv' /\ StatusInv'
  <1>1. /\ phase' = "execute" /\ DOMAIN tree' = DOMAIN tree
        /\ UNCHANGED <<batch, time, info, unsettled>>
        /\ queue' = {n \in batch : ~IsTerminal(n) /\ ~Unchanged(n)}
        /\ \A n \in DOMAIN tree :
              tree'[n] = IF n \in batch /\ ~IsTerminal(n) /\ Unchanged(n)
                           THEN Settled(n) ELSE tree[n]
        /\ batch \subseteq DOMAIN tree
    BY DEF Filter, planCache, IInv, TreeInv, BatchInv
  <1>2. ASSUME NEW n \in batch
        PROVE  tree'[n] = tree[n] \/ Turned(tree'[n], tree[n])
    <2>1. CASE ~IsTerminal(n) /\ Unchanged(n)
      <3>1. tree[n] \in Node /\ tree[n].status = "pending" /\ tree[n].reason = None
        BY <2>1, PendingInBatch DEF ShapeInv, IsTerminal
      <3> QED  BY <1>1, <2>1, <3>1, SettledTurns
    <2>2. CASE ~(~IsTerminal(n) /\ Unchanged(n))
      BY <1>1, <2>2
    <2> QED  BY <2>1, <2>2
  <1>3. \A m \in queue' : m \in batch /\ tree'[m].status = "pending"
    BY <1>1, PendingInBatch DEF ShapeInv, IsTerminal
  <1>4. \A n \in DOMAIN tree : tree'[n].rollout = tree[n].rollout
    BY <1>1, <1>2 DEF Turned
  <1>5. EntriesInv'
    BY <1>1, <1>4 DEF ShapeInv, EntriesInv
  <1>6. StatusInv'
    BY <1>1, <1>2, <1>3, BatchKeepsStatus DEF ShapeInv
  <1> QED  BY <1>5, <1>6

\* A node that is executed turns.
LEMMA ExecutedKeepsShape ==
    ASSUME IInv, SearchAssumption, VisitsInv, StatusInv, NEW n \in Foremost, NEW node,
           Executed(n, node), Turned(node, tree[n])
    PROVE  /\ StatusInv' /\ DOMAIN tree' = DOMAIN tree
           /\ \A m \in DOMAIN tree : tree'[m].rollout = tree[m].rollout
  <1>1. /\ n \in DOMAIN tree /\ n \in queue /\ n \in batch
        /\ phase' = "execute" /\ batch' = batch
        /\ tree' = [tree EXCEPT ![n] = node]
        /\ queue' = queue \ {n} /\ queue \subseteq batch /\ batch \subseteq DOMAIN tree
    BY PlanOfNode DEF Executed, IInv, TreeInv, BatchInv
  <1>2. /\ DOMAIN tree' = DOMAIN tree
        /\ \A m \in DOMAIN tree : tree'[m] = IF m = n THEN node ELSE tree[m]
    BY <1>1
  <1>3. \A m \in DOMAIN tree \ batch : tree'[m] = tree[m]
    BY <1>1, <1>2
  <1>4. \A m \in batch : tree'[m] = tree[m] \/ Turned(tree'[m], tree[m])
    BY <1>1, <1>2
  <1>5. \A m \in queue' : m \in batch /\ tree'[m].status = "pending"
    BY <1>1, <1>2 DEF StatusInv
  <1>6. StatusInv'
    BY <1>1, <1>2, <1>3, <1>4, <1>5, BatchKeepsStatus
  <1>7. \A m \in DOMAIN tree : tree'[m].rollout = tree[m].rollout
    BY <1>2 DEF Turned
  <1> QED  BY <1>2, <1>6, <1>7

LEMMA ExecutionKeepsShape ==
    ASSUME IInv, SearchAssumption, VisitsInv, ShapeInv, NEW n \in Foremost,
           \/ ExplainFails(n) \/ Ineffective(n) \/ CacheHit(n) \/ ExecutionFails(n)
           \/ \E t \in Times \cup {TimeoutTime} : Measure(n, t)
    PROVE  EntriesInv' /\ StatusInv'
  <1> DEFINE p == PlanOf[tree[n].executed]
  <1>1. /\ tree[n] \in Node /\ p \in Plan /\ n \in DOMAIN tree
        /\ tree[n].status = "pending" /\ tree[n].reason = None
    BY PlanOfNode, PendingInBatch DEF IInv, TreeInv, BatchInv, ShapeInv, StatusInv
  <1>2. {"db_execution_error", "ineffective_hints"} \subseteq Reason /\ None \notin Reason
    BY DEF SearchAssumption, Reason
  <1>3. StatusInv /\ EntriesInv
    BY DEF ShapeInv
  <1>4. CASE ExplainFails(n)
    <2> DEFINE node == [tree[n] EXCEPT !.status = "terminal", !.reason = "db_execution_error"]
    <2>1. Executed(n, node) /\ UNCHANGED <<time, info, unsettled>>
      BY <1>4 DEF ExplainFails, planCache
    <2>2. Turned(node, tree[n])
      BY <1>1, <1>2 DEF Node, Turned
    <2> HIDE DEF node
    <2> QED  BY <1>3, <2>1, <2>2, ExecutedKeepsShape DEF EntriesInv
  <1>5. CASE Ineffective(n)
    <2> DEFINE node == [tree[n] EXCEPT !.status = "terminal", !.reason = "ineffective_hints",
                                       !.reward = 0, !.plan = p,
                                       !.elapsed = tree[Parent(n)].elapsed]
    <2>1. Executed(n, node) /\ UNCHANGED <<time, info, unsettled>>
      BY <1>5 DEF Ineffective, planCache
    <2>2. Turned(node, tree[n])
      BY <1>1, <1>2 DEF Node, Turned
    <2> HIDE DEF node
    <2> QED  BY <1>3, <2>1, <2>2, ExecutedKeepsShape DEF EntriesInv
  <1>6. CASE ExecutionFails(n)
    <2> DEFINE node == [tree[n] EXCEPT !.status = "terminal", !.plan = p,
                                       !.reason = "db_execution_error"]
    <2>1. Executed(n, node) /\ UNCHANGED <<time, info, unsettled>>
      BY <1>6 DEF ExecutionFails, planCache
    <2>2. Turned(node, tree[n])
      BY <1>1, <1>2 DEF Node, Turned
    <2> HIDE DEF node
    <2> QED  BY <1>3, <2>1, <2>2, ExecutedKeepsShape DEF EntriesInv
  <1>7. CASE CacheHit(n)
    <2>1. /\ Executed(n, Rewarded(n, p, time[p])) /\ p \in DOMAIN time
          /\ info' = [info EXCEPT ![p].repeats =
                         IF tree[n].rollout = info[p].first THEN @
                         ELSE @ \cup {tree[n].rollout}]
          /\ UNCHANGED <<time, unsettled>>
      BY <1>7 DEF CacheHit, Lookup
    <2>2. Turned(Rewarded(n, p, time[p]), tree[n])
      BY <1>1, RewardedTurns
    <2> HIDE DEF p
    <2>3. /\ StatusInv' /\ DOMAIN tree' = DOMAIN tree
          /\ \A m \in DOMAIN tree : tree'[m].rollout = tree[m].rollout
      BY <1>3, <2>1, <2>2, ExecutedKeepsShape
    <2>4. DOMAIN info' = DOMAIN info
      BY <2>1
    <2>5. ASSUME NEW q \in DOMAIN info
          PROVE  /\ info'[q] = [first |-> info'[q].first, repeats |-> info'[q].repeats,
                                stats |-> info'[q].stats]
                 /\ info'[q].first \in -1 .. Iterations
      <3>1. /\ info[q] = [first |-> info[q].first, repeats |-> info[q].repeats,
                          stats |-> info[q].stats]
            /\ info[q].first \in -1 .. Iterations
        BY <1>3 DEF EntriesInv
      <3>2. CASE q = p
        <4>1. PICK r : info'[q] = [info[q] EXCEPT !.repeats = r]
          BY <2>1, <3>2
        <4> QED  BY <3>1, <4>1
      <3>3. CASE q # p
        <4>1. info'[q] = info[q]
          BY <2>1, <3>3
        <4> QED  BY <3>1, <4>1
      <3> QED  BY <3>2, <3>3
    <2> QED  BY <1>3, <2>1, <2>3, <2>4, <2>5 DEF EntriesInv
  <1>8. ASSUME NEW t \in Times \cup {TimeoutTime}, Measure(n, t)
        PROVE  EntriesInv' /\ StatusInv'
    <2> DEFINE node == [Rewarded(n, p, t) EXCEPT !.finder = TRUE]
               entry == [first |-> tree[n].rollout, repeats |-> {}, stats |-> <<>>]
    <2>1. /\ Executed(n, node)
          /\ time' = [q \in DOMAIN time \cup {p} |-> IF q = p THEN t ELSE time[q]]
          /\ info' = [q \in DOMAIN info \cup {p} |-> IF q = p THEN entry ELSE info[q]]
          /\ unsettled' = unsettled \cup {p}
      BY <1>8 DEF Measure
    <2>2. Turned(node, tree[n])
      BY <1>1, RewardedTurns
    <2> HIDE DEF p, node
    <2>3. /\ StatusInv' /\ DOMAIN tree' = DOMAIN tree
          /\ \A m \in DOMAIN tree : tree'[m].rollout = tree[m].rollout
      BY <1>3, <2>1, <2>2, ExecutedKeepsShape
    <2>4. /\ DOMAIN info' = DOMAIN info \cup {p} /\ DOMAIN time' = DOMAIN time \cup {p}
      BY <2>1
    <2>5. ASSUME NEW q \in DOMAIN info'
          PROVE  /\ info'[q] = [first |-> info'[q].first, repeats |-> info'[q].repeats,
                                stats |-> info'[q].stats]
                 /\ info'[q].first \in -1 .. Iterations
      <3>1. CASE q = p
        <4>1. info'[q] = entry
          BY <2>1, <2>4, <3>1
        <4>2. tree[n].rollout \in 0 .. Iterations /\ Iterations \in Nat
          BY <1>1, <1>3 DEF EntriesInv, SearchAssumption
        <4> QED  BY <4>1, <4>2
      <3>2. CASE q # p
        <4>1. info'[q] = info[q] /\ q \in DOMAIN info
          BY <2>1, <2>4, <3>2
        <4> QED  BY <1>3, <4>1 DEF EntriesInv
      <3> QED  BY <3>1, <3>2
    <2> QED  BY <1>1, <1>3, <2>1, <2>3, <2>4, <2>5 DEF EntriesInv
  <1> QED  BY <1>4, <1>5, <1>6, <1>7, <1>8

\* A plan's statistics are noted; its entry is the same otherwise.
LEMMA BackpropagateKeepsShape ==
    ASSUME ShapeInv, Backpropagate
    PROVE  EntriesInv' /\ StatusInv'
  <1>1. /\ UNCHANGED <<tree, time, queue>> /\ batch' = {} /\ queue = {} /\ unsettled' = {}
        /\ phase' # "generate"
    <2>1. phase' \in {"rollout", "select", "check"}
      BY DEF Backpropagate
    <2> QED  BY <2>1 DEF Backpropagate
  <1>2. /\ DOMAIN info' = DOMAIN info
        /\ \A p \in DOMAIN info :
              info'[p] = info[p] \/ \E stats : info'[p] = [info[p] EXCEPT !.stats = stats]
    BY DEF Backpropagate
  <1>3. ASSUME NEW p \in DOMAIN info
        PROVE  /\ info'[p] = [first |-> info'[p].first, repeats |-> info'[p].repeats,
                              stats |-> info'[p].stats]
               /\ info'[p].first \in -1 .. Iterations
    <2>1. /\ info[p] = [first |-> info[p].first, repeats |-> info[p].repeats,
                        stats |-> info[p].stats]
          /\ info[p].first \in -1 .. Iterations
      BY DEF ShapeInv, EntriesInv
    <2>2. CASE info'[p] = info[p]
      BY <2>1, <2>2
    <2>3. ASSUME NEW stats, info'[p] = [info[p] EXCEPT !.stats = stats]
          PROVE  /\ info'[p] = [first |-> info'[p].first, repeats |-> info'[p].repeats,
                                stats |-> info'[p].stats]
                 /\ info'[p].first \in -1 .. Iterations
      BY <2>1, <2>3
    <2> QED  BY <1>2, <2>2, <2>3
  <1>4. EntriesInv'
    BY <1>1, <1>2, <1>3 DEF ShapeInv, EntriesInv
  <1>5. StatusInv'
    BY <1>1 DEF ShapeInv, StatusInv, IsLeaf, Children
  <1> QED  BY <1>4, <1>5

LEMMA OthersKeepShape ==
    ASSUME ShapeInv, UNCHANGED <<tree, planCache, batch, queue>>,
           phase' = "generate" => phase = "generate"
    PROVE  EntriesInv' /\ StatusInv'
  BY DEF ShapeInv, EntriesInv, StatusInv, IsLeaf, Children, planCache

LEMMA StepKeepsShape ==
    ASSUME IInv, SearchAssumption, TrailInv, VisitsInv, ShapeInv, [SearchNext]_searchVars
    PROVE  ShapeInv'
  <1>1. ScheduleInv'
    BY StepKeepsSchedule DEF ShapeInv
  <1>2. CASE \E found \in SUBSET (Bundles \ {{}}) :
               \E bundles \in SetToSeqs(found) : WarmStart(bundles)
    BY <1>1, <1>2, WarmStartKeepsShape DEF ShapeInv
  <1>3. CASE \E leaf \in DOMAIN tree : Expand(leaf)
    BY <1>1, <1>3, ExpandKeepsShape DEF ShapeInv
  <1>4. CASE Generate
    BY <1>1, <1>4, GenerateKeepsShape DEF ShapeInv
  <1>5. CASE Filter
    BY <1>1, <1>5, FilterKeepsShape DEF ShapeInv
  <1>6. CASE \E n \in Foremost :
               \/ ExplainFails(n) \/ Ineffective(n) \/ CacheHit(n) \/ ExecutionFails(n)
               \/ \E t \in Times \cup {TimeoutTime} : Measure(n, t)
    BY <1>1, <1>6, ExecutionKeepsShape DEF ShapeInv
  <1>7. CASE Backpropagate
    BY <1>1, <1>7, BackpropagateKeepsShape DEF ShapeInv
  <1>8. CASE StartRollout \/ NoLeaf \/ EndRollout \/ Finish
    <2>1. UNCHANGED <<tree, planCache, batch, queue>> /\ phase' # "generate"
      BY <1>8 DEF StartRollout, NoLeaf, EndRollout, Finish
    <2> QED  BY <1>1, <2>1, OthersKeepShape DEF ShapeInv
  <1>9. CASE UNCHANGED searchVars
    <2>1. UNCHANGED <<tree, planCache, batch, queue, phase>>
      BY <1>9 DEF searchVars
    <2> QED  BY <1>1, <2>1, OthersKeepShape DEF ShapeInv
  <1> QED
    BY <1>2, <1>3, <1>4, <1>5, <1>6, <1>7, <1>8, <1>9 DEF SearchNext

LEMMA InitShape == ASSUME SearchAssumption PROVE SearchInit => ShapeInv
  <1> SUFFICES ASSUME SearchInit PROVE ShapeInv
    OBVIOUS
  <1> USE DEF SearchInit, InitBaseline
  <1>1. Iterations \in Nat /\ MaxDepth \in Nat \ {0} /\ DefaultPlan \in Plan
    BY DEF SearchAssumption
  <1>2. ScheduleInv
    BY <1>1 DEF ScheduleInv
  <1>3. EntriesInv
    BY <1>1 DEF EntriesInv
  <1>4. StatusInv
    BY DEF StatusInv
  <1> QED  BY <1>2, <1>3, <1>4 DEF ShapeInv

\* The statistics of a finite set of nodes are numbers.
LEMMA StatisticsType ==
    ASSUME NEW nodes, IsFiniteSet(nodes)
    PROVE  Statistics(nodes) \in [visits : Nat, value : Int]
  <1> DEFINE won == {c \in nodes : tree[c].reward = 1}
             lost == {c \in nodes : tree[c].reward = -1}
  <1>1. IsFiniteSet(won) /\ IsFiniteSet(lost)
    BY FS_Subset
  <1>2. Cardinality(nodes) \in Nat /\ Cardinality(won) \in Nat /\ Cardinality(lost) \in Nat
    BY <1>1, FS_CardinalityType
  <1> QED  BY <1>2 DEF Statistics, Balance

\* A search's variables have their types: the tree is closed under parents, the
\* leaves of it are the nodes that are not expanded, the terminal ones have a
\* reason, and every entry of the cache has a time (MCTSSearch, SearchNode,
\* MemoryPlanCache).
THEOREM SearchTypeCorrect == SearchSpec => []SearchTypeOK
  <1>1. ASSUME IInv, VisitsInv, ShapeInv
        PROVE  SearchTypeOK
    <2>1. /\ Root \in DOMAIN tree /\ tree \in [DOMAIN tree -> Node]
          /\ \A n \in DOMAIN tree \ {Root} : Parent(n) \in DOMAIN tree
      BY <1>1 DEF IInv, TreeInv, TagsInv, NodesInv
    <2>2. tally \in [DOMAIN tree -> [visits : Nat, value : Int]]
      <3>1. /\ tally = [n \in DOMAIN tree |-> Statistics(Visitors(n))]
            /\ IsFiniteSet(DOMAIN tree)
        BY <1>1 DEF VisitsInv, CountInv
      <3>2. ASSUME NEW n \in DOMAIN tree
            PROVE  Statistics(Visitors(n)) \in [visits : Nat, value : Int]
        <4>1. Visitors(n) \subseteq DOMAIN tree
          BY DEF Visitors
        <4> QED  BY <3>1, <4>1, FS_Subset, StatisticsType
      <3> QED  BY <3>1, <3>2
    <2>3. \A n \in DOMAIN tree \ {Root} :
             /\ tree[n].status \in {"pending", "expanded", "terminal"}
             /\ IsLeaf(n) <=> tree[n].status # "expanded"
             /\ tree[n].reason # None <=> IsTerminal(n)
      BY <1>1, TagLength DEF ShapeInv, StatusInv, IsTerminal, Node
    <2>4. time \in [DOMAIN info -> Nat]
      BY <1>1 DEF IInv, MemoryInv, ShapeInv, EntriesInv
    <2>5. /\ DOMAIN info \subseteq Plan /\ unsettled \subseteq DOMAIN info
          /\ \A p \in DOMAIN info : info[p].first \in -1 .. Iterations
      BY <1>1 DEF ShapeInv, EntriesInv
    <2>6. rollout \in 0 .. Iterations /\ step \in 0 .. MaxDepth
      BY <1>1 DEF ShapeInv, ScheduleInv
    <2>7. current \in DOMAIN tree /\ queue \subseteq batch /\ batch \subseteq DOMAIN tree
      BY <1>1 DEF VisitsInv, CurrentInv, IInv, TreeInv, BatchInv
    <2> QED  BY <2>1, <2>2, <2>3, <2>4, <2>5, <2>6, <2>7 DEF SearchTypeOK
  <1>2. IInv /\ VisitsInv /\ ShapeInv => SearchTypeOK
    BY <1>1
  <1>3. SearchInit => ShapeInv
    BY InitShape, SearchAssumption
  <1>4. IInv /\ TrailInv /\ ResultInv /\ VisitsInv /\ ShapeInv /\ [SearchNext]_searchVars
           => ShapeInv'
    BY StepKeepsShape, SearchAssumption
  <1> QED  BY <1>2, <1>3, <1>4, SearchIsRight, VisitsAreRight, PTL DEF SearchSpec

-----------------------------------------------------------------------------
(* Decision *)
Candidate == [plan : CandidatePlan, hints : {"none", "outline", "enumerated"}]

Running == stage \in {"measure", "evaluate", "decide"}

\* The samples whose default plan has been measured.
Measured(s) == s < turn[1] \/ (s = turn[1] /\ stage = "evaluate")

\* The candidates that have been evaluated on a sample.
TriedOn(s) ==
    {i \in DOMAIN candidates :
        s < turn[1] \/ (s = turn[1] /\ stage = "evaluate" /\ i < turn[2])}

DecisionTypes ==
    /\ stage \in {"idle", "measure", "evaluate", "decide", "decided", "failed"}
    /\ candidates \in Seq(Candidate)
    /\ turn \in Nat \X Nat
    /\ defaultTime \in [Samples -> Nat]
    /\ results = [s \in Samples |-> results[s]]
    /\ trials = [s \in Samples |-> trials[s]]

\* A plan is a candidate once; without outlines a default plan's candidate has
\* no hints; a statement outline is decided only for one default plan.
CandidatesInv ==
    /\ \A i, j \in DOMAIN candidates : candidates[i].plan = candidates[j].plan => i = j
    /\ collected = Samples /\ ~extraction =>
          \A s \in Samples, i \in DOMAIN candidates :
              candidates[i].plan = defaults[s] => candidates[i].hints = "none"
    /\ Running /\ collected = Samples /\ outlineType = "statement_outline" =>
          \A r, s \in Samples : defaults[r] = defaults[s]

\* Where optimize_template stands.
TurnInv ==
    /\ stage = "idle" => turn = <<1, 1>>
    /\ stage \in {"measure", "evaluate"} =>
          turn[1] \in Samples /\ turn[2] \in DOMAIN candidates
    /\ stage = "measure" => turn[2] = 1
    /\ stage = "decide" => turn[1] = Len(Sample) + 1

\* What is known of a measured sample.
KnownOf(res, tri, default, atDefault, known) ==
    /\ default \in DOMAIN res
    /\ known => res[default] = atDefault
    /\ \A p \in DOMAIN res \ {default} : p \in DOMAIN tri /\ res[p] = tri[p].time

TrialInv(s) ==
    /\ Measured(s) => KnownOf(results[s], trials[s], defaults[s], defaultTime[s],
                              collected = Samples)
    /\ \A p \in DOMAIN trials[s] : \E i \in TriedOn(s) : p = candidates[i].plan

DecisionInv ==
    /\ DecisionTypes
    /\ CandidatesInv
    /\ TurnInv
    /\ Running \/ stage = "idle" => \A s \in Samples : TrialInv(s)
    /\ Running /\ evaluated # {} =>
          \E s \in Samples : Measured(s) /\ defaultTime[s] >= MinQueryTime
    /\ stage = "idle" => evaluated = {}
    /\ stage # "decided" => rules = {}
    /\ RulesSafe

-----------------------------------------------------------------------------
(* The candidates.                                                         *)

\* A finite set has an enumeration, so SetToSeq's choice is one.
LEMMA SetToSeqIsEnumeration ==
    ASSUME NEW S, IsFiniteSet(S)
    PROVE  SetToSeq(S) \in Seq(S) /\ IsInjective(SetToSeq(S))
  <1>1. Cardinality(S) \in Nat /\ ExistsBijection(1 .. Cardinality(S), S)
    BY FS_CardinalityType
  <1>2. \E f \in [1 .. Cardinality(S) -> S] : IsInjective(f)
    BY <1>1 DEF ExistsBijection, Bijection, Injection
  <1>3. SetToSeq(S) \in [1 .. Cardinality(S) -> S] /\ IsInjective(SetToSeq(S))
    BY <1>2 DEF SetToSeq
  <1> QED  BY <1>1, <1>3, IsASeq

\* The three kinds of candidates one after another.
LEMMA Joined ==
    ASSUME NEW T, NEW a \in Seq(T), NEW b \in Seq(T)
    PROVE  /\ a \o b \in Seq(T)
           /\ \A i \in DOMAIN (a \o b) :
                 \/ i \in DOMAIN a /\ (a \o b)[i] = a[i]
                 \/ i - Len(a) \in DOMAIN b /\ (a \o b)[i] = b[i - Len(a)]
                       /\ i \notin DOMAIN a
  <1>1. /\ a \o b \in Seq(T) /\ Len(a \o b) = Len(a) + Len(b)
        /\ \A i \in 1 .. Len(a) + Len(b) :
              (a \o b)[i] = IF i <= Len(a) THEN a[i] ELSE b[i - Len(a)]
    BY ConcatProperties
  <1>2. /\ Len(a) \in Nat /\ Len(b) \in Nat
        /\ DOMAIN a = 1 .. Len(a) /\ DOMAIN b = 1 .. Len(b)
        /\ DOMAIN (a \o b) = 1 .. Len(a) + Len(b)
    BY <1>1, LenProperties
  <1> QED  BY <1>1, <1>2

\* No plan twice in a, nor in b, nor in both.
DistinctPlans(seq) == \A i, j \in DOMAIN seq : seq[i].plan = seq[j].plan => i = j

\* Sequences of distinct plans that share none are distinct joined.
LEMMA JoinedDistinct ==
    ASSUME NEW T, NEW a \in Seq(T), NEW b \in Seq(T),
           DistinctPlans(a), DistinctPlans(b),
           \A i \in DOMAIN a, j \in DOMAIN b : a[i].plan # b[j].plan
    PROVE  DistinctPlans(a \o b)
  <1> SUFFICES ASSUME NEW i \in DOMAIN (a \o b), NEW j \in DOMAIN (a \o b),
                      (a \o b)[i].plan = (a \o b)[j].plan
               PROVE  i = j
    BY DEF DistinctPlans
  <1> DEFINE c == a \o b
  <1>1. /\ \/ i \in DOMAIN a /\ c[i] = a[i]
           \/ i - Len(a) \in DOMAIN b /\ c[i] = b[i - Len(a)]
        /\ \/ j \in DOMAIN a /\ c[j] = a[j]
           \/ j - Len(a) \in DOMAIN b /\ c[j] = b[j - Len(a)]
    BY Joined
  <1>2. i \in Nat /\ j \in Nat /\ Len(a) \in Nat
    BY Joined, LenProperties
  <1> HIDE DEF c
  <1>3. c[i].plan = c[j].plan
    BY DEF c
  <1>4. CASE i \in DOMAIN a /\ c[i] = a[i] /\ j \in DOMAIN a /\ c[j] = a[j]
    BY <1>3, <1>4 DEF DistinctPlans
  <1>5. CASE /\ i - Len(a) \in DOMAIN b /\ c[i] = b[i - Len(a)]
             /\ j - Len(a) \in DOMAIN b /\ c[j] = b[j - Len(a)]
    <2>1. i - Len(a) = j - Len(a)
      BY <1>3, <1>5 DEF DistinctPlans
    <2> QED  BY <1>2, <2>1
  <1> QED  BY <1>1, <1>3, <1>4, <1>5

KindOf(plans, kind) == {[plan |-> p, hints |-> kind] : p \in plans}

\* The candidates of one kind.
LEMMA KindIsDistinct ==
    ASSUME NEW plans \in SUBSET CandidatePlan, IsFiniteSet(CandidatePlan),
           NEW kind \in {"none", "outline", "enumerated"}
    PROVE  /\ SetToSeq(KindOf(plans, kind)) \in Seq(Candidate)
           /\ DistinctPlans(SetToSeq(KindOf(plans, kind)))
           /\ \A i \in DOMAIN SetToSeq(KindOf(plans, kind)) :
                 /\ SetToSeq(KindOf(plans, kind))[i].plan \in plans
                 /\ SetToSeq(KindOf(plans, kind))[i].hints = kind
  <1> DEFINE K == KindOf(plans, kind)
             seq == SetToSeq(K)
  <1>1. IsFiniteSet(plans)
    BY FS_Subset
  <1>2. IsFiniteSet(K)
    <2> DEFINE f == [p \in plans |-> [plan |-> p, hints |-> kind]]
    <2>1. K = {f[p] : p \in plans}
      BY DEF KindOf
    <2>2. f \in Surjection(plans, K)
      BY <2>1 DEF Surjection
    <2> QED  BY <1>1, <2>2, FS_Surjection
  <1>3. seq \in Seq(K) /\ IsInjective(seq)
    BY <1>2, SetToSeqIsEnumeration
  <1>4. \A k \in K : k \in Candidate /\ k.plan \in plans /\ k.hints = kind
    BY DEF KindOf, Candidate
  <1>5. \A k, l \in K : k.plan = l.plan => k = l
    BY DEF KindOf
  <1> HIDE DEF K, seq
  <1>6. \A i \in DOMAIN seq : seq[i] \in K
    BY <1>3, ElementOfSeq, LenProperties
  <1>7. seq \in Seq(Candidate)
    <2>1. K \subseteq Candidate
      BY <1>4
    <2> QED  BY <1>3, <2>1, SeqDef
  <1>8. DistinctPlans(seq)
    BY <1>3, <1>5, <1>6 DEF DistinctPlans, IsInjective
  <1> QED  BY <1>4, <1>6, <1>7, <1>8 DEF K, seq

\* Every candidate has its own plan; where outlines cannot be extracted, those
\* with a default plan have no hints.
LEMMA CandidatesAreDistinct ==
    ASSUME IsFiniteSet(CandidatePlan), extraction' \in BOOLEAN,
           NEW defaultPlans \in SUBSET CandidatePlan, NEW captured \in SUBSET CandidatePlan,
           NEW additional \in SUBSET CandidatePlan
    PROVE  /\ Candidates(defaultPlans, captured, additional) \in Seq(Candidate)
           /\ DistinctPlans(Candidates(defaultPlans, captured, additional))
           /\ ~extraction' =>
                 \A i \in DOMAIN Candidates(defaultPlans, captured, additional) :
                    Candidates(defaultPlans, captured, additional)[i].plan \in defaultPlans =>
                       Candidates(defaultPlans, captured, additional)[i].hints = "none"
  <1> DEFINE first == IF extraction' THEN "outline" ELSE "none"
             hinted == IF extraction' THEN "outline" ELSE "enumerated"
             a == SetToSeq(KindOf(defaultPlans, first))
             b == SetToSeq(KindOf(captured \ defaultPlans, "outline"))
             c == SetToSeq(KindOf(additional \ (captured \cup defaultPlans), hinted))
  <1>1. Candidates(defaultPlans, captured, additional) = a \o b \o c
    BY DEF Candidates, KindOf
  <1>2. /\ a \in Seq(Candidate) /\ DistinctPlans(a)
        /\ \A i \in DOMAIN a : a[i].plan \in defaultPlans /\ a[i].hints = first
    <2>1. first \in {"none", "outline", "enumerated"}
      OBVIOUS
    <2> HIDE DEF first
    <2> QED  BY <2>1, KindIsDistinct
  <1>3. /\ b \in Seq(Candidate) /\ DistinctPlans(b)
        /\ \A i \in DOMAIN b : b[i].plan \in captured \ defaultPlans
    <2>1. captured \ defaultPlans \in SUBSET CandidatePlan
      OBVIOUS
    <2> QED  BY <2>1, KindIsDistinct
  <1>4. /\ c \in Seq(Candidate) /\ DistinctPlans(c)
        /\ \A i \in DOMAIN c : c[i].plan \in additional \ (captured \cup defaultPlans)
    <2>1. additional \ (captured \cup defaultPlans) \in SUBSET CandidatePlan
      OBVIOUS
    <2>2. hinted \in {"none", "outline", "enumerated"}
      OBVIOUS
    <2> HIDE DEF hinted
    <2> QED  BY <2>1, <2>2, KindIsDistinct
  <1>5. ~extraction' => first = "none"
    OBVIOUS
  <1> HIDE DEF a, b, c, first, hinted
  <1> DEFINE ab == a \o b
  <1>6. /\ ab \in Seq(Candidate) /\ DistinctPlans(ab)
        /\ \A i \in DOMAIN ab : \/ i \in DOMAIN a /\ ab[i] = a[i]
                                \/ i - Len(a) \in DOMAIN b /\ ab[i] = b[i - Len(a)]
    <2>1. \A i \in DOMAIN a, j \in DOMAIN b : a[i].plan # b[j].plan
      BY <1>2, <1>3
    <2> QED  BY <1>2, <1>3, <2>1, Joined, JoinedDistinct
  <1>7. \A i \in DOMAIN ab : ab[i].plan \in captured \cup defaultPlans
                             /\ (ab[i].plan \in defaultPlans => ab[i].hints = first)
    BY <1>2, <1>3, <1>6
  <1> HIDE DEF ab
  <1>8. /\ ab \o c \in Seq(Candidate) /\ DistinctPlans(ab \o c)
        /\ \A i \in DOMAIN (ab \o c) :
              \/ i \in DOMAIN ab /\ (ab \o c)[i] = ab[i]
              \/ i - Len(ab) \in DOMAIN c /\ (ab \o c)[i] = c[i - Len(ab)]
    <2>1. \A i \in DOMAIN ab, j \in DOMAIN c : ab[i].plan # c[j].plan
      BY <1>4, <1>7
    <2> QED  BY <1>4, <1>6, <2>1, Joined, JoinedDistinct
  <1>9. \A i \in DOMAIN (ab \o c) :
           (ab \o c)[i].plan \in defaultPlans => (ab \o c)[i].hints = first
    BY <1>4, <1>7, <1>8
  <1> QED  BY <1>1, <1>5, <1>8, <1>9 DEF ab

\* A pair of distinct elements has two.
LEMMA TwoElements ==
    ASSUME NEW x, NEW y, x # y
    PROVE  Cardinality({x, y}) = 2
  <1>1. {x, y} = {x} \cup {y} /\ y \notin {x}
    OBVIOUS
  <1>2. IsFiniteSet({x}) /\ Cardinality({x}) = 1
    BY FS_Singleton
  <1> QED  BY <1>1, <1>2, FS_AddElement

-----------------------------------------------------------------------------
(* Every step preserves the invariant.                                     *)

\* Before a template there is nothing to relate.
LEMMA InitDecisionInv == DecisionAssumption /\ DecisionInit => DecisionInv
  <1> SUFFICES ASSUME DecisionAssumption, DecisionInit
               PROVE  DecisionInv
    OBVIOUS
  <1>1. Samples \subseteq Nat \ {0}
    BY LenProperties DEF DecisionAssumption, Samples
  <1>2. DecisionTypes
    <2>1. candidates \in Seq(Candidate)
      BY EmptySeq DEF DecisionInit
    <2> QED  BY <2>1 DEF DecisionInit, DecisionTypes
  <1>3. CandidatesInv
    BY DEF DecisionInit, CandidatesInv, Running
  <1>4. \A s \in Samples : TrialInv(s)
    BY <1>1 DEF DecisionInit, TrialInv, Measured
  <1>5. TurnInv /\ RulesSafe
    BY DEF DecisionInit, TurnInv, RulesSafe
  <1> QED  BY <1>2, <1>3, <1>4, <1>5 DEF DecisionInit, DecisionInv, Running

\* A template given up has no rules.
LEMMA SkippedKeeps == DecisionInv /\ stage # "decided" /\ Skipped => DecisionInv'
  <1> SUFFICES ASSUME DecisionInv, stage # "decided", Skipped
               PROVE  DecisionInv'
    OBVIOUS
  <1>1. DecisionTypes'
    BY DEF DecisionInv, DecisionTypes, Skipped
  <1>2. CandidatesInv'
    BY DEF DecisionInv, CandidatesInv, Skipped, Running
  <1> QED  BY <1>1, <1>2 DEF DecisionInv, TurnInv, Skipped, Running, RulesSafe

\* Collecting establishes what is said of candidates.
LEMMA CollectKeeps ==
    ASSUME DecisionAssumption, DecisionInv, stage = "idle",
           NEW known \in SUBSET Samples, NEW captured \in SUBSET CandidatePlan,
           NEW additional \in SUBSET CandidatePlan,
           Collect(known, captured, additional)
    PROVE  DecisionInv'
  <1> DEFINE distinct == {defaults'[s] : s \in known}
  <1>1. /\ distinct \in SUBSET CandidatePlan /\ IsFiniteSet(CandidatePlan)
        /\ 1 \in Samples /\ Samples \subseteq Nat \ {0}
    BY LenProperties DEF DecisionAssumption, Collect, Samples
  <1>2. /\ candidates' = Candidates(distinct, captured, additional)
        /\ extraction' \in BOOLEAN
        /\ stage' \in {"measure", "decided"}
        /\ stage' = "measure" =>
              /\ candidates' # <<>>
              /\ outlineType' = "statement_outline" => ~(Cardinality(distinct) > 1)
    BY DEF Collect
  <1>3. /\ candidates' \in Seq(Candidate) /\ DistinctPlans(candidates')
        /\ ~extraction' => \A i \in DOMAIN candidates' :
              candidates'[i].plan \in distinct => candidates'[i].hints = "none"
    <2> HIDE DEF distinct
    <2> DEFINE C == Candidates(distinct, captured, additional)
    <2>1. C \in Seq(Candidate) /\ DistinctPlans(C)
      BY <1>1, <1>2, CandidatesAreDistinct
    <2>2. ~extraction' => \A i \in DOMAIN C : C[i].plan \in distinct => C[i].hints = "none"
      BY <1>1, <1>2, CandidatesAreDistinct
    <2>3. candidates' = C
      BY <1>2
    <2> HIDE DEF C
    <2> QED  BY <2>1, <2>2, <2>3
  <1>4. DecisionTypes'
    BY <1>2, <1>3 DEF DecisionInv, DecisionTypes, Collect
  <1>5. CandidatesInv'
    <2>1. collected' = Samples => \A s \in Samples : defaults'[s] \in distinct
      BY DEF Collect
    <2>2. ASSUME stage' = "measure", collected' = Samples,
                 outlineType' = "statement_outline",
                 NEW r \in Samples, NEW s \in Samples
          PROVE  defaults'[r] = defaults'[s]
      <3>1. {defaults'[r], defaults'[s]} \subseteq distinct
        BY <2>1, <2>2
      <3>2. IsFiniteSet(distinct)
        BY <1>1, FS_Subset
      <3>3. Cardinality({defaults'[r], defaults'[s]}) <= Cardinality(distinct)
        BY <3>1, <3>2, FS_Subset
      <3>4. defaults'[r] # defaults'[s] =>
               Cardinality({defaults'[r], defaults'[s]}) = 2
        BY TwoElements
      <3>5. Cardinality(distinct) \in Nat
        BY <3>2, FS_CardinalityType
      <3> QED  BY <1>2, <2>2, <3>3, <3>4, <3>5
    <2> HIDE DEF distinct
    <2> QED  BY <1>2, <1>3, <2>1, <2>2 DEF CandidatesInv, DistinctPlans, Running
  <1>6. turn' = <<1, 1>> /\ turn = <<1, 1>>
    BY DEF DecisionInv, TurnInv, Collect
  <1>7. TurnInv'
    <2>1. stage' = "measure" => 1 \in DOMAIN candidates'
      BY <1>2, <1>3, EmptySeq, LenProperties
    <2> QED  BY <1>1, <1>2, <1>6, <2>1 DEF TurnInv
  <1>8. ASSUME NEW s \in Samples
        PROVE  TrialInv(s)'
    <2>1. TrialInv(s)
      BY DEF DecisionInv
    <2>2. TriedOn(s) = {}
      BY <1>1, <1>6 DEF TriedOn
    <2>3. DOMAIN trials'[s] = {}
      BY <2>1, <2>2 DEF TrialInv, Collect
    <2>4. ~Measured(s)'
      BY <1>1, <1>2, <1>6 DEF Measured
    <2> QED  BY <2>3, <2>4 DEF TrialInv
  <1> QED  BY <1>2, <1>4, <1>5, <1>7, <1>8 DEF DecisionInv, Collect, RulesSafe

\* The default plan has been measured: the sample's first candidate is next.
LEMMA MeasureDefaultKeeps == DecisionAssumption /\ DecisionInv /\ MeasureDefault => DecisionInv'
  <1> SUFFICES ASSUME DecisionAssumption, DecisionInv, MeasureDefault
               PROVE  DecisionInv'
    OBVIOUS
  <1> DEFINE s == turn[1]
  <1>1. CASE Skipped
    BY <1>1, SkippedKeeps DEF MeasureDefault
  <1>2. ASSUME NEW t \in PlanTimes,
               defaultTime' = [defaultTime EXCEPT ![s] = t],
               results' = [results EXCEPT ![s] = [p \in {defaults[s]} |-> t]],
               stage' = "evaluate",
               UNCHANGED <<outlineType, extraction, defaults, collected, candidates,
                           turn, trials, evaluated, rules>>
        PROVE  DecisionInv'
    <2>1. /\ stage = "measure" /\ s \in Samples /\ turn[2] = 1
          /\ turn[2] \in DOMAIN candidates /\ DecisionTypes
          /\ Samples \subseteq Nat
      BY LenProperties DEF MeasureDefault, DecisionInv, TurnInv, DecisionAssumption, Samples
    <2>2. t \in Nat
      BY DEF DecisionAssumption
    <2>3. DecisionTypes'
      BY <1>2, <2>1, <2>2 DEF DecisionTypes
    <2>4. CandidatesInv'
      BY <1>2, <2>1 DEF DecisionInv, CandidatesInv, Running
    <2>5. TurnInv'
      BY <1>2, <2>1 DEF TurnInv
    <2>6. DOMAIN candidates \subseteq Nat \ {0}
      BY <2>1, LenProperties DEF DecisionTypes
    <2>7. ASSUME NEW r \in Samples
          PROVE  TrialInv(r)'
      <3>1. TrialInv(r)
        BY <2>1 DEF DecisionInv, Running
      <3>2. TriedOn(r) \subseteq TriedOn(r)'
        BY <1>2, <2>1 DEF TriedOn
      <3>3. \A p \in DOMAIN trials'[r] : \E i \in TriedOn(r)' : p = candidates'[i].plan
        BY <1>2, <3>1, <3>2 DEF TrialInv
      <3>4. CASE r = s
        <4>1. DOMAIN results'[s] = {defaults'[s]} /\ results'[s][defaults'[s]] = t
              /\ defaultTime'[s] = t
          BY <1>2, <2>1 DEF DecisionTypes
        <4> QED  BY <3>3, <3>4, <4>1 DEF TrialInv, KnownOf
      <3>5. CASE r # s
        <4>1. /\ results'[r] = results[r] /\ trials'[r] = trials[r]
              /\ defaults'[r] = defaults[r] /\ defaultTime'[r] = defaultTime[r]
              /\ collected' = collected
          BY <1>2, <2>1, <3>5 DEF DecisionTypes
        <4>2. Measured(r)' => Measured(r)
          BY <1>2, <2>1, <3>5 DEF Measured
        <4> QED  BY <3>1, <3>3, <4>1, <4>2 DEF TrialInv
      <3> QED  BY <3>4, <3>5
    <2>8. evaluated' # {} => \E r \in Samples :
             Measured(r)' /\ defaultTime'[r] >= MinQueryTime
      <3> SUFFICES ASSUME evaluated # {}
                   PROVE  \E r \in Samples :
                             Measured(r)' /\ defaultTime'[r] >= MinQueryTime
        BY <1>2
      <3>1. PICK r \in Samples : Measured(r) /\ defaultTime[r] >= MinQueryTime
        BY <2>1 DEF DecisionInv, Running
      <3>2. r # s
        BY <2>1, <3>1 DEF Measured
      <3>3. Measured(r)' /\ defaultTime'[r] = defaultTime[r]
        BY <1>2, <2>1, <3>1, <3>2 DEF Measured, DecisionTypes
      <3> QED  BY <3>1, <3>3
    <2> QED  BY <1>2, <2>1, <2>3, <2>4, <2>5, <2>7, <2>8 DEF DecisionInv, RulesSafe
  <1> QED  BY <1>1, <1>2 DEF MeasureDefault

\* The turn passes to the next candidate, or to the next sample.
LEMMA AdvanceMoves ==
    ASSUME DecisionAssumption, DecisionInv, stage = "evaluate", Advance,
           candidates' = candidates
    PROVE  /\ stage' \in {"measure", "evaluate", "decide"}
           /\ turn' \in Nat \X Nat
           /\ TurnInv'
           /\ \A r \in Samples : Measured(r)' <=> Measured(r)
           /\ \A r \in Samples : TriedOn(r) \subseteq TriedOn(r)'
           /\ turn[1] \in Samples /\ turn[2] \in DOMAIN candidates
           /\ turn[2] \notin TriedOn(turn[1])
           /\ \A r \in Samples : r = turn[1] => turn[2] \in TriedOn(r)'
           /\ Measured(turn[1])
  <1>1. /\ Samples = 1 .. Len(Sample) /\ Len(Sample) \in Nat
        /\ DOMAIN candidates = 1 .. Len(candidates) /\ Len(candidates) \in Nat
    BY LenProperties DEF DecisionAssumption, Samples, DecisionInv, DecisionTypes
  <1>2. turn[1] \in Samples /\ turn[2] \in DOMAIN candidates
        /\ turn = <<turn[1], turn[2]>>
    BY DEF DecisionInv, TurnInv, DecisionTypes
  <1>3. \/ /\ turn' = <<turn[1], turn[2] + 1>> /\ stage' = "evaluate"
           /\ turn[2] < Len(candidates)
        \/ /\ turn' = <<turn[1] + 1, 1>> /\ turn[2] = Len(candidates)
           /\ stage' = IF turn[1] + 1 > Len(Sample) THEN "decide" ELSE "measure"
    BY <1>1, <1>2 DEF Advance, NextTurn
  <1>4. /\ stage' \in {"measure", "evaluate", "decide"}
        /\ turn' \in Nat \X Nat
    BY <1>1, <1>2, <1>3
  <1>5. TurnInv'
    BY <1>1, <1>2, <1>3 DEF TurnInv
  <1>6. \A r \in Samples : Measured(r)' <=> Measured(r)
    BY <1>1, <1>2, <1>3 DEF Measured
  <1>7. \A r \in Samples : TriedOn(r) \subseteq TriedOn(r)'
    BY <1>1, <1>2, <1>3 DEF TriedOn
  <1>8. turn[2] \notin TriedOn(turn[1])
        /\ \A r \in Samples : r = turn[1] => turn[2] \in TriedOn(r)'
    <2>1. turn[2] \in DOMAIN candidates' /\ turn[1] \in Nat /\ turn[2] \in Nat
      BY <1>1, <1>2
    <2>2. turn[2] \notin TriedOn(turn[1])
      BY <2>1 DEF TriedOn
    <2>3. turn'[1] \in Nat /\ turn'[2] \in Nat
          /\ (turn[1] < turn'[1] \/ (turn[1] = turn'[1] /\ stage' = "evaluate"
                                      /\ turn[2] < turn'[2]))
      <3>1. CASE turn' = <<turn[1], turn[2] + 1>> /\ stage' = "evaluate"
        <4>1. turn'[1] = turn[1] /\ turn'[2] = turn[2] + 1
          BY <3>1
        <4> QED  BY <2>1, <3>1, <4>1
      <3>2. CASE turn' = <<turn[1] + 1, 1>>
        <4>1. turn'[1] = turn[1] + 1 /\ turn'[2] = 1
          BY <3>2
        <4> QED  BY <2>1, <4>1
      <3> QED  BY <1>3, <3>1, <3>2
    <2>4. \A r \in Samples : r = turn[1] => turn[2] \in TriedOn(r)'
      BY <2>1, <2>3 DEF TriedOn
    <2> QED  BY <2>2, <2>4
  <1>9. Measured(turn[1])
    BY <1>2 DEF Measured
  <1> QED  BY <1>2, <1>4, <1>5, <1>6, <1>7, <1>8, <1>9

\* What is known of a sample after a trial whose time the results hold.
LEMMA TrialKeepsSample ==
    ASSUME NEW res, NEW tri, NEW d, NEW atDefault, NEW known, NEW p, NEW trial,
           KnownOf(res, tri, d, atDefault, known),
           known /\ p = d => trial.time = atDefault
    PROVE  KnownOf(Put(res, p, trial.time), Put(tri, p, trial), d, atDefault, known)
  <1>1. /\ DOMAIN Put(res, p, trial.time) = DOMAIN res \cup {p}
        /\ \A q \in DOMAIN res \cup {p} :
              Put(res, p, trial.time)[q] = IF q = p THEN trial.time ELSE res[q]
        /\ DOMAIN Put(tri, p, trial) = DOMAIN tri \cup {p}
        /\ \A q \in DOMAIN tri \cup {p} :
              Put(tri, p, trial)[q] = IF q = p THEN trial ELSE tri[q]
    BY DEF Put
  <1> QED  BY <1>1 DEF KnownOf

\* The samples the turn is not on keep what is known of them.
LEMMA OtherSamplesKeep ==
    ASSUME DecisionAssumption, DecisionInv, stage = "evaluate", Advance,
           UNCHANGED <<defaults, collected, candidates, defaultTime>>,
           NEW r \in Samples,
           results'[r] = results[r], trials'[r] = trials[r]
    PROVE  TrialInv(r)'
  <1>1. TrialInv(r)
    BY DEF DecisionInv, Running
  <1>2. Measured(r)' <=> Measured(r)
    BY AdvanceMoves
  <1>3. TriedOn(r) \subseteq TriedOn(r)'
    BY AdvanceMoves
  <1> QED  BY <1>1, <1>2, <1>3 DEF TrialInv

\* A trial of the candidate whose turn it is, whatever it gave.
LEMMA TrialKeeps ==
    ASSUME DecisionAssumption, DecisionInv, stage = "evaluate", Advance,
           UNCHANGED <<outlineType, extraction, defaults, collected, candidates,
                       defaultTime, rules>>,
           NEW trial,
           trials' = [trials EXCEPT ![turn[1]] =
                        Put(@, candidates[turn[2]].plan, trial)],
           \/ /\ results' = [results EXCEPT ![turn[1]] =
                               Put(@, candidates[turn[2]].plan, trial.time)]
              /\ collected = Samples
                    /\ candidates[turn[2]].plan = defaults[turn[1]] =>
                       trial.time = defaultTime[turn[1]]
           \/ results' = results,
           \/ evaluated' = evaluated
           \/ defaultTime[turn[1]] >= MinQueryTime
    PROVE  DecisionInv'
  <1> DEFINE s == turn[1]
             p == candidates[turn[2]].plan
  <1>1. /\ stage' \in {"measure", "evaluate", "decide"}
        /\ turn' \in Nat \X Nat
        /\ TurnInv'
        /\ \A r \in Samples : Measured(r)' <=> Measured(r)
        /\ \A r \in Samples : TriedOn(r) \subseteq TriedOn(r)'
        /\ s \in Samples /\ turn[2] \in DOMAIN candidates
        /\ turn[2] \notin TriedOn(s)
        /\ \A r \in Samples : r = s => turn[2] \in TriedOn(r)'
        /\ Measured(s)
    BY AdvanceMoves
  <1>2. DecisionTypes /\ CandidatesInv /\ TrialInv(s) /\ rules = {}
    BY <1>1 DEF DecisionInv, Running
  <1>3. DecisionTypes'
    BY <1>1, <1>2 DEF DecisionTypes
  <1>4. CandidatesInv'
    BY <1>2 DEF CandidatesInv, Running
  <1>5. p \notin DOMAIN trials[s]
    <2>1. ASSUME NEW i \in TriedOn(s), p = candidates[i].plan
          PROVE  FALSE
      <3>1. i \in DOMAIN candidates
        BY DEF TriedOn
      <3>2. i = turn[2]
        BY <1>1, <1>2, <2>1, <3>1 DEF CandidatesInv
      <3> QED  BY <1>1, <3>2
    <2> QED  BY <1>2, <2>1 DEF TrialInv
  <1>6. ASSUME NEW r \in Samples, r # s
        PROVE  TrialInv(r)'
    <2>1. results'[r] = results[r] /\ trials'[r] = trials[r]
      BY <1>1, <1>2, <1>6 DEF DecisionTypes
    <2> QED  BY <2>1, OtherSamplesKeep
  <1>7. ASSUME NEW r \in Samples, r = s
        PROVE  TrialInv(r)'
    <2>1. KnownOf(results[r], trials[r], defaults[r], defaultTime[r],
                  collected = Samples)
      BY <1>1, <1>2, <1>7 DEF TrialInv
    <2>2. trials'[r] = Put(trials[r], p, trial)
      BY <1>1, <1>2, <1>7 DEF DecisionTypes
    <2>3. KnownOf(results'[r], trials'[r], defaults[r], defaultTime[r],
                  collected = Samples)
      <3>1. CASE /\ results' = [results EXCEPT ![turn[1]] =
                                 Put(@, candidates[turn[2]].plan, trial.time)]
                 /\ collected = Samples
                       /\ candidates[turn[2]].plan = defaults[turn[1]] =>
                          trial.time = defaultTime[turn[1]]
        <4>1. results'[r] = Put(results[r], p, trial.time)
          BY <1>1, <1>2, <1>7, <3>1 DEF DecisionTypes
        <4>2. collected = Samples /\ p = defaults[r] => trial.time = defaultTime[r]
          BY <1>7, <3>1
        <4> DEFINE known == collected = Samples
        <4>3. KnownOf(results[r], trials[r], defaults[r], defaultTime[r], known)
          BY <2>1
        <4>4. known /\ p = defaults[r] => trial.time = defaultTime[r]
          BY <4>2
        <4> HIDE DEF p, known
        <4>5. KnownOf(Put(results[r], p, trial.time), Put(trials[r], p, trial),
                      defaults[r], defaultTime[r], known)
          BY <4>3, <4>4, TrialKeepsSample
        <4> QED  BY <2>2, <4>1, <4>5 DEF known
      <3>2. CASE results' = results
        <4>1. p \notin DOMAIN results[r] \/ p = defaults[r]
          BY <1>5, <1>7, <2>1 DEF KnownOf
        <4> QED  BY <2>1, <2>2, <3>2, <4>1 DEF KnownOf, Put
      <3> QED  BY <3>1, <3>2
    <2>4. \A q \in DOMAIN trials'[r] : \E i \in TriedOn(r)' : q = candidates[i].plan
      <3>1. DOMAIN trials'[r] = DOMAIN trials[r] \cup {p}
        BY <2>2 DEF Put
      <3> QED  BY <1>1, <1>2, <1>7, <3>1 DEF TrialInv
    <2> QED  BY <2>3, <2>4 DEF TrialInv
  <1>8. evaluated' # {} => \E r \in Samples :
           Measured(r)' /\ defaultTime'[r] >= MinQueryTime
    <2>1. CASE evaluated' = evaluated
      BY <1>1, <2>1 DEF DecisionInv, Running
    <2>2. CASE defaultTime[s] >= MinQueryTime
      BY <1>1, <2>2
    <2> QED  BY <2>1, <2>2
  <1> QED  BY <1>1, <1>2, <1>3, <1>4, <1>6, <1>7, <1>8 DEF DecisionInv, RulesSafe, Running

\* Each of the three ways an evaluation goes is a trial, at the default's time, at
\* the time found in the table, or at the time measured.
LEMMA EvaluateKeeps ==
    ASSUME DecisionAssumption, DecisionInv, NEW plan, Evaluate(plan)
    PROVE  DecisionInv'
  <1> DEFINE s == turn[1]
             c == candidates[turn[2]]
             Trial(t) == [default |-> plan = defaults[s], time |-> t]
  <1>1. /\ stage = "evaluate" /\ Advance
        /\ UNCHANGED <<outlineType, extraction, defaults, collected, candidates,
                       defaultTime, rules>>
        /\ c.hints = "none" => plan = defaults[s]
    BY DEF Evaluate
  <1>2. s \in Samples /\ turn[2] \in DOMAIN candidates /\ DecisionTypes /\ CandidatesInv
    BY <1>1 DEF DecisionInv, TurnInv
  <1>3. CASE /\ plan = defaults[s]
             /\ Outcome(s, c, plan, defaultTime[s])
             /\ Evaluated(s, plan)
    <2>1. /\ trials' = [trials EXCEPT ![s] = Put(@, c.plan, Trial(defaultTime[s]))]
          /\ results' = [results EXCEPT ![s] =
                           Put(@, c.plan, Trial(defaultTime[s]).time)]
          /\ Trial(defaultTime[s]).time = defaultTime[s]
      BY <1>3 DEF Outcome
    <2>2. evaluated' = evaluated \/ defaultTime[s] >= MinQueryTime
      BY <1>3 DEF Evaluated
    <2> HIDE DEF Trial
    <2> QED  BY <1>1, <2>1, <2>2, TrialKeeps
  <1>4. CASE /\ plan \in DOMAIN results[s] /\ plan # defaults[s]
             /\ trials' = [trials EXCEPT ![s] =
                    Put(@, c.plan, [default |-> FALSE, time |-> results[s][plan]])]
             /\ UNCHANGED <<results, evaluated>>
    <2> DEFINE trial == [default |-> FALSE, time |-> results[s][plan]]
    <2>1. trials' = [trials EXCEPT ![s] = Put(@, c.plan, trial)]
      BY <1>4
    <2> HIDE DEF trial
    <2> QED  BY <1>1, <1>4, <2>1, TrialKeeps
  <1>5. CASE /\ plan # defaults[s]
             /\ extraction => plan = c.plan
             /\ \E t \in PlanTimes \cup {Never} :
                   IF TimesOut(t, defaultTime[s])
                     THEN Outcome(s, c, plan, Never) /\ Evaluated(s, c.plan)
                     ELSE Outcome(s, c, plan, t) /\ Evaluated(s, plan)
    <2>1. PICK t : /\ t \in PlanTimes \cup {Never}
                   /\ Outcome(s, c, plan, t)
                   /\ Evaluated(s, plan) \/ Evaluated(s, c.plan)
      BY <1>5
    <2>2. /\ trials' = [trials EXCEPT ![s] = Put(@, c.plan, Trial(t))]
          /\ results' = [results EXCEPT ![s] = Put(@, c.plan, Trial(t).time)]
          /\ Trial(t).time = t
      BY <2>1 DEF Outcome
    <2>3. evaluated' = evaluated \/ defaultTime[s] >= MinQueryTime
      BY <2>1 DEF Evaluated
    <2>4. collected = Samples => c.plan # defaults[s]
      BY <1>1, <1>2, <1>5 DEF CandidatesInv
    <2> HIDE DEF Trial
    <2> QED  BY <1>1, <2>2, <2>3, <2>4, TrialKeeps
  <1> QED  BY <1>3, <1>4, <1>5 DEF Evaluate

\* The decision: what qualifies is safe, by what is known of every sample.
LEMMA DecidedKeeps ==
    ASSUME DecisionAssumption, DecisionInv, Decided
    PROVE  DecisionInv'
  <1>1. /\ stage = "decide" /\ stage' = "decided"
        /\ UNCHANGED <<outlineType, extraction, defaults, collected, candidates, turn,
                       defaultTime, results, trials, evaluated>>
    BY DEF Decided
  <1>2. PICK selected \in Selection :
           rules' = {p \in selected :
                       /\ p \in evaluated
                       /\ \E i \in DOMAIN candidates : candidates[i].plan = p}
    BY DEF Decided
  <1>3. /\ DecisionTypes /\ CandidatesInv /\ TurnInv
        /\ \A s \in Samples : TrialInv(s) /\ Measured(s)
        /\ Samples \subseteq Nat
    BY <1>1, LenProperties
       DEF DecisionInv, TurnInv, Running, Measured, DecisionAssumption, Samples
  <1>4. DecisionTypes' /\ CandidatesInv' /\ TurnInv'
    BY <1>1, <1>3 DEF DecisionTypes, CandidatesInv, TurnInv, Running
  <1>5. selected \subseteq Qualified
    BY <1>2 DEF Selection, GlobalBest
  <1>6. ASSUME rules' # {}, collected = Samples
        PROVE  /\ \A p \in rules' :
                     /\ \A s \in Samples :
                           \/ p = defaults[s] \/ trials[s][p].default
                           \/ IsBetter(trials[s][p].time, defaultTime[s])
                     /\ \E s \in Samples : IsBetter(trials[s][p].time, defaultTime[s])
               /\ \E s \in Samples : defaultTime[s] >= MinQueryTime
               /\ outlineType = "statement_outline" =>
                     /\ Cardinality(rules') = 1
                     /\ \A r, s \in Samples : defaults[r] = defaults[s]
    <2>1. ASSUME NEW s \in Samples, NEW p \in DOMAIN results[s], p # defaults[s],
                 IsBetter(results[s][p], results[s][defaults[s]])
          PROVE  IsBetter(trials[s][p].time, defaultTime[s])
      <3>1. KnownOf(results[s], trials[s], defaults[s], defaultTime[s], TRUE)
        BY <1>3, <1>6 DEF TrialInv
      <3>2. results[s][p] = trials[s][p].time /\ results[s][defaults[s]] = defaultTime[s]
        BY <2>1, <3>1 DEF KnownOf
      <3> QED  BY <2>1, <3>2
    <2>2. ASSUME NEW p \in rules'
          PROVE  /\ \A s \in Samples :
                       \/ p = defaults[s] \/ trials[s][p].default
                       \/ IsBetter(trials[s][p].time, defaultTime[s])
                 /\ \E s \in Samples : IsBetter(trials[s][p].time, defaultTime[s])
      <3>1. p \in ValidEverywhere /\ Gains(p)
        BY <1>2, <1>5 DEF Qualified
      <3>2. \A s \in Samples : p = defaults[s]
                               \/ IsBetter(trials[s][p].time, defaultTime[s])
        BY <2>1, <3>1 DEF ValidEverywhere, Valid
      <3>3. \E s \in Samples : IsBetter(trials[s][p].time, defaultTime[s])
        BY <2>1, <3>1 DEF Gains
      <3> QED  BY <3>2, <3>3
    <2>3. \E s \in Samples : defaultTime[s] >= MinQueryTime
      <3>1. evaluated # {}
        BY <1>2, <1>6
      <3> QED  BY <1>1, <3>1 DEF DecisionInv, Running
    <2>4. ASSUME outlineType = "statement_outline"
          PROVE  /\ Cardinality(rules') = 1
                 /\ \A r, s \in Samples : defaults[r] = defaults[s]
      <3>1. \E p \in GlobalBest : selected = {p}
        BY <1>2, <1>6, <2>4 DEF Selection
      <3>2. \E p \in GlobalBest : rules' = {p}
        BY <1>2, <1>6, <3>1
      <3>3. Cardinality(rules') = 1
        BY <3>2, FS_Singleton
      <3> QED  BY <1>1, <1>3, <1>6, <2>4, <3>3 DEF CandidatesInv, Running
    <2> QED  BY <2>2, <2>3, <2>4
  <1>7. RulesSafe'
    BY <1>1, <1>6 DEF RulesSafe, IsBetter
  <1> QED  BY <1>1, <1>4, <1>7 DEF DecisionInv, Running

-----------------------------------------------------------------------------
\* From DecisionAssumption alone: the collected plans, the place in the
\* template and the results a rule is decided from stay in step with what the
\* server was measured to do.
THEOREM DecisionInvariant == DecisionSpec => []DecisionInv
  <1>1. DecisionInit => DecisionInv
    BY InitDecisionInv, DecisionAssumption
  <1>2. DecisionInv /\ [DecisionNext]_decisionVars => DecisionInv'
    <2> SUFFICES ASSUME DecisionInv, [DecisionNext]_decisionVars
                 PROVE  DecisionInv'
      OBVIOUS
    <2>1. CASE stage = "idle"
               /\ \E known \in SUBSET Samples, captured \in SUBSET CandidatePlan,
                     optimizer \in {"basic", "small_model", "llm"},
                     enumerated \in SUBSET CandidatePlan, baseline \in PlanTimes :
                     \E elapsed \in [enumerated -> PlanTimes] :
                       Collect(known, captured,
                           AdditionalPlans(optimizer, enumerated, elapsed, baseline))
      <3>1. PICK known \in SUBSET Samples, captured \in SUBSET CandidatePlan,
                 optimizer \in {"basic", "small_model", "llm"},
                 enumerated \in SUBSET CandidatePlan, baseline \in PlanTimes :
                   \E elapsed \in [enumerated -> PlanTimes] :
                     Collect(known, captured,
                           AdditionalPlans(optimizer, enumerated, elapsed, baseline))
        BY <2>1
      <3>2. PICK elapsed \in [enumerated -> PlanTimes] :
                   Collect(known, captured,
                           AdditionalPlans(optimizer, enumerated, elapsed, baseline))
        BY <3>1
      <3>3. AdditionalPlans(optimizer, enumerated, elapsed, baseline)
               \in SUBSET CandidatePlan
        BY DEF AdditionalPlans, LlmPlans
      <3> QED  BY <2>1, <3>2, <3>3, CollectKeeps, DecisionAssumption
    <2>2. CASE MeasureDefault
      BY <2>2, MeasureDefaultKeeps, DecisionAssumption
    <2>3. ASSUME NEW plan \in CandidatePlan, Evaluate(plan)
          PROVE  DecisionInv'
      BY <2>3, EvaluateKeeps, DecisionAssumption
    <2>4. ASSUME NEW plan \in CandidatePlan, UnstableOutline(plan)
          PROVE  DecisionInv'
      BY <2>4, SkippedKeeps DEF UnstableOutline
    <2>7. CASE PlanUnknown
      BY <2>7, SkippedKeeps DEF PlanUnknown
    <2>5. CASE Decided
      BY <2>5, DecidedKeeps, DecisionAssumption
    <2>6. CASE UNCHANGED decisionVars
      <3>1. UNCHANGED <<stage, outlineType, extraction, defaults, collected, candidates,
                        turn, defaultTime, results, trials, evaluated, rules>>
        BY <2>6 DEF decisionVars
      <3>2. DecisionTypes' /\ CandidatesInv' /\ TurnInv' /\ RulesSafe'
        BY <3>1 DEF DecisionInv, DecisionTypes, CandidatesInv, TurnInv, RulesSafe, IsBetter, Running
      <3>3. \A s \in Samples : (TrialInv(s)' <=> TrialInv(s))
                               /\ (Measured(s)' <=> Measured(s))
        BY <3>1 DEF TrialInv, Measured, TriedOn
      <3> QED  BY <3>1, <3>2, <3>3 DEF DecisionInv, Running
    <2> QED  BY <2>1, <2>2, <2>3, <2>4, <2>5, <2>6, <2>7 DEF DecisionNext
  <1> QED  BY <1>1, <1>2, PTL DEF DecisionSpec

\* Results and rules are of plans that are candidates, and default plans too.
PlansInv ==
    /\ \A s \in Samples : DOMAIN results[s] \subseteq CandidatePlan
    /\ rules \subseteq CandidatePlan
    /\ Running => defaults \in [Samples -> DefaultPlans]

\* The results of a sample with one more plan.
LEMMA PlanAdded ==
    ASSUME PlansInv, DecisionInv, NEW s \in Samples, NEW p \in CandidatePlan, NEW t,
           results' = [results EXCEPT ![s] = Put(@, p, t)]
    PROVE  \A r \in Samples : DOMAIN results'[r] \subseteq CandidatePlan
  <1>1. results = [r \in Samples |-> results[r]]
    BY DEF DecisionInv, DecisionTypes
  <1>2. results'[s] = Put(results[s], p, t) /\ \A r \in Samples \ {s} : results'[r] = results[r]
    BY <1>1
  <1>3. DOMAIN Put(results[s], p, t) = DOMAIN results[s] \cup {p}
    BY DEF Put
  <1>4. DOMAIN results'[s] \subseteq CandidatePlan
    BY <1>2, <1>3 DEF PlansInv
  <1> QED  BY <1>2, <1>4 DEF PlansInv

LEMMA EvaluateKeepsPlans ==
    ASSUME PlansInv, DecisionInv, NEW plan, Evaluate(plan)
    PROVE  PlansInv'
  <1> DEFINE s == turn[1]
             c == candidates[turn[2]]
  <1>1. s \in Samples /\ c.plan \in CandidatePlan
    <2>1. turn[1] \in Samples /\ turn[2] \in DOMAIN candidates /\ candidates \in Seq(Candidate)
      BY DEF Evaluate, DecisionInv, TurnInv, DecisionTypes
    <2>2. c \in Candidate
      BY <2>1, ElementOfSeq, LenProperties
    <2> QED  BY <2>1, <2>2 DEF Candidate
  <1>2. \/ UNCHANGED results
        \/ \E t : results' = [results EXCEPT ![s] = Put(@, c.plan, t)]
    <2>1. \/ Outcome(s, c, plan, defaultTime[s])
          \/ UNCHANGED results
          \/ \E t : Outcome(s, c, plan, t)
      <3> HIDE DEF s, c
      <3>1. ASSUME NEW t \in PlanTimes \cup {Never},
                   IF TimesOut(t, defaultTime[s])
                     THEN Outcome(s, c, plan, Never) /\ Evaluated(s, c.plan)
                     ELSE Outcome(s, c, plan, t) /\ Evaluated(s, plan)
            PROVE  \E u : Outcome(s, c, plan, u)
        BY <3>1
      <3> QED  BY <3>1 DEF Evaluate, s, c
    <2> QED  BY <2>1 DEF Outcome
  <1>3. \A r \in Samples : DOMAIN results'[r] \subseteq CandidatePlan
    <2>1. CASE UNCHANGED results
      BY <2>1 DEF PlansInv
    <2>2. CASE \E t : results' = [results EXCEPT ![s] = Put(@, c.plan, t)]
      BY <1>1, <2>2, PlanAdded
    <2> QED  BY <1>2, <2>1, <2>2
  <1>4. UNCHANGED <<rules, defaults>> /\ Running
    BY DEF Evaluate, Running
  <1> QED  BY <1>3, <1>4 DEF PlansInv

\* For any samples and candidates, times are kept for candidates alone, each plan is
\* a candidate once, and a rule gives one of them (_create_* look a plan up among
\* the candidates).
THEOREM DecisionTypeCorrect == DecisionSpec => []DecisionTypeOK
  <1>1. DecisionInit => PlansInv
    BY DEF DecisionInit, PlansInv, Running
  <1>2. PlansInv /\ DecisionInv /\ [DecisionNext]_decisionVars => PlansInv'
    <2> SUFFICES ASSUME PlansInv, DecisionInv, [DecisionNext]_decisionVars
                 PROVE  PlansInv'
      OBVIOUS
    <2>1. ASSUME NEW known, NEW captured, NEW additional, Collect(known, captured, additional)
          PROVE  PlansInv'
      BY <2>1 DEF Collect, PlansInv
    <2>2. ASSUME Skipped
          PROVE  PlansInv'
      BY <2>2 DEF Skipped, PlansInv, Running
    <2>3. CASE MeasureDefault
      <3>1. CASE Skipped
        BY <3>1, <2>2
      <3>2. CASE ~Skipped
        <4>1. PICK t \in PlanTimes :
                 /\ results' = [results EXCEPT ![turn[1]] = [p \in {defaults[turn[1]]} |-> t]]
                 /\ UNCHANGED <<defaults, rules>>
          BY <2>3, <3>2 DEF MeasureDefault
        <4>2. /\ results = [s \in Samples |-> results[s]] /\ turn[1] \in Samples
              /\ defaults \in [Samples -> DefaultPlans]
          BY <2>3 DEF MeasureDefault, DecisionInv, DecisionTypes, TurnInv, PlansInv, Running
        <4>3. defaults[turn[1]] \in CandidatePlan
          BY <4>2, DecisionAssumption DEF DecisionAssumption
        <4>4. \A s \in Samples : DOMAIN results'[s] \subseteq CandidatePlan
          BY <4>1, <4>2, <4>3 DEF PlansInv
        <4> QED  BY <4>1, <4>2, <4>4 DEF PlansInv
      <3> QED  BY <3>1, <3>2
    <2>4. ASSUME NEW plan \in CandidatePlan, Evaluate(plan) \/ UnstableOutline(plan)
          PROVE  PlansInv'
      BY <2>2, <2>4, EvaluateKeepsPlans DEF UnstableOutline
    <2>7. CASE PlanUnknown
      BY <2>2, <2>7 DEF PlanUnknown
    <2>5. CASE Decided
      <3>1. \A i \in DOMAIN candidates : candidates[i].plan \in CandidatePlan
        <4>1. candidates \in Seq(Candidate)
          BY DEF DecisionInv, DecisionTypes
        <4>2. \A i \in DOMAIN candidates : candidates[i] \in Candidate
          BY <4>1, ElementOfSeq, LenProperties
        <4> QED  BY <4>2 DEF Candidate
      <3>2. rules' \subseteq CandidatePlan
        BY <2>5, <3>1 DEF Decided
      <3>3. UNCHANGED <<results, defaults>> /\ Running
        BY <2>5 DEF Decided, Running
      <3> QED  BY <3>2, <3>3 DEF PlansInv
    <2>6. CASE UNCHANGED decisionVars
      BY <2>6 DEF decisionVars, PlansInv, Running
    <2> QED  BY <2>1, <2>3, <2>4, <2>5, <2>6, <2>7 DEF DecisionNext
  <1>3. PlansInv /\ DecisionInv => DecisionTypeOK
    BY DEF PlansInv, DecisionInv, DecisionTypes, CandidatesInv, DecisionTypeOK
  <1> QED  BY <1>1, <1>2, <1>3, DecisionInvariant, PTL DEF DecisionSpec

\* A rule never slows a sample down, as measured (optimize_template, "must be
\* safe in ALL samples"), for any samples, plans, times and ratio, where every
\* sample's default plan could be collected.
THEOREM RulesAreSafe == DecisionSpec => []RulesSafe
  <1>1. DecisionInv => RulesSafe
    BY DEF DecisionInv
  <1> QED  BY <1>1, DecisionInvariant, PTL

=============================================================================
