------------------------------ MODULE Posterior ------------------------------
(***************************************************************************)
(* mcts_scripts/sft_data/run_posterior_correction.py: training samples are *)
(* taken from one search tree, A4 and no-change nodes as they are, nodes   *)
(* that found something after a judge corrected them, and appended to      *)
(* sft_samples.jsonl.  A run that is started again skips the samples whose *)
(* key it finds in comparison.jsonl.  Both files are appended by one       *)
(* thread at a time, SFT line first, and a process that dies in an append  *)
(* leaves a line without its end, to which the next run glues its first.   *)
(* Left out: prompts, --prompts-only, --limit, the phantom filter (off by  *)
(* default) and review.jsonl, which nothing reads back.                    *)
(***************************************************************************)
EXTENDS Naturals, FiniteSets, FiniteSetsExt

CONSTANTS TreeSize,             \* nodes 1 .. TreeSize, 0 is the root
          ParentOf,             \* the parent of every node
          EntryBaseline,        \* execution time of the default plan
          AnalyzedPlan,         \* plans with EXPLAIN ANALYZE output
          JudgeWorkers,         \* threads of the pool
          MaxPasses, MaxPosteriorDeaths     \* bounds

ASSUME PosteriorAssumption ==
    /\ TreeSize \in Nat \ {0} /\ EntryBaseline \in Nat \ {0} /\ JudgeWorkers \in Nat \ {0}
    /\ \A t \in 1 .. TreeSize : ParentOf[t] \in 0 .. (t - 1)
    /\ MaxPasses \in Nat /\ MaxPosteriorDeaths \in Nat

VARIABLES sftNodes,             \* mcts_tree_nodes of the entry
          pass,                 \* runs of the script so far
          passStage,            \* "idle", "direct" or "judge"
          directLeft, judgeLeft,    \* pending_direct, pending
          calling,              \* samples whose judge call is under way
          pen,                  \* holder of writer_lock and its next append
          sftLines,             \* readable lines of each sample in the SFT file
          compared,             \* readable rows of comparison.jsonl
          sftTorn, cmpTorn,     \* the file ends in the middle of a line
          passDeaths

posteriorVars == <<sftNodes, pass, passStage, directLeft, judgeLeft, calling, pen,
                   sftLines, compared, sftTorn, cmpTorn, passDeaths>>

Tags == 1 .. TreeSize
Untimed == EntryBaseline + 1            \* no execution_time_s
TreeNode == {n \in [action : {"A1", "A4"}, hints : {"new", "deleted", "none"},
                    digest : {"base", "p1", "none"}, seconds : 1 .. Untimed] :
                n.digest = "none" => n.seconds = Untimed}
RootNode == [digest |-> "base", seconds |-> EntryBaseline]
Above(t) == IF ParentOf[t] = 0 THEN RootNode ELSE sftNodes[ParentOf[t]]

\* The node beats the default plan and its parent with another plan.
PassesNodeFilter(t) ==
    LET node == sftNodes[t] IN
    /\ node.seconds < EntryBaseline
    /\ node.digest \notin {"none", "base"}
    /\ node.seconds < Above(t).seconds
    /\ node.digest # Above(t).digest
    /\ node.action # "A4" => node.hints = "new"

JudgeSamples == {t \in Tags : PassesNodeFilter(t) /\ sftNodes[t].digest \in AnalyzedPlan}

SubtreeMin[t \in Tags] ==
    Min({sftNodes[t].seconds} \cup {SubtreeMin[c] : c \in {d \in Tags : ParentOf[d] = t}})

\* An A4 node without hints is worth its best descendant.
A4Samples ==
    {t \in Tags :
        LET parent == Above(t).seconds
        IN  /\ sftNodes[t].action = "A4" /\ sftNodes[t].hints # "new"
            /\ SubtreeMin[t] # Untimed
            /\ SubtreeMin[t] <= (IF parent = Untimed THEN EntryBaseline ELSE parent)}

NoChange == {t \in Tags : sftNodes[t].action # "A4" /\ sftNodes[t].hints = "none"}
\* The cap on no-change samples is one per entry, up to 17 A4 samples.
DirectSamples == A4Samples \cup (IF NoChange = {} THEN {} ELSE {Min(NoChange)})

PosteriorInit ==
    /\ sftNodes \in [Tags -> TreeNode]
    /\ pass = 0 /\ passStage = "idle"
    /\ directLeft = {} /\ judgeLeft = {} /\ calling = {} /\ pen = <<>>
    /\ sftLines = [t \in Tags |-> 0] /\ compared = {}
    /\ sftTorn = FALSE /\ cmpTorn = FALSE /\ passDeaths = 0

-----------------------------------------------------------------------------
\* _already_done_keys: lines that are not JSON are skipped.
DoneKeys == {row.key : row \in compared}
PendingAlways(samples) == samples                   \* as a mutant: no resume
Pending(samples) == samples \ DoneKeys

\* Nothing to do, or no client for the judge: the run ends at once.
StartPass ==
    /\ passStage = "idle" /\ pass < MaxPasses
    /\ pass' = pass + 1
    /\ \/ /\ directLeft' = Pending(DirectSamples) /\ judgeLeft' = Pending(JudgeSamples)
          /\ directLeft' \cup judgeLeft' # {}
          /\ passStage' = "direct"
       \/ /\ Pending(DirectSamples) = {} \/ Pending(JudgeSamples) # {}
          /\ UNCHANGED <<directLeft, judgeLeft, passStage>>
    /\ UNCHANGED <<sftNodes, calling, pen, sftLines, compared, sftTorn, cmpTorn, passDeaths>>

\* _emit_direct, and the pool once no direct sample is left.
EmitDirect ==
    /\ passStage = "direct" /\ pen = <<>>
    /\ \/ \E t \in directLeft :
            /\ directLeft' = directLeft \ {t}
            /\ pen' = <<t, "sft", TRUE>>
            /\ UNCHANGED passStage
       \/ /\ directLeft = {} /\ passStage' = "judge"
          /\ UNCHANGED <<directLeft, pen>>
    /\ UNCHANGED <<sftNodes, pass, judgeLeft, calling, sftLines, compared, sftTorn,
                   cmpTorn, passDeaths>>

CallJudge(t) ==
    /\ passStage = "judge" /\ t \in judgeLeft /\ Cardinality(calling) < JudgeWorkers
    /\ judgeLeft' = judgeLeft \ {t} /\ calling' = calling \cup {t}
    /\ UNCHANGED <<sftNodes, pass, passStage, directLeft, pen, sftLines, compared,
                   sftTorn, cmpTorn, passDeaths>>

\* _handle: a failed call leaves the sample to the next run; an answer that is
\* no JSON, not adopted, scored too low or that changed the hints is recorded
\* as dropped; any other one becomes a sample.
Judged(t) ==
    /\ t \in calling /\ calling' = calling \ {t}
    /\ \/ UNCHANGED pen                                     \* llm_err
       \/ pen = <<>> /\ pen' \in {<<t, "cmp", FALSE>>, <<t, "sft", TRUE>>}
    /\ UNCHANGED <<sftNodes, pass, passStage, directLeft, judgeLeft, sftLines, compared,
                   sftTorn, cmpTorn, passDeaths>>

WriteSft ==
    /\ pen # <<>> /\ pen[2] = "sft"
    /\ sftLines' = IF sftTorn THEN sftLines ELSE [sftLines EXCEPT ![pen[1]] = @ + 1]
    /\ sftTorn' = FALSE
    /\ pen' = <<pen[1], "cmp", TRUE>>
    /\ UNCHANGED <<sftNodes, pass, passStage, directLeft, judgeLeft, calling, compared,
                   cmpTorn, passDeaths>>

WriteComparison ==
    /\ pen # <<>> /\ pen[2] = "cmp"
    /\ compared' = IF cmpTorn THEN compared
                   ELSE compared \cup {[key |-> pen[1], kept |-> pen[3]]}
    /\ cmpTorn' = FALSE
    /\ pen' = <<>>
    /\ UNCHANGED <<sftNodes, pass, passStage, directLeft, judgeLeft, calling, sftLines,
                   sftTorn, passDeaths>>

EndPass ==
    /\ passStage = "judge" /\ judgeLeft = {} /\ calling = {} /\ pen = <<>>
    /\ passStage' = "idle"
    /\ UNCHANGED <<sftNodes, pass, directLeft, judgeLeft, calling, pen, sftLines,
                   compared, sftTorn, cmpTorn, passDeaths>>

\* The process is killed, perhaps with part of a line in a file.
PassDies ==
    /\ passStage # "idle" /\ passDeaths < MaxPosteriorDeaths
    /\ passDeaths' = passDeaths + 1 /\ passStage' = "idle"
    /\ sftTorn' \in {sftTorn, sftTorn \/ (pen # <<>> /\ pen[2] = "sft")}
    /\ cmpTorn' \in {cmpTorn, cmpTorn \/ (pen # <<>> /\ pen[2] = "cmp")}
    /\ directLeft' = {} /\ judgeLeft' = {} /\ calling' = {} /\ pen' = <<>>
    /\ UNCHANGED <<sftNodes, pass, sftLines, compared>>

PosteriorNext ==
    \/ StartPass \/ EmitDirect \/ WriteSft \/ WriteComparison \/ EndPass \/ PassDies
    \/ \E t \in Tags : CallJudge(t) \/ Judged(t)

PosteriorSpec == PosteriorInit /\ [][PosteriorNext]_posteriorVars

-----------------------------------------------------------------------------
PosteriorTypeOK ==
    /\ sftNodes \in [Tags -> TreeNode]
    /\ pass \in 0 .. MaxPasses /\ passDeaths \in 0 .. MaxPosteriorDeaths
    /\ passStage \in {"idle", "direct", "judge"}
    /\ directLeft \cup judgeLeft \cup calling \subseteq Tags
    /\ calling \cap judgeLeft = {}
    /\ pen \in {<<>>} \cup (Tags \X {"sft", "cmp"} \X BOOLEAN)

\* The lines of the file beyond each sample's first.
Repeated == UNION {{t} \X (2 .. sftLines[t]) : t \in Tags}

\* Whatever is killed and started again, the SFT file is almost what one run
\* writes: a death costs at most one sample, recorded as kept but glued to a
\* torn line, and at most two repeated ones, whose keys the comparison file
\* lost.  Only a node that is both a direct and a judged sample (an A4 node
\* whose parent has no plan) is written twice without a death.
SamplesAccounted ==
    /\ Cardinality(Repeated) <= 2 * passDeaths + Cardinality(DirectSamples \cap JudgeSamples)
    /\ Cardinality({t \in Tags : [key |-> t, kept |-> TRUE] \in compared
                                   /\ sftLines[t] = 0}) <= passDeaths
=============================================================================
